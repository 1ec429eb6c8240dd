-------------------------- MODULE ConversionProofs --------------------------
(***************************************************************************)
(* Theorems about Conversion: for any provider spec the ports that the     *)
(* loops of createCAPOPorts return are those of the reference definition,  *)
(* with their subnets and, unless two subnets of a network are put into    *)
(* the same place of an array, with their tags.                            *)
(***************************************************************************)
EXTENDS Conversion, Recursion

USE ConversionAssumption

(* The first k elements of a sequence. *)
LEMMA PrefixType ==
  ASSUME NEW S, NEW s \in Seq(S), NEW k \in 0 .. Len(s)
  PROVE  /\ SubSeq(s, 1, k) \in Seq(S) /\ Len(SubSeq(s, 1, k)) = k
         /\ \A j \in 1 .. k : SubSeq(s, 1, k)[j] = s[j]
<1>1. \A j \in 1 .. k : s[j] \in S
  <2> TAKE j \in 1 .. k
  <2>1. j \in 1 .. Len(s)
    BY Len(s) \in Nat
  <2> QED BY <2>1, ElementOfSeq
<1>2. k \in Int /\ (1 <= k \/ k = 0) /\ 1 \in Int
  OBVIOUS
<1>3. /\ SubSeq(s, 1, k) \in Seq(S)
      /\ Len(SubSeq(s, 1, k)) = (IF 1 <= k THEN k - 1 + 1 ELSE 0)
      /\ \A j \in 1 .. k - 1 + 1 : SubSeq(s, 1, k)[j] = s[1 + j - 1]
  BY <1>1, <1>2, SubSeqProperties
<1> DEFINE p == SubSeq(s, 1, k)
<1> HIDE DEF p
<1>4. p \in Seq(S) /\ Len(p) = k /\ \A j \in 1 .. k : p[j] = s[j]
  BY <1>2, <1>3 DEF p
<1> QED BY <1>4 DEF p

LEMMA PrefixNext ==
  ASSUME NEW S, NEW s \in Seq(S), NEW k \in Nat, k < Len(s)
  PROVE  SubSeq(s, 1, k + 1) = Append(SubSeq(s, 1, k), s[k + 1])
<1>1. k + 1 \in 1 .. Len(s) /\ 1 \in 1 .. Len(s) /\ (k + 1) - 1 = k /\ k \in 0 .. Len(s)
  OBVIOUS
<1>2. SubSeq(s, 1, k + 1) = SubSeq(s, 1, k) \o <<s[k + 1]>>
  BY <1>1, SubSeqRecursiveSecond
<1>3. s[k + 1] \in S /\ SubSeq(s, 1, k) \in Seq(S)
  BY <1>1, ElementOfSeq, PrefixType
<1> QED BY <1>2, <1>3, AppendIsConcat

LEMMA ConcatAppend ==
  ASSUME NEW S, NEW s \in Seq(S), NEW t \in Seq(S), NEW x \in S
  PROVE  s \o Append(t, x) = Append(s \o t, x)
<1>1. <<x>> \in Seq(S) /\ s \o t \in Seq(S)
  BY ConcatProperties
<1>2. Append(t, x) = t \o <<x>> /\ Append(s \o t, x) = (s \o t) \o <<x>>
  BY <1>1, AppendIsConcat
<1>3. (s \o t) \o <<x>> = s \o (t \o <<x>>)
  BY <1>1, ConcatAssociative
<1> QED BY <1>2, <1>3

(* A bounded sequence is a sequence. *)
LEMMA Bounded ==
  ASSUME NEW S, NEW k \in Nat, NEW s \in BoundedSeq(S, k)
  PROVE  s \in Seq(S)
<1>1. PICK j \in 0 .. k : s \in [1 .. j -> S]
  BY DEF BoundedSeq, SeqOf
<1>2. j \in Nat
  OBVIOUS
<1> QED BY <1>1, <1>2, SeqDef

LEMMA FunctionSeq ==
  ASSUME NEW S, NEW k \in Nat, NEW f \in [1 .. k -> S]
  PROVE  f \in Seq(S) /\ Len(f) = k
BY SeqDef, LenProperties

LEMMA NoPrefix ==
  ASSUME NEW S, NEW s \in Seq(S)
  PROVE  SubSeq(s, 1, 0) = <<>>
<1>1. 0 \in 0 .. Len(s)
  BY Len(s) \in Nat
<1>2. SubSeq(s, 1, 0) \in Seq(S) /\ Len(SubSeq(s, 1, 0)) = 0
  BY <1>1, PrefixType
<1> QED BY <1>2, EmptySeq

-----------------------------------------------------------------------------
(* The decoder's arrays hold at least what was decoded into them. *)
LEMMA CapacityFits == ASSUME NEW len \in Nat PROVE Capacity[len] \in Nat /\ len <= Capacity[len]
<1> DEFINE Grown(cap, l) == IF l <= cap THEN cap ELSE IF cap = 0 THEN 1 ELSE 2 * cap
           step == [p \in Nat \X Nat |-> Grown(p[1], p[2] + 1)]
           D(g) == g = [l \in Nat |-> IF l = 0 THEN 0 ELSE Grown(g[l - 1], l)]
<1>1. step \in [Nat \X Nat -> Nat]
  OBVIOUS
<1>2. \A c, k \in Nat : step[<<c, k>>] = Grown(c, k + 1)
  OBVIOUS
<1> HIDE DEF step
<1>3. PICK f \in [Nat -> Nat] : \A j \in Nat : Follows(f, 0, step, j)
  BY <1>1, PrimitiveRecursion
<1>4. D(f)
  <2>1. ASSUME NEW l \in Nat PROVE f[l] = IF l = 0 THEN 0 ELSE Grown(f[l - 1], l)
    <3>1. f[0] = 0
      BY <1>3 DEF Follows
    <3>2. ASSUME l # 0 PROVE f[l] = Grown(f[l - 1], l)
      <4> DEFINE k == l - 1
      <4>1. k \in Nat /\ k + 1 = l /\ k < l /\ f[k] \in Nat
        BY <2>1, <3>2
      <4>2. f[k + 1] = step[<<f[k], k>>]
        BY <1>3, <2>1, <4>1 DEF Follows
      <4>3. step[<<f[k], k>>] = Grown(f[k], k + 1)
        BY <1>2, <4>1
      <4> HIDE DEF Grown
      <4> QED BY <4>1, <4>2, <4>3
    <3> QED BY <3>1, <3>2
  <2> HIDE DEF Grown
  <2> QED BY <2>1
<1>5. Capacity = CHOOSE g : D(g)
  BY DEF Capacity
<1>6. D(Capacity)
  <2> HIDE DEF D
  <2> QED BY <1>4, <1>5
<1> DEFINE T == {l \in Nat : Capacity[l] \in Nat /\ l <= Capacity[l]}
<1>7. 0 \in T
  BY <1>6
<1>8. ASSUME NEW k \in Nat, k \in T PROVE k + 1 \in T
  <2>1. Capacity[k + 1] = Grown(Capacity[k], k + 1)
    <3>1. k + 1 \in Nat /\ k + 1 # 0 /\ (k + 1) - 1 = k
      BY <1>8
    <3> HIDE DEF Grown
    <3>2. \A l \in Nat : l # 0 => Capacity[l] = Grown(Capacity[l - 1], l)
      BY <1>6
    <3> HIDE DEF D
    <3> QED BY <3>1, <3>2
  <2>2. \A c \in Nat : k <= c => Grown(c, k + 1) \in Nat /\ k + 1 <= Grown(c, k + 1)
    OBVIOUS
  <2> HIDE DEF Grown, D
  <2> QED BY <1>8, <2>1, <2>2
<1>9. Nat \subseteq T
  <2> HIDE DEF T
  <2> QED BY <1>7, <1>8, SetInduction
<1> QED BY <1>9

-----------------------------------------------------------------------------
(* Tags, networks, slices and ports; ports of the reference definition. *)
Tag == Names \cup {"net", "spare"}
Net == [given : BOOLEAN, count : Nat, subnets : Seq(Seq(Names))]
SliceType == [array : Nat, len : Nat]
Port == [subnets : Seq(Nat), tags : SliceType]
RefPort == [subnets : Seq(Nat), tags : Seq(Tag)]

SpecOK == ps \in [networks : Seq(Net), ports : Seq(Seq(Names))]

NPorts == Len(ps.ports)
Nets == [k \in 1 .. NNetworks |-> PortsOf(ps.networks[k])]
PortRefs == [k \in DOMAIN ps.ports |-> [subnets |-> <<>>, tags |-> ps.ports[k]]]

(* What the reference definition has of the spec before position (a, b) of the loops. *)
Partial(net, b) == IF net.given THEN <<>> ELSE SubSeq(PortsOf(net), 1, b)

ExpectedAt(a, b) ==
  IF a <= NNetworks
  THEN FlattenSeq(SubSeq(Nets, 1, a - 1)) \o Partial(ps.networks[a], b)
  ELSE FlattenSeq(Nets) \o SubSeq(PortRefs, 1, a - 1 - NNetworks)

LEMMA SpecParts ==
  ASSUME SpecOK
  PROVE  /\ NNetworks \in Nat /\ NPorts \in Nat
         /\ DOMAIN ps.networks = 1 .. NNetworks /\ DOMAIN ps.ports = 1 .. NPorts
         /\ \A k \in 1 .. NNetworks : ps.networks[k] \in Net
         /\ \A k \in 1 .. NPorts : ps.ports[k] \in Seq(Names)
<1>1. ps.networks \in Seq(Net) /\ ps.ports \in Seq(Seq(Names))
  BY DEF SpecOK
<1> HIDE DEF SpecOK
<1> QED BY <1>1, LenProperties, ElementOfSeq DEF NNetworks, NPorts

LEMMA TagsOfNet ==
  ASSUME NEW net \in Net
  PROVE  /\ NetTags(net) \in Seq(Tag) /\ Len(NetTags(net)) = net.count
         /\ net.count \in Nat /\ net.subnets \in Seq(Seq(Names)) /\ net.subnets \in Seq(Seq(Tag))
         /\ Len(net.subnets) \in Nat /\ DOMAIN net.subnets = 1 .. Len(net.subnets)
         /\ \A k \in 1 .. Len(net.subnets) : net.subnets[k] \in Seq(Tag)
<1>1. net.count \in Nat /\ net.subnets \in Seq(Seq(Names))
  BY DEF Net
<1>2. NetTags(net) \in [1 .. net.count -> Tag]
  BY DEF NetTags, Tag
<1>3. NetTags(net) \in Seq(Tag) /\ Len(NetTags(net)) = net.count
  <2> DEFINE c == net.count
             f == NetTags(net)
  <2>1. c \in Nat /\ f \in [1 .. c -> Tag]
    BY <1>1, <1>2
  <2> HIDE DEF c, f
  <2>2. f \in Seq(Tag) /\ Len(f) = c
    BY <2>1, FunctionSeq
  <2> QED BY <2>2 DEF c, f
<1>4. Seq(Names) \subseteq Seq(Tag)
  <2> SUFFICES ASSUME NEW s \in Seq(Names) PROVE s \in Seq(Tag)
    OBVIOUS
  <2> QED BY SeqMonotonic DEF Tag
<1>5. net.subnets \in Seq(Seq(Tag))
  BY <1>1, <1>4, SeqMonotonic
<1> QED BY <1>1, <1>3, <1>5, LenProperties, ElementOfSeq

(* The ports of a network: one, or one for each subnet. *)
LEMMA PortsOfNet ==
  ASSUME NEW net \in Net
  PROVE  /\ PortsOf(net) \in Seq(RefPort)
         /\ net.given => Len(PortsOf(net)) = 1
              /\ PortsOf(net)[1] = [subnets |-> [k \in 1 .. Len(net.subnets) |-> k],
                                    tags |-> NetTags(net) \o FlattenSeq(net.subnets)]
         /\ ~ net.given => Len(PortsOf(net)) = Len(net.subnets)
              /\ \A k \in 1 .. Len(net.subnets) :
                   PortsOf(net)[k] = [subnets |-> <<k>>, tags |-> NetTags(net) \o net.subnets[k]]
<1> DEFINE L == Len(net.subnets)
           one == [subnets |-> [k \in 1 .. L |-> k], tags |-> NetTags(net) \o FlattenSeq(net.subnets)]
           each(k) == [subnets |-> <<k>>, tags |-> NetTags(net) \o net.subnets[k]]
<1>1. L \in Nat /\ DOMAIN net.subnets = 1 .. L
  BY TagsOfNet
<1>2. one \in RefPort
  <2>1. [k \in 1 .. L |-> k] \in Seq(Nat)
    BY <1>1
  <2>2. FlattenSeq(net.subnets) \in Seq(Tag) /\ NetTags(net) \in Seq(Tag)
    BY TagsOfNet, FlattenType
  <2>3. NetTags(net) \o FlattenSeq(net.subnets) \in Seq(Tag)
    BY <2>2, ConcatProperties
  <2> HIDE DEF L
  <2> QED BY <2>1, <2>3 DEF RefPort
<1>3. ASSUME NEW k \in 1 .. L PROVE each(k) \in RefPort
  <2>1. net.subnets[k] \in Seq(Tag) /\ NetTags(net) \in Seq(Tag)
    BY TagsOfNet
  <2>2. NetTags(net) \o net.subnets[k] \in Seq(Tag)
    BY <2>1, ConcatProperties
  <2>3. <<k>> \in Seq(Nat)
    BY <1>1
  <2> HIDE DEF L
  <2> QED BY <2>2, <2>3 DEF RefPort
<1>4. CASE net.given
  <2>1. PortsOf(net) = <<one>>
    BY <1>1, <1>4 DEF PortsOf
  <2> HIDE DEF one
  <2>2. <<one>> \in Seq(RefPort) /\ Len(<<one>>) = 1 /\ <<one>>[1] = one
    BY <1>2
  <2>3. PortsOf(net) \in Seq(RefPort) /\ Len(PortsOf(net)) = 1 /\ PortsOf(net)[1] = one
    BY <2>1, <2>2
  <2> QED BY <1>4, <2>3 DEF one
<1>5. CASE ~ net.given
  <2>1. PortsOf(net) = [k \in 1 .. L |-> each(k)]
    BY <1>1, <1>5 DEF PortsOf
  <2> HIDE DEF each
  <2>2. PortsOf(net) \in [1 .. L -> RefPort]
    BY <1>3, <2>1
  <2>3. PortsOf(net) \in Seq(RefPort) /\ Len(PortsOf(net)) = L
    <3> HIDE DEF L
    <3> QED BY <1>1, <2>2
  <2>4. \A k \in 1 .. L : PortsOf(net)[k] = each(k)
    BY <2>1
  <2> QED BY <1>5, <2>3, <2>4 DEF each
<1> QED BY <1>4, <1>5

LEMMA ReferenceParts ==
  ASSUME SpecOK
  PROVE  /\ Nets \in Seq(Seq(RefPort)) /\ Len(Nets) = NNetworks
         /\ \A k \in 1 .. NNetworks : Nets[k] = PortsOf(ps.networks[k])
         /\ PortRefs \in Seq(RefPort) /\ Len(PortRefs) = NPorts
         /\ \A k \in 1 .. NPorts : PortRefs[k] = [subnets |-> <<>>, tags |-> ps.ports[k]]
         /\ Reference = FlattenSeq(Nets) \o PortRefs
<1>1. \A k \in 1 .. NNetworks : PortsOf(ps.networks[k]) \in Seq(RefPort)
  BY SpecParts, PortsOfNet
<1>2. Nets \in [1 .. NNetworks -> Seq(RefPort)] /\ NNetworks \in Nat
  BY <1>1, SpecParts DEF Nets
<1>3. ASSUME NEW k \in 1 .. NPorts PROVE [subnets |-> <<>>, tags |-> ps.ports[k]] \in RefPort
  <2>1. ps.ports[k] \in Seq(Names)
    BY SpecParts
  <2>2. ps.ports[k] \in Seq(Tag)
    BY <2>1, SeqMonotonic DEF Tag
  <2>3. <<>> \in Seq(Nat)
    OBVIOUS
  <2> QED BY <2>2, <2>3 DEF RefPort
<1>4. PortRefs = [k \in 1 .. NPorts |-> [subnets |-> <<>>, tags |-> ps.ports[k]]] /\ NPorts \in Nat
  BY SpecParts DEF PortRefs
<1>5. PortRefs \in [1 .. NPorts -> RefPort]
  BY <1>3, <1>4
<1>6. Reference = FlattenSeq(Nets) \o PortRefs
  BY DEF Reference, Nets, PortRefs
<1>7. Nets \in Seq(Seq(RefPort)) /\ Len(Nets) = NNetworks
  <2> HIDE DEF NNetworks
  <2> QED BY <1>2, FunctionSeq
<1>8. PortRefs \in Seq(RefPort) /\ Len(PortRefs) = NPorts
  <2> HIDE DEF NPorts
  <2> QED BY <1>4, <1>5, FunctionSeq
<1>9. \A k \in 1 .. NNetworks : Nets[k] = PortsOf(ps.networks[k])
  BY DEF Nets
<1>10. \A k \in 1 .. NPorts : PortRefs[k] = [subnets |-> <<>>, tags |-> ps.ports[k]]
  BY <1>4
<1> QED BY <1>6, <1>7, <1>8, <1>9, <1>10

-----------------------------------------------------------------------------
(* The loops at position (a, b). *)
Position(a, b) ==
  /\ a \in 1 .. NNetworks + NPorts + 1 /\ b \in Nat
  /\ a <= NNetworks => b <= Len(ps.networks[a].subnets)

(* The ports of the networks before network a. *)
Before(a) == FlattenSeq(SubSeq(Nets, 1, a - 1))

LEMMA BeforeType ==
  ASSUME SpecOK, NEW a \in 1 .. NNetworks
  PROVE  Before(a) \in Seq(RefPort) /\ Before(a + 1) = Before(a) \o PortsOf(ps.networks[a])
<1>1. /\ Nets \in Seq(Seq(RefPort)) /\ a \in 1 .. Len(Nets) /\ Nets[a] = PortsOf(ps.networks[a])
      /\ (a + 1) - 1 = a
  BY ReferenceParts, SpecParts
<1> HIDE DEF SpecOK
<1> QED BY <1>1, FlattenNext DEF Before

LEMMA BeforeAll ==
  ASSUME SpecOK
  PROVE  FlattenSeq(Nets) = Before(NNetworks + 1) /\ FlattenSeq(Nets) \in Seq(RefPort)
<1>1. Nets \in Seq(Seq(RefPort)) /\ Len(Nets) = NNetworks /\ (NNetworks + 1) - 1 = NNetworks
  BY ReferenceParts, SpecParts
<1>2. SubSeq(Nets, 1, Len(Nets)) = Nets
  BY <1>1, SubSeqFull
<1>3. FlattenSeq(Nets) \in Seq(RefPort)
  BY <1>1, FlattenType
<1> QED BY <1>1, <1>2, <1>3 DEF Before

LEMMA PartialType ==
  ASSUME NEW net \in Net, NEW b \in 0 .. Len(net.subnets)
  PROVE  Partial(net, b) \in Seq(RefPort) /\ Partial(net, 0) = <<>>
<1>1. CASE net.given
  BY <1>1 DEF Partial
<1>2. CASE ~ net.given
  <2>1. PortsOf(net) \in Seq(RefPort) /\ b \in 0 .. Len(PortsOf(net))
    BY <1>2, PortsOfNet
  <2>2. SubSeq(PortsOf(net), 1, b) \in Seq(RefPort) /\ SubSeq(PortsOf(net), 1, 0) = <<>>
    BY <2>1, PrefixType, NoPrefix
  <2> QED BY <1>2, <2>2 DEF Partial
<1> QED BY <1>1, <1>2

LEMMA ExpectedType ==
  ASSUME SpecOK, NEW a, NEW b, Position(a, b)
  PROVE  ExpectedAt(a, b) \in Seq(RefPort)
<1>1. CASE a <= NNetworks
  <2>1. a \in 1 .. NNetworks /\ ps.networks[a] \in Net /\ b \in Nat
    BY <1>1, SpecParts DEF Position
  <2>2. b \in 0 .. Len(ps.networks[a].subnets)
    BY <1>1, <2>1, TagsOfNet DEF Position
  <2>3. Before(a) \in Seq(RefPort) /\ Partial(ps.networks[a], b) \in Seq(RefPort)
    BY <2>1, <2>2, BeforeType, PartialType
  <2>4. Before(a) \o Partial(ps.networks[a], b) \in Seq(RefPort)
    BY <2>3, ConcatProperties
  <2> QED BY <1>1, <2>4 DEF ExpectedAt, Before
<1>2. CASE ~ (a <= NNetworks)
  <2>1. a - 1 - NNetworks \in 0 .. NPorts
    BY <1>2, SpecParts DEF Position
  <2>2. FlattenSeq(Nets) \in Seq(RefPort) /\ SubSeq(PortRefs, 1, a - 1 - NNetworks) \in Seq(RefPort)
    BY <2>1, BeforeAll, ReferenceParts, PrefixType
  <2>3. FlattenSeq(Nets) \o SubSeq(PortRefs, 1, a - 1 - NNetworks) \in Seq(RefPort)
    BY <2>2, ConcatProperties
  <2> QED BY <1>2, <2>3 DEF ExpectedAt
<1> QED BY <1>1, <1>2

(* After the last network come the ports of the spec. *)
LEMMA ExpectedNetworks ==
  ASSUME SpecOK, NEW a \in 1 .. NNetworks + 1
  PROVE  ExpectedAt(a, 0) = Before(a)
<1>1. CASE a <= NNetworks
  <2>1. a \in 1 .. NNetworks /\ ps.networks[a] \in Net
    BY <1>1, SpecParts
  <2>2. 0 \in 0 .. Len(ps.networks[a].subnets)
    BY <2>1, TagsOfNet
  <2>3. Partial(ps.networks[a], 0) = <<>> /\ Before(a) \in Seq(RefPort)
    BY <2>1, <2>2, BeforeType, PartialType
  <2>4. Before(a) \o <<>> = Before(a)
    BY <2>3, ConcatEmptySeq
  <2> QED BY <1>1, <2>3, <2>4 DEF ExpectedAt, Before
<1>2. CASE ~ (a <= NNetworks)
  <2>1. a = NNetworks + 1 /\ a - 1 - NNetworks = 0
    BY <1>2, SpecParts
  <2>2. SubSeq(PortRefs, 1, 0) = <<>>
    BY ReferenceParts, NoPrefix
  <2>3. FlattenSeq(Nets) \in Seq(RefPort) /\ FlattenSeq(Nets) = Before(a)
    BY <2>1, BeforeAll
  <2>4. FlattenSeq(Nets) \o <<>> = FlattenSeq(Nets)
    BY <2>3, ConcatEmptySeq
  <2> QED BY <1>2, <2>1, <2>2, <2>3, <2>4 DEF ExpectedAt
<1> QED BY <1>1, <1>2

LEMMA ExpectedStart == ASSUME SpecOK PROVE ExpectedAt(1, 0) = <<>>
<1>1. 1 \in 1 .. NNetworks + 1
  BY SpecParts
<1>2. SubSeq(Nets, 1, 0) = <<>>
  BY ReferenceParts, NoPrefix
<1>3. FlattenSeq(<<>>) = <<>>
  BY FlattenType, ReferenceParts
<1>4. Before(1) = <<>>
  <2>1. Before(1) = FlattenSeq(SubSeq(Nets, 1, 1 - 1)) /\ 1 - 1 = 0
    BY DEF Before
  <2> QED BY <1>2, <1>3, <2>1
<1> QED BY <1>1, <1>4, ExpectedNetworks

(* An iteration of the loop over subnets. *)
LEMMA ExpectedSubnet ==
  ASSUME SpecOK, NEW a \in 1 .. NNetworks, NEW b \in Nat, b < Len(ps.networks[a].subnets)
  PROVE  /\ ps.networks[a].given => ExpectedAt(a, b + 1) = ExpectedAt(a, b)
         /\ ~ ps.networks[a].given =>
              ExpectedAt(a, b + 1) = Append(ExpectedAt(a, b), PortsOf(ps.networks[a])[b + 1])
<1> DEFINE net == ps.networks[a]
           ports == PortsOf(net)
<1>1. net \in Net /\ a <= NNetworks
  BY SpecParts
<1>2. \A c : ExpectedAt(a, c) = Before(a) \o Partial(net, c)
  BY <1>1 DEF ExpectedAt, Before
<1>3. CASE net.given
  BY <1>2, <1>3 DEF Partial
<1>4. CASE ~ net.given
  <2>1. ports \in Seq(RefPort) /\ Len(ports) = Len(net.subnets)
    BY <1>1, <1>4, PortsOfNet
  <2>2. b < Len(ports) /\ b + 1 \in 1 .. Len(ports) /\ b \in 0 .. Len(ports)
    BY <2>1
  <2>3. \A c : Partial(net, c) = SubSeq(ports, 1, c)
    BY <1>4 DEF Partial
  <2> HIDE DEF ports
  <2>4. SubSeq(ports, 1, b + 1) = Append(SubSeq(ports, 1, b), ports[b + 1])
    BY <2>1, <2>2, PrefixNext
  <2>5. Before(a) \in Seq(RefPort) /\ SubSeq(ports, 1, b) \in Seq(RefPort) /\ ports[b + 1] \in RefPort
    BY <2>1, <2>2, BeforeType, PrefixType, ElementOfSeq
  <2>6. Before(a) \o Append(SubSeq(ports, 1, b), ports[b + 1])
          = Append(Before(a) \o SubSeq(ports, 1, b), ports[b + 1])
    BY <2>5, ConcatAppend
  <2>7. ExpectedAt(a, b + 1) = Append(ExpectedAt(a, b), ports[b + 1])
    BY <1>2, <2>3, <2>4, <2>6
  <2> QED BY <1>4, <2>7 DEF ports
<1> QED BY <1>3, <1>4

(* The end of a network. *)
LEMMA ExpectedNetwork ==
  ASSUME SpecOK, NEW a \in 1 .. NNetworks
  PROVE  LET net == ps.networks[a] IN
         /\ net.given => ExpectedAt(a + 1, 0) = Append(ExpectedAt(a, Len(net.subnets)), PortsOf(net)[1])
         /\ ~ net.given => ExpectedAt(a + 1, 0) = ExpectedAt(a, Len(net.subnets))
<1> DEFINE net == ps.networks[a]
           ports == PortsOf(net)
           L == Len(net.subnets)
<1>1. net \in Net /\ a <= NNetworks /\ a + 1 \in 1 .. NNetworks + 1
  BY SpecParts
<1>2. ExpectedAt(a, L) = Before(a) \o Partial(net, L)
  BY <1>1 DEF ExpectedAt, Before
<1>3. Before(a) \in Seq(RefPort) /\ ExpectedAt(a + 1, 0) = Before(a) \o ports
  BY <1>1, BeforeType, ExpectedNetworks
<1>4. CASE net.given
  <2>1. ports \in Seq(RefPort) /\ Len(ports) = 1
    BY <1>1, <1>4, PortsOfNet
  <2> HIDE DEF ports
  <2>2. Partial(net, L) = <<>>
    BY <1>4 DEF Partial
  <2>3. ExpectedAt(a, L) = Before(a)
    BY <1>2, <1>3, <2>2, ConcatEmptySeq
  <2>4. ports[1] \in RefPort /\ ports = <<ports[1]>>
    <3>1. ports[1] \in RefPort
      <4>1. 1 \in 1 .. Len(ports)
        BY <2>1
      <4> QED BY <2>1, <4>1, ElementOfSeq
    <3>2. <<ports[1]>> \in Seq(RefPort) /\ Len(<<ports[1]>>) = 1 /\ <<ports[1]>>[1] = ports[1]
      BY <3>1
    <3> QED BY <2>1, <3>1, <3>2, SeqEqual
  <2>5. Append(Before(a), ports[1]) = Before(a) \o <<ports[1]>>
    BY <1>3, <2>4, AppendIsConcat
  <2>6. ExpectedAt(a + 1, 0) = Append(ExpectedAt(a, L), ports[1])
    BY <1>3, <2>3, <2>4, <2>5
  <2> QED BY <1>4, <2>6 DEF ports
<1>5. CASE ~ net.given
  <2>1. ports \in Seq(RefPort) /\ Len(ports) = L
    BY <1>1, <1>5, PortsOfNet
  <2>2. Partial(net, L) = SubSeq(ports, 1, L)
    BY <1>5 DEF Partial
  <2> HIDE DEF ports
  <2>3. SubSeq(ports, 1, L) = ports
    BY <2>1, SubSeqFull
  <2> QED BY <1>2, <1>3, <1>5, <2>2, <2>3
<1> QED BY <1>4, <1>5

(* A port of the spec. *)
LEMMA ExpectedPort ==
  ASSUME SpecOK, NEW a \in NNetworks + 1 .. NNetworks + NPorts, NEW b
  PROVE  ExpectedAt(a + 1, b) = Append(ExpectedAt(a, b), PortRefs[a - NNetworks])
<1> DEFINE c == a - 1 - NNetworks
           all == FlattenSeq(Nets)
<1>1. /\ c \in Nat /\ c < NPorts /\ c \in 0 .. NPorts /\ c + 1 \in 1 .. NPorts /\ c + 1 = a - NNetworks
      /\ (a + 1) - 1 - NNetworks = c + 1 /\ ~ (a <= NNetworks) /\ ~ (a + 1 <= NNetworks)
  BY SpecParts
<1>2. ExpectedAt(a, b) = all \o SubSeq(PortRefs, 1, c) /\ ExpectedAt(a + 1, b) = all \o SubSeq(PortRefs, 1, c + 1)
  BY <1>1 DEF ExpectedAt
<1> HIDE DEF c, all
<1>3. PortRefs \in Seq(RefPort) /\ Len(PortRefs) = NPorts /\ all \in Seq(RefPort)
  BY ReferenceParts, BeforeAll DEF all
<1>4. SubSeq(PortRefs, 1, c + 1) = Append(SubSeq(PortRefs, 1, c), PortRefs[c + 1])
  BY <1>1, <1>3, PrefixNext
<1>5. SubSeq(PortRefs, 1, c) \in Seq(RefPort) /\ PortRefs[c + 1] \in RefPort
  BY <1>1, <1>3, PrefixType, ElementOfSeq
<1>6. all \o Append(SubSeq(PortRefs, 1, c), PortRefs[c + 1]) = Append(all \o SubSeq(PortRefs, 1, c), PortRefs[c + 1])
  <2> DEFINE sub == SubSeq(PortRefs, 1, c)
             x == PortRefs[c + 1]
  <2>1. sub \in Seq(RefPort) /\ x \in RefPort
    BY <1>5
  <2> HIDE DEF sub, x
  <2>2. all \o Append(sub, x) = Append(all \o sub, x)
    BY <1>3, <2>1, ConcatAppend
  <2> QED BY <2>2 DEF sub, x
<1> QED BY <1>1, <1>2, <1>4, <1>6

LEMMA ExpectedDone ==
  ASSUME SpecOK, NEW b
  PROVE  ExpectedAt(NNetworks + NPorts + 1, b) = Reference
<1> DEFINE a == NNetworks + NPorts + 1
<1>1. ~ (a <= NNetworks) /\ a - 1 - NNetworks = NPorts
  BY SpecParts
<1>2. PortRefs \in Seq(RefPort) /\ Len(PortRefs) = NPorts
  BY ReferenceParts
<1>3. SubSeq(PortRefs, 1, Len(PortRefs)) = PortRefs
  BY <1>2, SubSeqFull
<1>4. ExpectedAt(a, b) = FlattenSeq(Nets) \o SubSeq(PortRefs, 1, NPorts)
  BY <1>1 DEF ExpectedAt
<1> QED BY <1>2, <1>3, <1>4, ReferenceParts

-----------------------------------------------------------------------------
(***************************************************************************)
(* The inductive invariant.                                                *)
(***************************************************************************)
(* What slice s shows of the arrays h: Contents(s) is View(heap, s). *)
View(h, s) == SubSeq(h[s.array], 1, s.len)

InHeap(h, s) == s.array \in 1 .. Len(h) /\ s.len <= Len(h[s.array])

ConvType ==
  /\ SpecOK /\ heap \in Seq(Seq(Tag)) /\ capoPorts \in Seq(Port)
  /\ Position(n, i) /\ tags \in SliceType

(* The ports so far are on the subnets that the reference definition says. *)
SameSubnets(ports, refs) ==
  Len(ports) = Len(refs) /\ \A k \in 1 .. Len(ports) : ports[k].subnets = refs[k].subnets

ShapeInv == SameSubnets(capoPorts, ExpectedAt(n, i))

(* Arrays of networks and ports still to come are as decoded. *)
AheadInv ==
  /\ Len(heap) >= NNetworks + NPorts
  /\ \A k \in 1 .. NNetworks : k > n => heap[k] = Decoded(NetTags(ps.networks[k]))
  /\ \A k \in 1 .. NPorts : heap[NNetworks + k] = Decoded(ps.ports[k])

(* The local tags: the network's own array, whose spare part may have been
   written, or, when the network is given, all tags so far. *)
LocalInv ==
  n <= NNetworks =>
    LET net == ps.networks[n] IN
    /\ InHeap(heap, tags) /\ (tags.array = n \/ tags.array > NNetworks + NPorts)
    /\ net.given => View(heap, tags) = NetTags(net) \o FlattenSeq(SubSeq(net.subnets, 1, i))
    /\ ~ net.given => /\ tags = Slice(n, net.count) /\ Len(heap[n]) = Capacity[net.count]
                      /\ View(heap, tags) = NetTags(net)

(* Slices of ports point into the heap, never into an array still to come.  A
   port shares the array of the current network only if it has the network's
   tags alone, or if append has put a subnet's tags in place. *)
Apart(s) ==
  LET net == ps.networks[n] IN
  /\ s.array <= n \/ s.array > NNetworks + NPorts
  /\ net.given => s.array # tags.array
  /\ ~ net.given /\ s.array = n => s.len = net.count \/ \E j \in 1 .. i : InPlace(net, j)

PortOK(s) == InHeap(heap, s) /\ (n <= NNetworks => Apart(s))

PortsInv == \A k \in 1 .. Len(capoPorts) : PortOK(capoPorts[k].tags)

(* No network has two subnets whose tags are put into the same place. *)
AllUnshared == \A k \in 1 .. NNetworks : Unshared(ps.networks[k])

SameTags(h, ports, refs) == \A k \in 1 .. Len(ports) : View(h, ports[k].tags) = refs[k].tags

TagsInv == AllUnshared => SameTags(heap, capoPorts, ExpectedAt(n, i))

ConvInv == ConvType /\ ShapeInv /\ AheadInv /\ LocalInv /\ PortsInv /\ TagsInv

-----------------------------------------------------------------------------
(***************************************************************************)
(* Slices and append.                                                      *)
(***************************************************************************)
LEMMA SamePrefix ==
  ASSUME NEW S, NEW s \in Seq(S), NEW t \in Seq(S), NEW k \in Nat, k <= Len(s), k <= Len(t),
         \A p \in 1 .. k : s[p] = t[p]
  PROVE  SubSeq(s, 1, k) = SubSeq(t, 1, k)
<1> DEFINE u == SubSeq(s, 1, k)
           v == SubSeq(t, 1, k)
<1>1. k \in 0 .. Len(s) /\ k \in 0 .. Len(t)
  OBVIOUS
<1>2. u \in Seq(S) /\ Len(u) = k /\ \A p \in 1 .. k : u[p] = s[p]
  BY <1>1, PrefixType
<1>3. v \in Seq(S) /\ Len(v) = k /\ \A p \in 1 .. k : v[p] = t[p]
  BY <1>1, PrefixType
<1> HIDE DEF u, v
<1>4. Len(u) = Len(v) /\ \A p \in 1 .. Len(u) : u[p] = v[p]
  BY <1>2, <1>3
<1>5. u = v
  BY <1>2, <1>3, <1>4, SeqEqual
<1> QED BY <1>5 DEF u, v

LEMMA JoinedPrefix ==
  ASSUME NEW S, NEW s \in Seq(S), NEW t \in Seq(S)
  PROVE  SubSeq(s \o t, 1, Len(s)) = s
<1> DEFINE j == s \o t
<1>1. j \in Seq(S) /\ Len(j) = Len(s) + Len(t) /\ \A p \in 1 .. Len(s) : j[p] = s[p]
  BY ConcatProperties
<1> HIDE DEF j
<1>2. Len(s) \in Nat /\ Len(s) <= Len(j)
  BY <1>1, LenProperties
<1>3. SubSeq(j, 1, Len(s)) = SubSeq(s, 1, Len(s))
  BY <1>1, <1>2, SamePrefix
<1> QED BY <1>3, SubSeqFull DEF j

LEMMA SpareArray ==
  ASSUME NEW list \in Seq(Tag), NEW cap \in Nat, Len(list) <= cap
  PROVE  /\ WithSpare(list, cap) \in Seq(Tag) /\ Len(WithSpare(list, cap)) = cap
         /\ SubSeq(WithSpare(list, cap), 1, Len(list)) = list
<1> DEFINE c == cap - Len(list)
           rest == [k \in 1 .. c |-> "spare"]
<1>1. c \in Nat /\ Len(list) \in Nat /\ Len(list) + c = cap
  BY LenProperties
<1>2. rest \in [1 .. c -> Tag]
  BY DEF Tag
<1>3. WithSpare(list, cap) = list \o rest
  BY DEF WithSpare
<1> HIDE DEF c, rest
<1>4. rest \in Seq(Tag) /\ Len(rest) = c
  BY <1>1, <1>2, FunctionSeq
<1>5. list \o rest \in Seq(Tag) /\ Len(list \o rest) = Len(list) + Len(rest)
  BY <1>4, ConcatProperties
<1>6. SubSeq(list \o rest, 1, Len(list)) = list
  BY <1>4, JoinedPrefix
<1> QED BY <1>1, <1>3, <1>4, <1>5, <1>6

LEMMA DecodedArray ==
  ASSUME NEW list \in Seq(Tag)
  PROVE  /\ Decoded(list) \in Seq(Tag) /\ Len(Decoded(list)) = Capacity[Len(list)]
         /\ Len(list) <= Len(Decoded(list)) /\ SubSeq(Decoded(list), 1, Len(list)) = list
<1>1. Len(list) \in Nat
  OBVIOUS
<1>2. Capacity[Len(list)] \in Nat /\ Len(list) <= Capacity[Len(list)]
  BY <1>1, CapacityFits
<1>3. Decoded(list) = WithSpare(list, Capacity[Len(list)])
  BY DEF Decoded
<1> QED BY <1>2, <1>3, SpareArray

LEMMA MaxOfTwo ==
  ASSUME NEW a \in Nat, NEW b \in Nat
  PROVE  Max({a, b}) \in Nat /\ a <= Max({a, b})
<1> DEFINE P(x) == x \in {a, b} /\ \A y \in {a, b} : x >= y
<1>1. \E x : P(x)
  <2>1. CASE a >= b
    <3>1. P(a)
      BY <2>1
    <3> QED BY <3>1
  <2>2. CASE ~ (a >= b)
    <3>1. P(b)
      BY <2>2
    <3> QED BY <3>1
  <2> QED BY <2>1, <2>2
<1>2. Max({a, b}) = CHOOSE x : P(x)
  BY DEF Max
<1>3. P(Max({a, b}))
  <2> HIDE DEF P
  <2> QED BY <1>1, <1>2
<1> QED BY <1>3

(* append leaves an array with what the slice showed and the new elements after it. *)
AppendOK(s, more, h, r) ==
  /\ h \in Seq(Seq(Tag)) /\ Len(h) >= Len(heap)
  /\ r \in SliceType /\ InHeap(h, r)
  /\ View(h, r) = View(heap, s) \o more
  /\ \A a \in 1 .. Len(heap) : Len(h[a]) = Len(heap[a]) /\ (a # s.array => h[a] = heap[a])
  /\ \A p \in 1 .. s.len : h[s.array][p] = heap[s.array][p]
  /\ Len(more) = 0 => \A a \in 1 .. Len(heap) : h[a] = heap[a]
  /\ IF HasRoom(s, more)
     THEN r = Slice(s.array, s.len + Len(more))
     ELSE r.array = Len(heap) + 1 /\ \A a \in 1 .. Len(heap) : h[a] = heap[a]

LEMMA AppendInPlace ==
  ASSUME heap \in Seq(Seq(Tag)), NEW s \in SliceType, InHeap(heap, s), NEW more \in Seq(Tag),
         HasRoom(s, more)
  PROVE  AppendOK(s, more, AppendHeap(s, more), AppendTo(s, more))
<1> DEFINE a == s.array
           l == s.len
           old == heap[a]
           m == Len(more)
           new == [k \in 1 .. Len(old) |-> IF k - l \in 1 .. m THEN more[k - l] ELSE old[k]]
           h == [heap EXCEPT ![a] = new]
           r == Slice(a, l + m)
<1>1. h = AppendHeap(s, more) /\ r = AppendTo(s, more)
  BY DEF AppendHeap, AppendTo
<1>2. a \in 1 .. Len(heap) /\ l \in Nat /\ m \in Nat /\ old \in Seq(Tag)
  BY ElementOfSeq DEF InHeap, SliceType
<1>3. Len(old) \in Nat /\ l + m <= Len(old) /\ l <= Len(old)
  BY <1>2 DEF HasRoom
<1>4. \A p \in 1 .. Len(old) : old[p] \in Tag
  BY <1>2, ElementOfSeq
<1>5. \A p \in 1 .. m : more[p] \in Tag
  BY ElementOfSeq
<1>6. new \in [1 .. Len(old) -> Tag]
  <2> SUFFICES ASSUME NEW k \in 1 .. Len(old)
               PROVE  (IF k - l \in 1 .. m THEN more[k - l] ELSE old[k]) \in Tag
    OBVIOUS
  <2> HIDE DEF m, old
  <2> QED BY <1>4, <1>5
<1>7. new \in Seq(Tag) /\ Len(new) = Len(old)
  <2> HIDE DEF new, old
  <2> QED BY <1>3, <1>6, FunctionSeq
<1>8. \A p \in 1 .. Len(old) : new[p] = IF p - l \in 1 .. m THEN more[p - l] ELSE old[p]
  OBVIOUS
<1> HIDE DEF new
<1>9. h \in Seq(Seq(Tag)) /\ Len(h) = Len(heap)
  <2>1. h \in [1 .. Len(heap) -> Seq(Tag)] /\ Len(heap) \in Nat
    <3>1. heap \in [1 .. Len(heap) -> Seq(Tag)] /\ Len(heap) \in Nat
      BY LenProperties
    <3> HIDE DEF a
    <3> QED BY <1>2, <1>7, <3>1
  <2> HIDE DEF h
  <2> QED BY <2>1, FunctionSeq
<1>10. h[a] = new /\ \A b \in 1 .. Len(heap) : b # a => h[b] = heap[b]
  BY <1>2
<1> HIDE DEF h
<1>11. \A b \in 1 .. Len(heap) : Len(h[b]) = Len(heap[b]) /\ (b # a => h[b] = heap[b])
  <2> TAKE b \in 1 .. Len(heap)
  <2>1. CASE b = a
    BY <1>7, <1>10, <2>1
  <2>2. CASE b # a
    BY <1>10, <2>2
  <2> QED BY <2>1, <2>2
<1>12. \A p \in 1 .. l : h[a][p] = old[p]
  <2> TAKE p \in 1 .. l
  <2>1. p \in 1 .. Len(old) /\ ~ (p - l \in 1 .. m)
    BY <1>2, <1>3
  <2> HIDE DEF old, a, l, m
  <2> QED BY <1>8, <1>10, <2>1
<1>13. ASSUME m = 0 PROVE \A b \in 1 .. Len(heap) : h[b] = heap[b]
  <2>1. \A p \in 1 .. Len(old) : new[p] = old[p]
    <3> HIDE DEF old
    <3> QED BY <1>2, <1>3, <1>8, <1>13
  <2>2. new = old
    <3> HIDE DEF old
    <3> QED BY <1>2, <1>7, <2>1, SeqEqual
  <2> QED BY <1>10, <2>2
<1>14. View(h, r) = View(heap, s) \o more
  <2> DEFINE u == SubSeq(new, 1, l + m)
             v == SubSeq(old, 1, l)
             w == v \o more
  <2>1. View(h, r) = u /\ View(heap, s) = v
    BY <1>10 DEF View, Slice
  <2>2. l + m \in 0 .. Len(new) /\ l \in 0 .. Len(old)
    BY <1>2, <1>3, <1>7
  <2> HIDE DEF old, l, m
  <2>3. u \in Seq(Tag) /\ Len(u) = l + m /\ \A p \in 1 .. l + m : u[p] = new[p]
    BY <1>7, <2>2, PrefixType
  <2>4. v \in Seq(Tag) /\ Len(v) = l /\ \A p \in 1 .. l : v[p] = old[p]
    BY <1>2, <2>2, PrefixType
  <2> HIDE DEF v
  <2>5. /\ w \in Seq(Tag) /\ Len(w) = l + m
        /\ \A p \in 1 .. Len(v) : w[p] = v[p]
        /\ \A p \in Len(v) + 1 .. Len(v) + Len(more) : w[p] = more[p - Len(v)]
    <3>1. v \in Seq(Tag) /\ more \in Seq(Tag)
      BY <2>4
    <3>2. /\ w \in Seq(Tag) /\ Len(w) = Len(v) + Len(more)
          /\ \A p \in 1 .. Len(v) : w[p] = v[p]
          /\ \A p \in Len(v) + 1 .. Len(v) + Len(more) : w[p] = more[p - Len(v)]
      BY <3>1, ConcatProperties
    <3> HIDE DEF w
    <3> QED BY <2>4, <3>2 DEF m
  <2> HIDE DEF u, w
  <2>6. ASSUME NEW p \in 1 .. l + m PROVE u[p] = w[p]
    <3>1. u[p] = new[p] /\ p \in 1 .. Len(old) /\ p \in Nat
      BY <1>2, <1>3, <2>3
    <3>2. CASE p <= l
      <4>1. p \in 1 .. l /\ ~ (p - l \in 1 .. m)
        BY <1>2, <3>1, <3>2
      <4>2. w[p] = old[p]
        BY <2>4, <2>5, <4>1
      <4> QED BY <1>8, <3>1, <4>1, <4>2
    <3>3. CASE ~ (p <= l)
      <4>1. p - l \in 1 .. m /\ p \in l + 1 .. l + m
        BY <1>2, <3>1, <3>3
      <4>2. w[p] = more[p - l]
        BY <2>4, <2>5, <4>1 DEF m
      <4> QED BY <1>8, <3>1, <4>1, <4>2
    <3> QED BY <3>2, <3>3
  <2>7. u = w
    <3>1. Len(u) = Len(w) /\ \A p \in 1 .. Len(u) : u[p] = w[p]
      BY <2>3, <2>5, <2>6
    <3> QED BY <2>3, <2>5, <3>1, SeqEqual
  <2> QED BY <2>1, <2>7 DEF w
<1>15. r \in SliceType /\ InHeap(h, r)
  <2>1. r.array = a /\ r.len = l + m /\ r = [array |-> a, len |-> l + m]
    BY DEF Slice
  <2>2. a \in Nat /\ l + m \in Nat
    BY <1>2
  <2> HIDE DEF r, a, l, m
  <2>3. r \in SliceType
    BY <2>1, <2>2 DEF SliceType
  <2> HIDE DEF old
  <2> QED BY <1>2, <1>3, <1>7, <1>9, <1>10, <2>1, <2>3 DEF InHeap
<1>16. Len(h) >= Len(heap)
  BY <1>9, LenProperties
<1>17. AppendOK(s, more, h, r)
  BY <1>9, <1>11, <1>12, <1>13, <1>14, <1>15, <1>16 DEF AppendOK
<1> QED BY <1>1, <1>17

LEMMA AppendMoves ==
  ASSUME heap \in Seq(Seq(Tag)), NEW s \in SliceType, InHeap(heap, s), NEW more \in Seq(Tag),
         ~ HasRoom(s, more)
  PROVE  AppendOK(s, more, AppendHeap(s, more), AppendTo(s, more))
<1> DEFINE a == s.array
           l == s.len
           old == heap[a]
           m == Len(more)
           list == View(heap, s) \o more
           cap == Max({l + m, 2 * Len(old)})
           new == WithSpare(list, cap)
           h == Append(heap, new)
           r == Slice(Len(heap) + 1, l + m)
<1>1. h = AppendHeap(s, more) /\ r = AppendTo(s, more)
  BY DEF AppendHeap, AppendTo, Contents, View
<1>2. a \in 1 .. Len(heap) /\ l \in Nat /\ m \in Nat /\ old \in Seq(Tag) /\ l <= Len(old) /\ Len(heap) \in Nat
  BY ElementOfSeq DEF InHeap, SliceType
<1>3. Len(old) \in Nat /\ ~ (l + m <= Len(old))
  BY <1>2 DEF HasRoom
<1>4. View(heap, s) \in Seq(Tag) /\ Len(View(heap, s)) = l
  <2>1. l \in 0 .. Len(old) /\ View(heap, s) = SubSeq(old, 1, l)
    BY <1>2, <1>3 DEF View
  <2> HIDE DEF old, l
  <2> QED BY <1>2, <2>1, PrefixType
<1>5. list \in Seq(Tag) /\ Len(list) = l + m
  BY <1>4, ConcatProperties
<1>6. cap \in Nat /\ l + m <= cap
  <2>1. l + m \in Nat /\ 2 * Len(old) \in Nat
    BY <1>2, <1>3
  <2> HIDE DEF l, m, old
  <2> QED BY <2>1, MaxOfTwo
<1> HIDE DEF cap, list
<1>7. new \in Seq(Tag) /\ Len(new) = cap /\ SubSeq(new, 1, Len(list)) = list
  BY <1>5, <1>6, SpareArray
<1> HIDE DEF new
<1>8. /\ h \in Seq(Seq(Tag)) /\ Len(h) = Len(heap) + 1
      /\ \A b \in 1 .. Len(heap) : h[b] = heap[b]
      /\ h[Len(heap) + 1] = new
  BY <1>7, AppendProperties
<1> HIDE DEF h
<1>9. r.array = Len(heap) + 1 /\ r.len = l + m
  BY DEF Slice
<1>10. r \in SliceType
  <2>1. Len(heap) + 1 \in Nat /\ l + m \in Nat
    BY <1>2
  <2> HIDE DEF l, m
  <2> QED BY <2>1 DEF SliceType, Slice
<1>11. View(h, r) = list
  BY <1>5, <1>7, <1>8, <1>9 DEF View
<1>12. InHeap(h, r)
  <2>1. Len(heap) + 1 \in 1 .. Len(h) /\ Len(h[r.array]) = cap
    <3> HIDE DEF r, l, m
    <3>1. Len(heap) \in Nat /\ Len(h) = Len(heap) + 1
      BY <1>2, <1>8
    <3> QED BY <1>7, <1>8, <1>9, <3>1
  <2> HIDE DEF l, m
  <2> QED BY <1>6, <1>9, <2>1 DEF InHeap
<1>13. \A p \in 1 .. s.len : h[s.array][p] = heap[s.array][p]
  BY <1>2, <1>8
<1>14. Len(h) >= Len(heap)
  BY <1>2, <1>8
<1> HIDE DEF r
<1>15. AppendOK(s, more, h, r)
  BY <1>8, <1>9, <1>10, <1>11, <1>12, <1>13, <1>14 DEF AppendOK, list
<1> QED BY <1>1, <1>15

LEMMA AppendWorks ==
  ASSUME heap \in Seq(Seq(Tag)), NEW s \in SliceType, InHeap(heap, s), NEW more \in Seq(Tag)
  PROVE  AppendOK(s, more, AppendHeap(s, more), AppendTo(s, more))
BY AppendInPlace, AppendMoves

(* Another slice shows what it showed unless append has written into its array
   where the slice goes further than s. *)
LEMMA SliceKept ==
  ASSUME heap \in Seq(Seq(Tag)), NEW s \in SliceType, InHeap(heap, s), NEW more \in Seq(Tag),
         NEW h, NEW r, AppendOK(s, more, h, r), NEW t \in SliceType, InHeap(heap, t),
         t.array # s.array \/ t.len <= s.len \/ ~ HasRoom(s, more) \/ Len(more) = 0
  PROVE  View(h, t) = View(heap, t)
<1>1. t.array \in 1 .. Len(heap) /\ t.len \in Nat /\ t.len <= Len(heap[t.array])
  BY DEF InHeap, SliceType
<1>2. CASE h[t.array] = heap[t.array]
  BY <1>2 DEF View
<1>3. CASE h[t.array] # heap[t.array]
  <2>1. t.array = s.array /\ t.len <= s.len
    BY <1>1, <1>3 DEF AppendOK
  <2>2. s.len \in Nat
    BY DEF SliceType
  <2>3. \A p \in 1 .. t.len : h[t.array][p] = heap[t.array][p]
    BY <1>1, <2>1, <2>2 DEF AppendOK
  <2>4. h[t.array] \in Seq(Tag) /\ heap[t.array] \in Seq(Tag) /\ Len(h[t.array]) = Len(heap[t.array])
    <3>1. h \in Seq(Seq(Tag)) /\ Len(h) >= Len(heap) /\ Len(h[t.array]) = Len(heap[t.array])
      BY <1>1 DEF AppendOK
    <3>2. t.array \in 1 .. Len(h)
      BY <1>1, <3>1, LenProperties
    <3> QED BY <1>1, <3>1, <3>2, ElementOfSeq
  <2>5. SubSeq(h[t.array], 1, t.len) = SubSeq(heap[t.array], 1, t.len)
    BY <1>1, <2>3, <2>4, SamePrefix
  <2> QED BY <2>5 DEF View
<1> QED BY <1>2, <1>3

-----------------------------------------------------------------------------
(***************************************************************************)
(* The invariant is inductive.                                             *)
(***************************************************************************)
(* The provider spec is only read. *)
LEMMA SpecFixed ==
  ASSUME ps' = ps
  PROVE  /\ NNetworks' = NNetworks /\ NPorts' = NPorts
         /\ SpecOK => SpecOK'
         /\ AllUnshared' => AllUnshared
<1>1. NNetworks' = NNetworks /\ NPorts' = NPorts
  BY DEF NNetworks, NPorts
<1>2. SpecOK => SpecOK'
  BY DEF SpecOK
<1>3. AllUnshared' => AllUnshared
  BY <1>1 DEF AllUnshared
<1> QED BY <1>1, <1>2, <1>3

LEMMA ExpectedFixed ==
  ASSUME ps' = ps, NEW a, NEW b
  PROVE  ExpectedAt(a, b)' = ExpectedAt(a, b)
<1>1. NNetworks' = NNetworks
  BY DEF NNetworks
<1>2. Nets' = Nets
  BY <1>1 DEF Nets
<1>3. PortRefs' = PortRefs
  BY DEF PortRefs
<1> QED BY <1>1, <1>2, <1>3 DEF ExpectedAt

LEMMA PositionFixed ==
  ASSUME ps' = ps, NEW a, NEW b
  PROVE  Position(a, b) => Position(a, b)'
BY SpecFixed DEF Position

LEMMA OnePort ==
  ASSUME NEW ports \in Seq(Port), NEW refs \in Seq(RefPort), SameSubnets(ports, refs),
         NEW port \in Port, NEW ref \in RefPort, port.subnets = ref.subnets
  PROVE  /\ Append(ports, port) \in Seq(Port)
         /\ SameSubnets(Append(ports, port), Append(refs, ref))
<1> DEFINE p == Append(ports, port)
           q == Append(refs, ref)
           L == Len(ports)
<1>1. /\ p \in Seq(Port) /\ Len(p) = L + 1 /\ p[L + 1] = port
      /\ \A k \in 1 .. L : p[k] = ports[k]
  BY AppendProperties
<1>2. L = Len(refs) /\ L \in Nat
  BY LenProperties DEF SameSubnets
<1>3. Len(q) = L + 1 /\ q[L + 1] = ref /\ \A k \in 1 .. L : q[k] = refs[k]
  BY <1>2, AppendProperties
<1>4. \A k \in 1 .. L : ports[k].subnets = refs[k].subnets
  BY DEF SameSubnets
<1> HIDE DEF p, q, L
<1>5. ASSUME NEW k \in 1 .. L + 1 PROVE p[k].subnets = q[k].subnets
  <2>1. k \in 1 .. L \/ k = L + 1
    BY <1>2
  <2> QED BY <1>1, <1>3, <1>4, <2>1
<1>6. SameSubnets(p, q)
  BY <1>1, <1>3, <1>5 DEF SameSubnets
<1> QED BY <1>1, <1>6 DEF p, q

LEMMA OnePortTags ==
  ASSUME NEW h, NEW ports \in Seq(Port), NEW refs \in Seq(RefPort), Len(ports) = Len(refs),
         SameTags(h, ports, refs),
         NEW port \in Port, NEW ref \in RefPort, View(h, port.tags) = ref.tags
  PROVE  SameTags(h, Append(ports, port), Append(refs, ref))
<1> DEFINE p == Append(ports, port)
           q == Append(refs, ref)
           L == Len(ports)
<1>1. Len(p) = L + 1 /\ p[L + 1] = port /\ \A k \in 1 .. L : p[k] = ports[k]
  BY AppendProperties
<1>2. L = Len(refs) /\ L \in Nat
  BY LenProperties
<1>3. q[L + 1] = ref /\ \A k \in 1 .. L : q[k] = refs[k]
  BY <1>2, AppendProperties
<1>4. \A k \in 1 .. L : View(h, ports[k].tags) = refs[k].tags
  BY DEF SameTags
<1> HIDE DEF p, q, L
<1>5. ASSUME NEW k \in 1 .. L + 1 PROVE View(h, p[k].tags) = q[k].tags
  <2>1. k \in 1 .. L \/ k = L + 1
    BY <1>2
  <2> QED BY <1>1, <1>3, <1>4, <2>1
<1>6. SameTags(h, p, q)
  BY <1>1, <1>5 DEF SameTags
<1> QED BY <1>6 DEF p, q

LEMMA TagsAssociative ==
  ASSUME NEW a \in Seq(Tag), NEW b \in Seq(Tag), NEW c \in Seq(Tag)
  PROVE  (a \o b) \o c = a \o (b \o c)
<1> PICK S : S = Tag
  OBVIOUS
<1>1. a \in Seq(S) /\ b \in Seq(S) /\ c \in Seq(S)
  OBVIOUS
<1> QED BY ONLY <1>1, ConcatAssociative

(* A slice stays inside its array: append makes no array shorter. *)
LEMMA StaysInHeap ==
  ASSUME heap \in Seq(Seq(Tag)), NEW s, NEW more, NEW h, NEW r, AppendOK(s, more, h, r),
         NEW t, InHeap(heap, t)
  PROVE  InHeap(h, t)
<1>1. h \in Seq(Seq(Tag)) /\ Len(h) >= Len(heap) /\ Len(h) \in Nat /\ Len(heap) \in Nat
  BY LenProperties DEF AppendOK
<1>2. t.array \in 1 .. Len(heap) /\ t.len <= Len(heap[t.array])
  BY DEF InHeap
<1>3. Len(h[t.array]) = Len(heap[t.array])
  BY <1>2 DEF AppendOK
<1>4. t.array \in 1 .. Len(h)
  BY <1>1, <1>2
<1> QED BY <1>2, <1>3, <1>4 DEF InHeap

-----------------------------------------------------------------------------
LEMMA NetworksAreNets == Networks \subseteq Net
<1> SUFFICES ASSUME NEW net \in Networks PROVE net \in Net
  OBVIOUS
<1>1. net.given \in BOOLEAN /\ net.count \in Nat /\ net.subnets \in BoundedSeq(TagLists, MaxSubnets)
  BY DEF Networks
<1>2. net.subnets \in Seq(TagLists)
  BY <1>1, Bounded
<1>3. TagLists \subseteq Seq(Names)
  <2> SUFFICES ASSUME NEW s \in TagLists PROVE s \in Seq(Names)
    OBVIOUS
  <2> QED BY Bounded DEF TagLists
<1>4. net.subnets \in Seq(Seq(Names))
  BY <1>2, <1>3, SeqMonotonic
<1>5. net = [given |-> net.given, count |-> net.count, subnets |-> net.subnets]
  BY DEF Networks
<1> QED BY <1>1, <1>4, <1>5 DEF Net

LEMMA StartSpec == ASSUME Init PROVE SpecOK
<1>1. ps \in [networks : BoundedSeq(Networks, MaxNetworks), ports : BoundedSeq(TagLists, MaxPorts)]
  BY DEF Init
<1>2. ps.networks \in Seq(Networks) /\ ps.ports \in Seq(TagLists)
  BY <1>1, Bounded
<1>3. TagLists \subseteq Seq(Names)
  <2> SUFFICES ASSUME NEW s \in TagLists PROVE s \in Seq(Names)
    OBVIOUS
  <2> QED BY Bounded DEF TagLists
<1>4. ps.networks \in Seq(Net) /\ ps.ports \in Seq(Seq(Names))
  BY <1>2, <1>3, NetworksAreNets, SeqMonotonic
<1>5. ps = [networks |-> ps.networks, ports |-> ps.ports]
  BY <1>1
<1> QED BY <1>4, <1>5 DEF SpecOK

LEMMA StartHeap ==
  ASSUME Init, SpecOK
  PROVE  /\ heap \in Seq(Seq(Tag)) /\ Len(heap) = NNetworks + NPorts
         /\ \A k \in 1 .. NNetworks : heap[k] = Decoded(NetTags(ps.networks[k]))
         /\ \A k \in 1 .. NPorts : heap[NNetworks + k] = Decoded(ps.ports[k])
<1> DEFINE NN == NNetworks
           NP == NPorts
           f == [k \in 1 .. NN |-> Decoded(NetTags(ps.networks[k]))]
           g == [k \in 1 .. NP |-> Decoded(ps.ports[k])]
<1>1. NN \in Nat /\ NP \in Nat /\ DOMAIN ps.ports = 1 .. NP
  BY SpecParts
<1>2. heap = f \o g
  BY <1>1 DEF Init
<1>3. ASSUME NEW k \in 1 .. NN PROVE Decoded(NetTags(ps.networks[k])) \in Seq(Tag)
  BY SpecParts, TagsOfNet, DecodedArray
<1>4. ASSUME NEW k \in 1 .. NP PROVE Decoded(ps.ports[k]) \in Seq(Tag)
  <2>1. ps.ports[k] \in Seq(Names)
    BY SpecParts
  <2>2. ps.ports[k] \in Seq(Tag)
    BY <2>1, SeqMonotonic DEF Tag
  <2> QED BY <2>2, DecodedArray
<1>5. f \in [1 .. NN -> Seq(Tag)] /\ g \in [1 .. NP -> Seq(Tag)]
  BY <1>3, <1>4
<1>6. /\ \A k \in 1 .. NN : f[k] = Decoded(NetTags(ps.networks[k]))
      /\ \A k \in 1 .. NP : g[k] = Decoded(ps.ports[k])
  OBVIOUS
<1> HIDE DEF NN, NP, f, g
<1>7. f \in Seq(Seq(Tag)) /\ Len(f) = NN /\ g \in Seq(Seq(Tag)) /\ Len(g) = NP
  BY <1>1, <1>5, FunctionSeq
<1>8. /\ f \o g \in Seq(Seq(Tag)) /\ Len(f \o g) = Len(f) + Len(g)
      /\ \A k \in 1 .. Len(f) : (f \o g)[k] = f[k]
      /\ \A k \in Len(f) + 1 .. Len(f) + Len(g) : (f \o g)[k] = g[k - Len(f)]
  <2> DEFINE SS == Seq(Tag)
  <2>1. f \in Seq(SS) /\ g \in Seq(SS)
    BY <1>7
  <2> HIDE DEF SS
  <2>2. /\ f \o g \in Seq(SS) /\ Len(f \o g) = Len(f) + Len(g)
        /\ \A k \in 1 .. Len(f) : (f \o g)[k] = f[k]
        /\ \A k \in Len(f) + 1 .. Len(f) + Len(g) : (f \o g)[k] = g[k - Len(f)]
    BY <2>1, ConcatProperties
  <2> QED BY <2>2 DEF SS
<1>9. /\ heap \in Seq(Seq(Tag)) /\ Len(heap) = NN + NP
      /\ \A k \in 1 .. NN : heap[k] = f[k]
      /\ \A k \in NN + 1 .. NN + NP : heap[k] = g[k - NN]
  BY <1>2, <1>7, <1>8
<1>10. ASSUME NEW k \in 1 .. NP PROVE heap[NN + k] = g[k]
  <2>1. NN + k \in NN + 1 .. NN + NP /\ (NN + k) - NN = k
    BY <1>1
  <2> QED BY <1>9, <2>1
<1>11. \A k \in 1 .. NN : heap[k] = Decoded(NetTags(ps.networks[k]))
  BY <1>6, <1>9
<1>12. \A k \in 1 .. NP : heap[NN + k] = Decoded(ps.ports[k])
  BY <1>6, <1>10
<1> QED BY <1>9, <1>11, <1>12 DEF NN, NP

(* A network whose array is as decoded: the slice that the loop starts with. *)
LEMMA FreshSlice ==
  ASSUME NEW net \in Net, NEW a \in Nat, NEW h, a \in 1 .. Len(h), h[a] = Decoded(NetTags(net))
  PROVE  /\ Slice(a, net.count) \in SliceType /\ InHeap(h, Slice(a, net.count))
         /\ View(h, Slice(a, net.count)) = NetTags(net)
         /\ Len(h[a]) = Capacity[net.count]
         /\ NetTags(net) = NetTags(net) \o FlattenSeq(SubSeq(net.subnets, 1, 0))
<1> DEFINE list == NetTags(net)
           s == Slice(a, net.count)
<1>1. list \in Seq(Tag) /\ Len(list) = net.count /\ net.count \in Nat
  BY TagsOfNet
<1>2. s = [array |-> a, len |-> net.count] /\ s.array = a /\ s.len = net.count
  BY DEF Slice
<1> HIDE DEF list, s
<1>3. s \in SliceType
  BY <1>1, <1>2 DEF SliceType
<1>4. h[a] = Decoded(list)
  BY DEF list
<1>5. Len(h[a]) = Capacity[net.count] /\ net.count <= Len(h[a]) /\ SubSeq(h[a], 1, net.count) = list
  BY <1>1, <1>4, DecodedArray
<1>6. InHeap(h, s) /\ View(h, s) = list
  BY <1>2, <1>5 DEF InHeap, View
<1>7. list = list \o FlattenSeq(SubSeq(net.subnets, 1, 0))
  <2>1. net.subnets \in Seq(Seq(Tag))
    BY TagsOfNet
  <2>2. SubSeq(net.subnets, 1, 0) = <<>>
    <3> DEFINE SS == Seq(Tag)
    <3>1. net.subnets \in Seq(SS)
      BY <2>1
    <3> HIDE DEF SS
    <3> QED BY <3>1, NoPrefix
  <2>3. FlattenSeq(<<>>) = <<>>
    BY <2>1, FlattenType
  <2>4. list \o <<>> = list
    BY <1>1, ConcatEmptySeq
  <2> QED BY <2>2, <2>3, <2>4
<1> QED BY <1>3, <1>5, <1>6, <1>7 DEF list, s

LEMMA Start == Init => ConvInv
<1> SUFFICES ASSUME Init PROVE ConvInv
  OBVIOUS
<1>1. SpecOK
  BY StartSpec
<1>2. /\ heap \in Seq(Seq(Tag)) /\ Len(heap) = NNetworks + NPorts
      /\ \A k \in 1 .. NNetworks : heap[k] = Decoded(NetTags(ps.networks[k]))
      /\ \A k \in 1 .. NPorts : heap[NNetworks + k] = Decoded(ps.ports[k])
  BY <1>1, StartHeap
<1>3. NNetworks \in Nat /\ NPorts \in Nat
  BY <1>1, SpecParts
<1>4. /\ capoPorts = <<>> /\ n = 1 /\ i = 0
      /\ tags = IF NNetworks = 0 THEN Slice(1, 0) ELSE Slice(1, ps.networks[1].count)
  BY DEF Init
<1>5. ASSUME 1 <= NNetworks
      PROVE  ps.networks[1] \in Net /\ 1 \in 1 .. NNetworks /\ tags = Slice(1, ps.networks[1].count)
  BY <1>1, <1>3, <1>4, <1>5, SpecParts
<1>6. ASSUME 1 <= NNetworks
      PROVE  /\ tags \in SliceType /\ InHeap(heap, tags) /\ View(heap, tags) = NetTags(ps.networks[1])
             /\ Len(heap[1]) = Capacity[ps.networks[1].count]
             /\ NetTags(ps.networks[1])
                  = NetTags(ps.networks[1]) \o FlattenSeq(SubSeq(ps.networks[1].subnets, 1, 0))
  <2> DEFINE net == ps.networks[1]
  <2>1. net \in Net /\ tags = Slice(1, net.count) /\ 1 \in 1 .. NNetworks
    BY <1>5, <1>6
  <2>2. 1 \in 1 .. Len(heap) /\ heap[1] = Decoded(NetTags(net)) /\ 1 \in Nat
    BY <1>2, <1>3, <2>1
  <2> HIDE DEF net
  <2>3. /\ tags \in SliceType /\ InHeap(heap, tags) /\ View(heap, tags) = NetTags(net)
        /\ Len(heap[1]) = Capacity[net.count]
        /\ NetTags(net) = NetTags(net) \o FlattenSeq(SubSeq(net.subnets, 1, 0))
    BY <2>1, <2>2, FreshSlice
  <2> QED BY <2>3 DEF net
<1>7. Position(n, i)
  <2>1. n \in 1 .. NNetworks + NPorts + 1 /\ i \in Nat
    BY <1>3, <1>4
  <2>2. ASSUME n <= NNetworks PROVE i <= Len(ps.networks[n].subnets)
    <3>1. ps.networks[1] \in Net
      BY <1>4, <1>5, <2>2
    <3>2. Len(ps.networks[1].subnets) \in Nat
      BY <3>1, TagsOfNet
    <3> QED BY <1>4, <3>2
  <2> QED BY <2>1, <2>2 DEF Position
<1>8. ConvType
  <2>1. tags \in SliceType
    <3>1. CASE NNetworks = 0
      BY <1>4, <3>1 DEF Slice, SliceType
    <3>2. CASE NNetworks # 0
      BY <1>3, <1>6, <3>2
    <3> QED BY <3>1, <3>2
  <2>2. capoPorts \in Seq(Port)
    BY <1>4
  <2> QED BY <1>1, <1>2, <1>7, <2>1, <2>2 DEF ConvType
<1>9. ExpectedAt(n, i) = <<>> /\ Len(capoPorts) = 0 /\ 1 .. Len(capoPorts) = {}
  BY <1>1, <1>4, ExpectedStart
<1>10. ShapeInv
  BY <1>4, <1>9 DEF ShapeInv, SameSubnets
<1>11. AheadInv
  BY <1>2, <1>3 DEF AheadInv
<1>12. LocalInv
  <2> SUFFICES ASSUME n <= NNetworks
               PROVE  LET net == ps.networks[n] IN
                      /\ InHeap(heap, tags) /\ (tags.array = n \/ tags.array > NNetworks + NPorts)
                      /\ net.given => View(heap, tags) = NetTags(net) \o FlattenSeq(SubSeq(net.subnets, 1, i))
                      /\ ~ net.given => /\ tags = Slice(n, net.count) /\ Len(heap[n]) = Capacity[net.count]
                                        /\ View(heap, tags) = NetTags(net)
    BY DEF LocalInv
  <2>1. 1 <= NNetworks
    BY <1>4
  <2>2. tags = Slice(1, ps.networks[1].count) /\ tags.array = 1
    BY <1>5, <2>1 DEF Slice
  <2> QED BY <1>4, <1>6, <2>1, <2>2
<1>13. PortsInv /\ TagsInv
  BY <1>9 DEF PortsInv, TagsInv, SameTags
<1> QED BY <1>8, <1>10, <1>11, <1>12, <1>13 DEF ConvInv

-----------------------------------------------------------------------------
(* The loop over subnets: what append does to the local tags. *)
LEMMA SubnetFacts ==
  ASSUME ConvInv, NextSubnet
  PROVE  /\ n \in 1 .. NNetworks /\ n <= NNetworks /\ ps.networks[n] \in Net
         /\ i \in Nat /\ i < Len(ps.networks[n].subnets) /\ i + 1 \in 1 .. Len(ps.networks[n].subnets)
         /\ ps.networks[n].subnets[i + 1] \in Seq(Tag)
         /\ heap' = AppendHeap(tags, ps.networks[n].subnets[i + 1])
         /\ ps' = ps /\ n' = n /\ i' = i + 1
         /\ InHeap(heap, tags)
         /\ AppendOK(tags, ps.networks[n].subnets[i + 1], heap',
                     AppendTo(tags, ps.networks[n].subnets[i + 1]))
<1> DEFINE net == ps.networks[n]
           more == net.subnets[i + 1]
<1>1. SpecOK /\ heap \in Seq(Seq(Tag)) /\ tags \in SliceType /\ Position(n, i)
  BY DEF ConvInv, ConvType
<1>2. n <= NNetworks /\ i < Len(net.subnets) /\ ps' = ps /\ n' = n /\ i' = i + 1
  BY DEF NextSubnet
<1>3. n \in 1 .. NNetworks /\ i \in Nat
  BY <1>1, <1>2, SpecParts DEF Position
<1>4. net \in Net
  BY <1>1, <1>3, SpecParts
<1>5. i + 1 \in 1 .. Len(net.subnets)
  BY <1>2, <1>3, <1>4, TagsOfNet
<1>6. more \in Seq(Tag)
  BY <1>4, <1>5, TagsOfNet
<1>7. heap' = AppendHeap(tags, more)
  BY DEF NextSubnet, SubnetOfPort, SubnetPort
<1>8. InHeap(heap, tags)
  BY <1>2 DEF ConvInv, LocalInv
<1>9. AppendOK(tags, more, AppendHeap(tags, more), AppendTo(tags, more))
  BY <1>1, <1>6, <1>8, AppendWorks
<1> QED BY <1>2, <1>3, <1>4, <1>5, <1>6, <1>7, <1>8, <1>9

LEMMA SubnetKeeps ==
  ASSUME ConvInv, NextSubnet
  PROVE  SpecOK' /\ heap' \in Seq(Seq(Tag)) /\ Position(n, i)' /\ AheadInv'
<1> DEFINE net == ps.networks[n]
           more == net.subnets[i + 1]
           r == AppendTo(tags, more)
<1>1. /\ n \in 1 .. NNetworks /\ net \in Net /\ i \in Nat /\ i + 1 \in 1 .. Len(net.subnets)
      /\ ps' = ps /\ n' = n /\ i' = i + 1 /\ AppendOK(tags, more, heap', r)
  BY SubnetFacts
<1> HIDE DEF more, r
<1>2. SpecOK /\ heap \in Seq(Seq(Tag)) /\ Position(n, i) /\ AheadInv /\ NNetworks \in Nat /\ NPorts \in Nat
  BY SpecParts DEF ConvInv, ConvType
<1>3. tags.array = n \/ tags.array > NNetworks + NPorts
  BY <1>1 DEF ConvInv, LocalInv
<1>4. NNetworks' = NNetworks /\ NPorts' = NPorts /\ SpecOK'
  BY <1>1, <1>2, SpecFixed
<1>5. heap' \in Seq(Seq(Tag)) /\ Len(heap') >= Len(heap) /\ Len(heap') \in Nat /\ Len(heap) \in Nat
  BY <1>1, <1>2, LenProperties DEF AppendOK
<1>6. Position(n, i + 1)
  <2>1. i + 1 <= Len(net.subnets) /\ Len(net.subnets) \in Nat
    BY <1>1, TagsOfNet
  <2> QED BY <1>1, <1>2, <2>1 DEF Position
<1>7. Position(n, i)'
  BY <1>1, <1>6, PositionFixed
<1>8. ASSUME NEW a \in 1 .. NNetworks + NPorts, a # n PROVE heap'[a] = heap[a]
  <2>1. a \in 1 .. Len(heap)
    BY <1>2, <1>5 DEF AheadInv
  <2>2. a # tags.array
    BY <1>2, <1>3, <1>8
  <2> QED BY <1>1, <2>1, <2>2 DEF AppendOK
<1>9. ASSUME NEW k \in 1 .. NNetworks, k > n PROVE heap'[k] = Decoded(NetTags(ps.networks[k]))
  <2>1. k \in 1 .. NNetworks + NPorts /\ k # n
    BY <1>1, <1>2, <1>9
  <2>2. heap[k] = Decoded(NetTags(ps.networks[k]))
    BY <1>2, <1>9 DEF AheadInv
  <2> QED BY <1>8, <2>1, <2>2
<1>10. ASSUME NEW k \in 1 .. NPorts PROVE heap'[NNetworks + k] = Decoded(ps.ports[k])
  <2>1. NNetworks + k \in 1 .. NNetworks + NPorts /\ NNetworks + k # n
    BY <1>1, <1>2
  <2>2. heap[NNetworks + k] = Decoded(ps.ports[k])
    BY <1>2 DEF AheadInv
  <2> QED BY <1>8, <2>1, <2>2
<1>11. Len(heap') >= NNetworks + NPorts
  BY <1>2, <1>5 DEF AheadInv
<1>12. AheadInv'
  BY <1>1, <1>4, <1>9, <1>10, <1>11 DEF AheadInv
<1> QED BY <1>4, <1>5, <1>7, <1>12

(* The network is given: its local tags grow, in place or in a new array, and
   no port shares them. *)
LEMMA SubnetGiven ==
  ASSUME ConvInv, NextSubnet, ps.networks[n].given
  PROVE  ConvInv'
<1> DEFINE net == ps.networks[n]
           more == net.subnets[i + 1]
           r == AppendTo(tags, more)
<1>1. /\ n \in 1 .. NNetworks /\ n <= NNetworks /\ net \in Net
      /\ i \in Nat /\ i < Len(net.subnets) /\ i + 1 \in 1 .. Len(net.subnets)
      /\ more \in Seq(Tag) /\ ps' = ps /\ n' = n /\ i' = i + 1
      /\ InHeap(heap, tags) /\ AppendOK(tags, more, heap', r)
  BY SubnetFacts
<1>2. tags' = r /\ capoPorts' = capoPorts
  BY DEF NextSubnet, SubnetOfPort
<1>3. /\ SpecOK /\ heap \in Seq(Seq(Tag)) /\ Len(heap) \in Nat /\ capoPorts \in Seq(Port)
      /\ tags \in SliceType /\ NNetworks \in Nat /\ NPorts \in Nat
  BY SpecParts, LenProperties DEF ConvInv, ConvType
<1>4. NNetworks' = NNetworks /\ NPorts' = NPorts /\ (AllUnshared' => AllUnshared)
  BY <1>1, SpecFixed
<1>5. SpecOK' /\ heap' \in Seq(Seq(Tag)) /\ Position(n, i)' /\ AheadInv'
  BY SubnetKeeps
<1>6. ExpectedAt(n, i)' = ExpectedAt(n, i)
  <2>1. ExpectedAt(n, i + 1) = ExpectedAt(n, i)
    BY <1>1, <1>3, ExpectedSubnet
  <2>2. ExpectedAt(n, i)' = ExpectedAt(n, i + 1)
    BY <1>1, ExpectedFixed
  <2> QED BY <2>1, <2>2
<1>7. ConvType'
  <2>1. r \in SliceType
    BY <1>1 DEF AppendOK
  <2> HIDE DEF r
  <2> QED BY <1>2, <1>3, <1>5, <2>1 DEF ConvType
<1>8. ShapeInv'
  BY <1>2, <1>6 DEF ConvInv, ShapeInv
<1>9. r.array = tags.array \/ r.array = Len(heap) + 1
  <2> HIDE DEF more, r
  <2>1. HasRoom(tags, more) => r = Slice(tags.array, tags.len + Len(more))
    BY <1>1 DEF AppendOK
  <2>2. ~ HasRoom(tags, more) => r.array = Len(heap) + 1
    BY <1>1 DEF AppendOK
  <2> QED BY <2>1, <2>2 DEF Slice
<1>10. LocalInv'
  <2>1. InHeap(heap', r) /\ View(heap', r) = View(heap, tags) \o more
    BY <1>1 DEF AppendOK
  <2>2. r.array = n \/ r.array > NNetworks + NPorts
    <3> HIDE DEF r
    <3>1. tags.array = n \/ tags.array > NNetworks + NPorts
      BY <1>1 DEF ConvInv, LocalInv
    <3>2. Len(heap) >= NNetworks + NPorts
      BY DEF ConvInv, AheadInv
    <3> QED BY <1>3, <1>9, <3>1, <3>2
  <2>3. View(heap', r) = NetTags(net) \o FlattenSeq(SubSeq(net.subnets, 1, i + 1))
    <3> DEFINE a == NetTags(net)
               b == FlattenSeq(SubSeq(net.subnets, 1, i))
    <3>1. View(heap, tags) = a \o b
      BY <1>1 DEF ConvInv, LocalInv
    <3>2. net.subnets \in Seq(Seq(Tag)) /\ (i + 1) - 1 = i
      <4>1. net.subnets \in Seq(Seq(Tag))
        BY <1>1, TagsOfNet
      <4>2. (i + 1) - 1 = i
        BY <1>1
      <4> QED BY <4>1, <4>2
    <3>3. b \in Seq(Tag) /\ FlattenSeq(SubSeq(net.subnets, 1, i + 1)) = b \o more
      BY <1>1, <3>2, FlattenNext
    <3>4. a \in Seq(Tag)
      BY <1>1, TagsOfNet
    <3>5. b \in Seq(Tag) /\ more \in Seq(Tag)
      BY <1>1, <3>3
    <3> HIDE DEF a, b, more, r
    <3>6. (a \o b) \o more = a \o (b \o more)
      BY <3>4, <3>5, TagsAssociative
    <3> QED BY <2>1, <3>1, <3>3, <3>6 DEF a
  <2> HIDE DEF r, more
  <2> QED BY <1>1, <1>2, <1>4, <2>1, <2>2, <2>3 DEF LocalInv
<1>11. ASSUME NEW k \in 1 .. Len(capoPorts)
       PROVE  /\ capoPorts[k].tags \in SliceType /\ InHeap(heap, capoPorts[k].tags)
              /\ Apart(capoPorts[k].tags)
  <2>1. capoPorts[k] \in Port
    BY <1>3, ElementOfSeq
  <2>2. PortOK(capoPorts[k].tags)
    BY DEF ConvInv, PortsInv
  <2> QED BY <1>1, <2>1, <2>2 DEF Port, PortOK
<1>12. PortsInv'
  <2>1. ASSUME NEW k \in 1 .. Len(capoPorts) PROVE PortOK(capoPorts[k].tags)'
    <3> DEFINE s == capoPorts[k].tags
    <3>1. InHeap(heap', s)
      BY <1>1, <1>3, <1>11, StaysInHeap
    <3>2. s.array # r.array
      <4>1. s.array # tags.array /\ s.array \in 1 .. Len(heap)
        BY <1>11 DEF Apart, InHeap
      <4> HIDE DEF s, r
      <4> QED BY <1>3, <1>9, <4>1
    <3>3. s.array <= n \/ s.array > NNetworks + NPorts
      BY <1>11 DEF Apart
    <3>4. Apart(s)'
      <4> HIDE DEF r, more
      <4> QED BY <1>1, <1>2, <1>4, <3>2, <3>3 DEF Apart
    <3> QED BY <1>2, <3>1, <3>4 DEF PortOK
  <2> QED BY <1>2, <2>1 DEF PortsInv
<1>13. TagsInv'
  <2> SUFFICES ASSUME AllUnshared PROVE SameTags(heap', capoPorts, ExpectedAt(n, i))
    BY <1>2, <1>4, <1>6 DEF TagsInv
  <2>1. SameTags(heap, capoPorts, ExpectedAt(n, i))
    BY DEF ConvInv, TagsInv
  <2>2. ASSUME NEW k \in 1 .. Len(capoPorts)
        PROVE  View(heap', capoPorts[k].tags) = View(heap, capoPorts[k].tags)
    <3>1. capoPorts[k].tags.array # tags.array
      BY <1>11 DEF Apart
    <3> HIDE DEF more, r
    <3> QED BY <1>1, <1>3, <1>11, <3>1, SliceKept
  <2> QED BY <2>1, <2>2 DEF SameTags
<1> QED BY <1>5, <1>7, <1>8, <1>10, <1>12, <1>13 DEF ConvInv

(* The network is known by its subnets alone: every port gets its own view, and
   only tags put in place can have been written over. *)
LEMMA SubnetEach ==
  ASSUME ConvInv, NextSubnet, ~ ps.networks[n].given
  PROVE  ConvInv'
<1> DEFINE net == ps.networks[n]
           more == net.subnets[i + 1]
           r == AppendTo(tags, more)
           port == [subnets |-> <<i + 1>>, tags |-> r]
           ref == PortsOf(net)[i + 1]
           E == ExpectedAt(n, i)
<1>1. /\ n \in 1 .. NNetworks /\ n <= NNetworks /\ net \in Net
      /\ i \in Nat /\ i < Len(net.subnets) /\ i + 1 \in 1 .. Len(net.subnets)
      /\ more \in Seq(Tag) /\ ps' = ps /\ n' = n /\ i' = i + 1
      /\ InHeap(heap, tags) /\ AppendOK(tags, more, heap', r)
  BY SubnetFacts
<1>2. tags' = tags /\ capoPorts' = Append(capoPorts, port)
  BY DEF NextSubnet, SubnetPort
<1>3. /\ SpecOK /\ heap \in Seq(Seq(Tag)) /\ Len(heap) \in Nat /\ capoPorts \in Seq(Port)
      /\ Len(capoPorts) \in Nat
      /\ tags \in SliceType /\ NNetworks \in Nat /\ NPorts \in Nat /\ Position(n, i)
  BY SpecParts, LenProperties DEF ConvInv, ConvType
<1>4. NNetworks' = NNetworks /\ NPorts' = NPorts /\ (AllUnshared' => AllUnshared)
  BY <1>1, SpecFixed
<1>5. SpecOK' /\ heap' \in Seq(Seq(Tag)) /\ Position(n, i)' /\ AheadInv'
  BY SubnetKeeps
<1>6. ExpectedAt(n, i)' = Append(E, ref) /\ E \in Seq(RefPort)
  <2>1. ExpectedAt(n, i + 1) = Append(E, ref)
    BY <1>1, <1>3, ExpectedSubnet
  <2>2. ExpectedAt(n, i)' = ExpectedAt(n, i + 1)
    BY <1>1, ExpectedFixed
  <2> QED BY <1>3, <2>1, <2>2, ExpectedType
<1>7. ref \in RefPort /\ ref.subnets = <<i + 1>> /\ ref.tags = NetTags(net) \o more
  <2>1. /\ PortsOf(net) \in Seq(RefPort) /\ Len(PortsOf(net)) = Len(net.subnets)
        /\ ref = [subnets |-> <<i + 1>>, tags |-> NetTags(net) \o more]
    BY <1>1, PortsOfNet
  <2>2. ref \in RefPort
    BY <1>1, <2>1, ElementOfSeq
  <2> DEFINE list == NetTags(net) \o more
  <2>3. ref = [subnets |-> <<i + 1>>, tags |-> list]
    BY <2>1
  <2> HIDE DEF ref, list
  <2>4. ref.subnets = <<i + 1>> /\ ref.tags = list
    BY <2>3
  <2> QED BY <2>2, <2>4 DEF list
<1>8. tags = Slice(n, net.count) /\ Len(heap[n]) = Capacity[net.count] /\ View(heap, tags) = NetTags(net)
  BY <1>1 DEF ConvInv, LocalInv
<1>9. tags.array = n /\ tags.len = net.count /\ net.count \in Nat
  BY <1>1, <1>8, TagsOfNet DEF Slice
<1>10. r \in SliceType /\ InHeap(heap', r) /\ View(heap', r) = NetTags(net) \o more
  BY <1>1, <1>8 DEF AppendOK
<1>11. HasRoom(tags, more) => r.array = n /\ r.len = net.count + Len(more)
  BY <1>1, <1>9 DEF AppendOK, Slice
<1>12. ~ HasRoom(tags, more) => r.array = Len(heap) + 1
  BY <1>1 DEF AppendOK
<1>13. HasRoom(tags, more) => Len(more) = 0 \/ InPlace(net, i + 1)
  <2>1. Len(more) \in Nat /\ Capacity[net.count] \in Nat
    <3>1. Len(more) \in Nat
      BY <1>1, LenProperties
    <3>2. Capacity[net.count] \in Nat
      BY <1>9, CapacityFits
    <3> QED BY <3>1, <3>2
  <2>2. HasRoom(tags, more) => net.count + Len(more) <= Capacity[net.count]
    BY <1>8, <1>9 DEF HasRoom
  <2>3. HasRoom(tags, more) => Len(more) = 0 \/ Len(more) \in 1 .. Capacity[net.count] - net.count
    <3> DEFINE c == net.count
               m == Len(more)
               C == Capacity[net.count]
    <3>1. c \in Nat /\ m \in Nat /\ C \in Nat /\ (HasRoom(tags, more) => c + m <= C)
      BY <1>9, <2>1, <2>2
    <3> HIDE DEF c, m, C, more
    <3>2. HasRoom(tags, more) => m = 0 \/ m \in 1 .. C - c
      BY <3>1
    <3> QED BY <3>2 DEF c, m, C
  <2> QED BY <2>3 DEF InPlace
<1>14. port \in Port /\ port.subnets = <<i + 1>> /\ port.tags = r
  <2>1. <<i + 1>> \in Seq(Nat)
    BY <1>1
  <2> HIDE DEF r
  <2> QED BY <1>10, <2>1 DEF Port
<1> HIDE DEF more, r, port, ref, E
<1>15. Append(capoPorts, port) \in Seq(Port) /\ SameSubnets(Append(capoPorts, port), Append(E, ref))
  <2>1. SameSubnets(capoPorts, E)
    BY DEF ConvInv, ShapeInv, E
  <2> QED BY <1>3, <1>6, <1>7, <1>14, <2>1, OnePort
<1>16. ConvType'
  BY <1>2, <1>3, <1>5, <1>15 DEF ConvType
<1>17. ShapeInv'
  BY <1>2, <1>6, <1>15 DEF ShapeInv
<1>18. LocalInv'
  <2>1. InHeap(heap', tags)
    BY <1>1, <1>3, StaysInHeap
  <2>2. View(heap', tags) = NetTags(net)
    <3>1. tags.len <= tags.len
      BY <1>9
    <3> QED BY <1>1, <1>3, <1>8, <3>1, SliceKept
  <2>3. Len(heap'[n]) = Capacity[net.count]
    <3>1. n \in 1 .. Len(heap)
      BY <1>1, <1>9 DEF InHeap
    <3> QED BY <1>1, <1>8, <3>1 DEF AppendOK
  <2> QED BY <1>1, <1>2, <1>4, <1>8, <1>9, <2>1, <2>2, <2>3 DEF LocalInv
<1>19. ASSUME NEW k \in 1 .. Len(capoPorts)
       PROVE  /\ capoPorts[k].tags \in SliceType /\ InHeap(heap, capoPorts[k].tags)
              /\ Apart(capoPorts[k].tags)
  <2>1. capoPorts[k] \in Port
    BY <1>3, ElementOfSeq
  <2>2. PortOK(capoPorts[k].tags)
    BY DEF ConvInv, PortsInv
  <2> QED BY <1>1, <2>1, <2>2 DEF Port, PortOK
<1>20. PortsInv'
  <2>1. ASSUME NEW s \in SliceType, InHeap(heap, s), Apart(s) PROVE PortOK(s)'
    <3>1. InHeap(heap', s)
      BY <1>1, <1>3, <2>1, StaysInHeap
    <3>2. s.array <= n \/ s.array > NNetworks + NPorts
      BY <2>1 DEF Apart
    <3>3. s.array = n => s.len = net.count \/ \E j \in 1 .. i + 1 : InPlace(net, j)
      <4>1. s.array = n => s.len = net.count \/ \E j \in 1 .. i : InPlace(net, j)
        BY <2>1 DEF Apart
      <4>2. 1 .. i \subseteq 1 .. i + 1
        BY <1>1
      <4> QED BY <4>1, <4>2
    <3>4. Apart(s)'
      BY <1>1, <1>4, <3>2, <3>3 DEF Apart
    <3> QED BY <3>1, <3>4 DEF PortOK
  <2>2. ASSUME NEW s, s = r PROVE PortOK(s)'
    <3>1. CASE HasRoom(tags, more)
      <4>1. s.array = n /\ (s.len = net.count \/ InPlace(net, i + 1))
        <5>1. Len(more) = 0 => s.len = net.count
          BY <1>9, <1>11, <2>2, <3>1
        <5> QED BY <1>11, <1>13, <2>2, <3>1, <5>1
      <4>2. i + 1 \in 1 .. i + 1
        BY <1>1
      <4>3. \E j \in 1 .. i + 1 : InPlace(net, j) \/ s.len = net.count
        BY <4>1, <4>2
      <4>4. n <= n
        BY <1>1
      <4>5. Apart(s)'
        BY <1>1, <1>4, <4>1, <4>3, <4>4 DEF Apart
      <4> QED BY <1>10, <2>2, <4>5 DEF PortOK
    <3>2. CASE ~ HasRoom(tags, more)
      <4>1. s.array > NNetworks + NPorts /\ s.array # n
        <5>1. Len(heap) >= NNetworks + NPorts
          BY DEF ConvInv, AheadInv
        <5>2. s.array = Len(heap) + 1
          BY <1>12, <2>2, <3>2
        <5>3. n \in 1 .. NNetworks
          BY <1>1
        <5> QED BY <1>3, <5>1, <5>2, <5>3
      <4>2. Apart(s)'
        BY <1>1, <1>4, <4>1 DEF Apart
      <4> QED BY <1>10, <2>2, <4>2 DEF PortOK
    <3> QED BY <3>1, <3>2
  <2>3. ASSUME NEW k \in 1 .. Len(capoPorts') PROVE \E s : s = capoPorts'[k].tags /\ PortOK(s)'
    <3>1. CASE k \in 1 .. Len(capoPorts)
      <4>1. capoPorts'[k] = capoPorts[k]
        BY <1>2, <1>3, <1>14, <3>1, AppendProperties
      <4> QED BY <1>19, <2>1, <3>1, <4>1
    <3>2. CASE ~ (k \in 1 .. Len(capoPorts))
      <4>1. Len(capoPorts') = Len(capoPorts) + 1 /\ capoPorts'[Len(capoPorts) + 1] = port
        BY <1>2, <1>3, <1>14, AppendProperties
      <4>2. k = Len(capoPorts) + 1
        BY <1>3, <3>2, <4>1
      <4> QED BY <1>14, <2>2, <4>1, <4>2
    <3> QED BY <3>1, <3>2
  <2> QED BY <2>3 DEF PortsInv
<1>21. TagsInv'
  <2> SUFFICES ASSUME AllUnshared PROVE SameTags(heap', Append(capoPorts, port), Append(E, ref))
    BY <1>2, <1>4, <1>6 DEF TagsInv
  <2>1. SameTags(heap, capoPorts, E)
    BY DEF ConvInv, TagsInv, E
  <2>2. Unshared(net)
    BY <1>1 DEF AllUnshared
  <2>3. ASSUME NEW k \in 1 .. Len(capoPorts)
        PROVE  View(heap', capoPorts[k].tags) = View(heap, capoPorts[k].tags)
    <3> DEFINE s == capoPorts[k].tags
    <3>1. s \in SliceType /\ InHeap(heap, s) /\ Apart(s)
      BY <1>19
    <3>2. ASSUME s.array = n, s.len # net.count PROVE ~ HasRoom(tags, more) \/ Len(more) = 0
      <4>1. PICK j \in 1 .. i : InPlace(net, j)
        BY <3>1, <3>2 DEF Apart
      <4>2. ~ InPlace(net, i + 1)
        <5>1. j \in DOMAIN net.subnets /\ i + 1 \in DOMAIN net.subnets /\ j # i + 1
          <6>1. DOMAIN net.subnets = 1 .. Len(net.subnets) /\ Len(net.subnets) \in Nat
            BY <1>1, TagsOfNet
          <6>2. i \in Nat /\ i < Len(net.subnets)
            BY <1>1
          <6> HIDE DEF net
          <6> QED BY <6>1, <6>2
        <5> QED BY <2>2, <4>1, <5>1 DEF Unshared
      <4> QED BY <1>13, <4>2
    <3>3. s.array # tags.array \/ s.len <= tags.len \/ ~ HasRoom(tags, more) \/ Len(more) = 0
      <4>1. s.len = net.count => s.len <= tags.len
        BY <1>9
      <4> QED BY <1>9, <3>2, <4>1
    <3> HIDE DEF s
    <3>4. View(heap', s) = View(heap, s)
      BY <1>1, <1>3, <3>1, <3>3, SliceKept
    <3> QED BY <3>4 DEF s
  <2>4. SameTags(heap', capoPorts, E)
    BY <2>1, <2>3 DEF SameTags
  <2>5. View(heap', port.tags) = ref.tags
    BY <1>7, <1>10, <1>14
  <2>6. Len(capoPorts) = Len(E)
    BY DEF ConvInv, ShapeInv, SameSubnets, E
  <2> QED BY <1>3, <1>6, <1>7, <1>14, <2>4, <2>5, <2>6, OnePortTags
<1> QED BY <1>5, <1>16, <1>17, <1>18, <1>20, <1>21 DEF ConvInv

-----------------------------------------------------------------------------
(* The end of a network.  Nothing is written; the next network's array is as
   decoded and no port shares it. *)
LEMMA NetworkFacts ==
  ASSUME ConvInv, NextNetwork
  PROVE  /\ n \in 1 .. NNetworks /\ n <= NNetworks /\ ps.networks[n] \in Net
         /\ i = Len(ps.networks[n].subnets) /\ i \in Nat
         /\ ps' = ps /\ heap' = heap /\ n' = n + 1 /\ i' = 0
         /\ NNetworks' = NNetworks /\ NPorts' = NPorts /\ NNetworks \in Nat /\ NPorts \in Nat
         /\ SpecOK /\ heap \in Seq(Seq(Tag)) /\ Len(heap) \in Nat /\ Len(heap) >= NNetworks + NPorts
         /\ capoPorts \in Seq(Port) /\ Len(capoPorts) \in Nat /\ tags \in SliceType
<1>1. SpecOK /\ heap \in Seq(Seq(Tag)) /\ capoPorts \in Seq(Port) /\ tags \in SliceType /\ Position(n, i)
  BY DEF ConvInv, ConvType
<1>2. /\ n <= NNetworks /\ i = Len(ps.networks[n].subnets)
      /\ ps' = ps /\ heap' = heap /\ n' = n + 1 /\ i' = 0
  BY DEF NextNetwork
<1>3. n \in 1 .. NNetworks /\ i \in Nat /\ NNetworks \in Nat /\ NPorts \in Nat
  BY <1>1, <1>2, SpecParts DEF Position
<1>4. ps.networks[n] \in Net
  BY <1>1, <1>3, SpecParts
<1>5. NNetworks' = NNetworks /\ NPorts' = NPorts
  BY <1>2, SpecFixed
<1>6. Len(heap) \in Nat /\ Len(capoPorts) \in Nat
  BY <1>1, LenProperties
<1>7. Len(heap) >= NNetworks + NPorts
  BY DEF ConvInv, AheadInv
<1> QED BY <1>1, <1>2, <1>3, <1>4, <1>5, <1>6, <1>7

LEMMA NetworkLocal ==
  ASSUME ConvInv, NextNetwork
  PROVE  tags' \in SliceType /\ LocalInv' /\ AheadInv' /\ Position(n, i)'
<1>1. /\ n \in 1 .. NNetworks /\ ps' = ps /\ heap' = heap /\ n' = n + 1 /\ i' = 0 /\ SpecOK
      /\ NNetworks' = NNetworks /\ NPorts' = NPorts /\ NNetworks \in Nat /\ NPorts \in Nat
      /\ Len(heap) \in Nat /\ Len(heap) >= NNetworks + NPorts /\ tags \in SliceType
  BY NetworkFacts
<1> DEFINE net == ps.networks[n + 1]
<1>2. tags' = IF n + 1 <= NNetworks THEN Slice(n + 1, net.count) ELSE tags
  BY <1>1 DEF NextNetwork
<1>3. ASSUME n + 1 <= NNetworks
      PROVE  /\ net \in Net /\ tags' = Slice(n + 1, net.count)
             /\ heap[n + 1] = Decoded(NetTags(net)) /\ n + 1 \in 1 .. Len(heap) /\ n + 1 \in Nat
  <2>1. n + 1 \in 1 .. NNetworks /\ n + 1 > n
    BY <1>1, <1>3
  <2>2. net \in Net
    BY <1>1, <2>1, SpecParts
  <2>3. heap[n + 1] = Decoded(NetTags(net))
    BY <2>1 DEF ConvInv, AheadInv
  <2>4. n + 1 \in 1 .. Len(heap) /\ n + 1 \in Nat
    BY <1>1, <2>1
  <2>5. tags' = Slice(n + 1, net.count)
    BY <1>2, <1>3
  <2> QED BY <2>2, <2>3, <2>4, <2>5
<1>4. ASSUME n + 1 <= NNetworks
      PROVE  /\ tags' \in SliceType /\ InHeap(heap, tags') /\ tags'.array = n + 1
             /\ View(heap, tags') = NetTags(net)
             /\ Len(heap[n + 1]) = Capacity[net.count]
             /\ NetTags(net) = NetTags(net) \o FlattenSeq(SubSeq(net.subnets, 1, 0))
  <2>1. tags'.array = n + 1
    BY <1>3, <1>4 DEF Slice
  <2>2. /\ net \in Net /\ tags' = Slice(n + 1, net.count)
        /\ heap[n + 1] = Decoded(NetTags(net)) /\ n + 1 \in 1 .. Len(heap) /\ n + 1 \in Nat
    BY <1>3, <1>4
  <2> HIDE DEF net
  <2> QED BY <2>1, <2>2, FreshSlice
<1>5. tags' \in SliceType
  BY <1>1, <1>2, <1>4
<1>6. LocalInv'
  <2>1. ASSUME n + 1 <= NNetworks
        PROVE  /\ InHeap(heap, tags') /\ (tags'.array = n + 1 \/ tags'.array > NNetworks + NPorts)
               /\ net.given => View(heap, tags') = NetTags(net) \o FlattenSeq(SubSeq(net.subnets, 1, 0))
               /\ ~ net.given => /\ tags' = Slice(n + 1, net.count)
                                 /\ Len(heap[n + 1]) = Capacity[net.count]
                                 /\ View(heap, tags') = NetTags(net)
    BY <1>3, <1>4, <2>1
  <2> HIDE DEF net
  <2> QED BY <1>1, <2>1 DEF LocalInv, net
<1>7. AheadInv'
  <2>1. \A k \in 1 .. NNetworks : k > n + 1 => k > n
    BY <1>1
  <2>2. AheadInv
    BY DEF ConvInv
  <2> QED BY <1>1, <2>1, <2>2 DEF AheadInv
<1>8. Position(n + 1, 0)
  <2>1. n + 1 \in 1 .. NNetworks + NPorts + 1
    BY <1>1
  <2>2. ASSUME n + 1 <= NNetworks PROVE 0 <= Len(net.subnets)
    <3>1. Len(net.subnets) \in Nat
      BY <1>3, <2>2, TagsOfNet
    <3> QED BY <3>1
  <2> QED BY <2>1, <2>2 DEF Position
<1>9. Position(n, i)'
  BY <1>1, <1>8, PositionFixed
<1> QED BY <1>5, <1>6, <1>7, <1>9

(* Slices that are apart from the arrays to come stay so when the next of them
   becomes the current one. *)
LEMMA NetworkPorts ==
  ASSUME ConvInv, NextNetwork, NEW s, InHeap(heap, s), s.array <= n \/ s.array > NNetworks + NPorts,
         s \in SliceType
  PROVE  PortOK(s)'
<1>1. /\ n \in 1 .. NNetworks /\ ps' = ps /\ heap' = heap /\ n' = n + 1
      /\ NNetworks' = NNetworks /\ NPorts' = NPorts /\ NNetworks \in Nat /\ NPorts \in Nat
  BY NetworkFacts
<1>2. s.array \in Nat
  BY DEF SliceType
<1>3. ASSUME n + 1 <= NNetworks PROVE Apart(s)'
  <2>1. tags'.array = n + 1
    BY <1>1, <1>3 DEF NextNetwork, Slice
  <2>2. s.array # n + 1 /\ (s.array <= n + 1 \/ s.array > NNetworks + NPorts)
    BY <1>1, <1>2, <1>3
  <2> QED BY <1>1, <2>1, <2>2 DEF Apart
<1> QED BY <1>1, <1>3 DEF PortOK

LEMMA NetworkStep == ConvInv /\ NextNetwork => ConvInv'
<1> SUFFICES ASSUME ConvInv, NextNetwork PROVE ConvInv'
  OBVIOUS
<1> DEFINE net == ps.networks[n]
           port == [subnets |-> [k \in 1 .. i |-> k], tags |-> tags]
           ref == PortsOf(net)[1]
           E == ExpectedAt(n, i)
<1>1. /\ n \in 1 .. NNetworks /\ n <= NNetworks /\ net \in Net /\ i = Len(net.subnets) /\ i \in Nat
      /\ ps' = ps /\ heap' = heap /\ n' = n + 1 /\ i' = 0
      /\ NNetworks' = NNetworks /\ NNetworks \in Nat /\ NPorts \in Nat
      /\ SpecOK /\ heap \in Seq(Seq(Tag))
      /\ capoPorts \in Seq(Port) /\ Len(capoPorts) \in Nat /\ tags \in SliceType
  BY NetworkFacts
<1>2. tags' \in SliceType /\ LocalInv' /\ AheadInv' /\ Position(n, i)'
  BY NetworkLocal
<1>3. SpecOK' /\ (AllUnshared' => AllUnshared)
  BY <1>1, SpecFixed
<1>4. ExpectedAt(n, i)' = ExpectedAt(n + 1, 0)
  BY <1>1, ExpectedFixed
<1>5. E \in Seq(RefPort) /\ SameSubnets(capoPorts, E) /\ (AllUnshared => SameTags(heap, capoPorts, E))
  <2>1. Position(n, i)
    BY DEF ConvInv, ConvType
  <2>2. E \in Seq(RefPort)
    BY <1>1, <2>1, ExpectedType
  <2> QED BY <2>2 DEF ConvInv, ShapeInv, TagsInv
<1>6. ASSUME NEW k \in 1 .. Len(capoPorts) PROVE PortOK(capoPorts[k].tags) /\ capoPorts[k].tags \in SliceType
  <2>1. capoPorts[k] \in Port
    BY <1>1, ElementOfSeq
  <2> QED BY <2>1 DEF ConvInv, PortsInv, Port
<1>7. \A k \in 1 .. Len(capoPorts) : \E s : s = capoPorts[k].tags /\ PortOK(s)'
  <2> TAKE k \in 1 .. Len(capoPorts)
  <2>1. \E s \in SliceType : s = capoPorts[k].tags /\ PortOK(s)
    BY <1>6
  <2>2. PICK s \in SliceType : s = capoPorts[k].tags /\ PortOK(s)
    BY <2>1
  <2>3. InHeap(heap, s) /\ (s.array <= n \/ s.array > NNetworks + NPorts)
    BY <1>1, <2>2 DEF PortOK, Apart
  <2> QED BY <2>2, <2>3, NetworkPorts
<1>8. CASE net.given
  <2>1. capoPorts' = Append(capoPorts, port)
    BY <1>8 DEF NextNetwork, NetworkPort
  <2>2. ExpectedAt(n, i)' = Append(E, ref)
    BY <1>1, <1>4, <1>8, ExpectedNetwork
  <2>3. /\ ref \in RefPort /\ ref.subnets = [k \in 1 .. i |-> k]
        /\ ref.tags = NetTags(net) \o FlattenSeq(net.subnets)
    <3> DEFINE list == NetTags(net) \o FlattenSeq(net.subnets)
               subs == [k \in 1 .. i |-> k]
    <3>1. /\ PortsOf(net) \in Seq(RefPort) /\ Len(PortsOf(net)) = 1
          /\ ref = [subnets |-> subs, tags |-> list]
      BY <1>1, <1>8, PortsOfNet
    <3>2. ref \in RefPort
      <4>1. 1 \in 1 .. Len(PortsOf(net))
        BY <3>1
      <4> QED BY <3>1, <4>1, ElementOfSeq
    <3> HIDE DEF list, ref, subs
    <3>3. ref.subnets = subs /\ ref.tags = list
      BY <3>1
    <3> QED BY <3>2, <3>3 DEF list, subs
  <2>4. port \in Port /\ port.subnets = [k \in 1 .. i |-> k] /\ port.tags = tags
    <3> DEFINE subs == [k \in 1 .. i |-> k]
    <3>1. subs \in [1 .. i -> Nat]
      BY <1>1
    <3> HIDE DEF subs
    <3>2. subs \in Seq(Nat)
      BY <1>1, <3>1, FunctionSeq
    <3>3. [subnets |-> subs, tags |-> tags] \in Port
      BY <1>1, <3>2 DEF Port
    <3> QED BY <3>3 DEF subs
  <2>5. View(heap, tags) = ref.tags
    <3>1. View(heap, tags) = NetTags(net) \o FlattenSeq(SubSeq(net.subnets, 1, i))
      BY <1>1, <1>8 DEF ConvInv, LocalInv
    <3>2. SubSeq(net.subnets, 1, i) = net.subnets
      <4>1. net.subnets \in Seq(Seq(Names))
        BY <1>1, TagsOfNet
      <4> QED BY <1>1, <4>1, SubSeqFull
    <3> QED BY <2>3, <3>1, <3>2
  <2> HIDE DEF port, ref, E
  <2>6. Append(capoPorts, port) \in Seq(Port) /\ SameSubnets(Append(capoPorts, port), Append(E, ref))
    BY <1>1, <1>5, <2>3, <2>4, OnePort
  <2>7. ConvType' /\ ShapeInv'
    BY <1>1, <1>2, <1>3, <2>1, <2>2, <2>6 DEF ConvType, ShapeInv
  <2>8. PortsInv'
    <3>1. \E s : s = tags /\ PortOK(s)'
      <4>1. PICK s \in SliceType : s = tags
        BY <1>1
      <4>2. n <= n
        BY <1>1
      <4>3. InHeap(heap, s) /\ (s.array <= n \/ s.array > NNetworks + NPorts)
        BY <1>1, <4>1, <4>2 DEF ConvInv, LocalInv
      <4> QED BY <4>1, <4>3, NetworkPorts
    <3>2. ASSUME NEW k \in 1 .. Len(capoPorts') PROVE \E s : s = capoPorts'[k].tags /\ PortOK(s)'
      <4>1. CASE k \in 1 .. Len(capoPorts)
        <5>1. capoPorts'[k] = capoPorts[k]
          BY <1>1, <2>1, <2>4, <4>1, AppendProperties
        <5> QED BY <1>7, <4>1, <5>1
      <4>2. CASE ~ (k \in 1 .. Len(capoPorts))
        <5>1. Len(capoPorts') = Len(capoPorts) + 1 /\ capoPorts'[Len(capoPorts) + 1] = port
          BY <1>1, <2>1, <2>4, AppendProperties
        <5>2. k = Len(capoPorts) + 1
          BY <1>1, <4>2, <5>1
        <5> QED BY <2>4, <3>1, <5>1, <5>2
      <4> QED BY <4>1, <4>2
    <3> QED BY <3>2 DEF PortsInv
  <2>9. TagsInv'
    <3> SUFFICES ASSUME AllUnshared PROVE SameTags(heap, Append(capoPorts, port), Append(E, ref))
      BY <1>1, <1>3, <2>1, <2>2 DEF TagsInv
    <3>1. Len(capoPorts) = Len(E)
      BY <1>5 DEF SameSubnets
    <3>2. View(heap, port.tags) = ref.tags
      BY <2>4, <2>5
    <3> QED BY <1>1, <1>5, <2>3, <2>4, <3>1, <3>2, OnePortTags
  <2> QED BY <1>2, <2>7, <2>8, <2>9 DEF ConvInv
<1>9. CASE ~ net.given
  <2>1. capoPorts' = capoPorts
    BY <1>9 DEF NextNetwork, NetworkPort
  <2>2. ExpectedAt(n, i)' = E
    BY <1>1, <1>4, <1>9, ExpectedNetwork
  <2>3. ConvType' /\ ShapeInv'
    <3> HIDE DEF E
    <3> QED BY <1>1, <1>2, <1>3, <1>5, <2>1, <2>2 DEF ConvType, ShapeInv
  <2>4. PortsInv'
    BY <1>7, <2>1 DEF PortsInv
  <2>5. TagsInv'
    <3> HIDE DEF E
    <3> QED BY <1>1, <1>3, <1>5, <2>1, <2>2 DEF TagsInv
  <2> QED BY <1>2, <2>3, <2>4, <2>5 DEF ConvInv
<1> QED BY <1>8, <1>9

(* A port of the spec: its slice is the one that was decoded, and no append has
   written into that array. *)
LEMMA PortStep == ConvInv /\ NextPort => ConvInv'
<1> SUFFICES ASSUME ConvInv, NextPort PROVE ConvInv'
  OBVIOUS
<1> DEFINE c == n - NNetworks
           list == ps.ports[c]
           s == Slice(n, Len(list))
           port == [subnets |-> <<>>, tags |-> s]
           ref == PortRefs[c]
           E == ExpectedAt(n, i)
<1>1. /\ n > NNetworks /\ c <= NPorts /\ ps' = ps /\ heap' = heap /\ i' = i /\ tags' = tags /\ n' = n + 1
      /\ capoPorts' = Append(capoPorts, port)
  BY DEF NextPort, NPorts
<1>2. /\ SpecOK /\ heap \in Seq(Seq(Tag)) /\ capoPorts \in Seq(Port) /\ tags \in SliceType /\ Position(n, i)
      /\ Len(heap) \in Nat /\ Len(capoPorts) \in Nat /\ NNetworks \in Nat /\ NPorts \in Nat
  BY SpecParts, LenProperties DEF ConvInv, ConvType
<1>3. /\ n \in NNetworks + 1 .. NNetworks + NPorts /\ i \in Nat /\ n \in Nat
      /\ c \in 1 .. NPorts /\ NNetworks + c = n
  BY <1>1, <1>2 DEF Position
<1>4. NNetworks' = NNetworks /\ NPorts' = NPorts /\ SpecOK' /\ (AllUnshared' => AllUnshared)
  BY <1>1, <1>2, SpecFixed
<1>5. ~ (n <= NNetworks) /\ ~ (n + 1 <= NNetworks)
  BY <1>2, <1>3
<1>6. E \in Seq(RefPort) /\ ExpectedAt(n, i)' = Append(E, ref)
  <2>1. ExpectedAt(n, i)' = ExpectedAt(n + 1, i)
    BY <1>1, ExpectedFixed
  <2> QED BY <1>2, <1>3, <2>1, ExpectedType, ExpectedPort
<1>7. Position(n, i)'
  <2>1. Position(n + 1, i)
    BY <1>2, <1>3, <1>5 DEF Position
  <2> QED BY <1>1, <2>1, PositionFixed
<1>8. ref \in RefPort /\ ref.subnets = <<>> /\ ref.tags = list /\ list \in Seq(Tag)
  <2>1. /\ PortRefs \in Seq(RefPort) /\ c \in 1 .. Len(PortRefs)
        /\ ref = [subnets |-> <<>>, tags |-> list]
    BY <1>2, <1>3, ReferenceParts
  <2>2. ref \in RefPort
    <3> HIDE DEF c
    <3> QED BY <2>1, ElementOfSeq
  <2> HIDE DEF list, ref
  <2>3. ref.subnets = <<>> /\ ref.tags = list
    BY <2>1
  <2>4. list \in Seq(Tag)
    BY <2>2, <2>3 DEF RefPort
  <2> QED BY <2>2, <2>3, <2>4
<1>9. heap[n] = Decoded(list) /\ n \in 1 .. Len(heap)
  <2>1. AheadInv
    BY DEF ConvInv
  <2>2. heap[NNetworks + c] = Decoded(list)
    BY <1>3, <2>1 DEF AheadInv
  <2>3. Len(heap) >= NNetworks + NPorts
    BY <2>1 DEF AheadInv
  <2>4. n \in 1 .. Len(heap)
    <3> DEFINE L == Len(heap)
               N == NNetworks
               P == NPorts
    <3>1. L \in Nat /\ N \in Nat /\ P \in Nat /\ L >= N + P /\ n \in N + 1 .. N + P
      BY <1>2, <1>3, <2>3
    <3> HIDE DEF c, list, L, N, P
    <3>2. n \in 1 .. L
      BY <3>1
    <3> QED BY <3>2 DEF L
  <2> QED BY <1>3, <2>2, <2>4
<1> HIDE DEF list, c
<1>10. s \in SliceType /\ s.array = n /\ s.len = Len(list)
  <2>1. Len(list) \in Nat
    BY <1>8, LenProperties
  <2> QED BY <1>3, <2>1 DEF Slice, SliceType
<1> HIDE DEF s
<1>11. InHeap(heap, s) /\ View(heap, s) = list
  BY <1>8, <1>9, <1>10, DecodedArray DEF InHeap, View
<1>12. port \in Port /\ port.subnets = <<>> /\ port.tags = s
  BY <1>10 DEF Port
<1>13. SameSubnets(capoPorts, E) /\ (AllUnshared => SameTags(heap, capoPorts, E))
  BY DEF ConvInv, ShapeInv, TagsInv
<1> HIDE DEF port, ref, E
<1>14. Append(capoPorts, port) \in Seq(Port) /\ SameSubnets(Append(capoPorts, port), Append(E, ref))
  BY <1>2, <1>6, <1>8, <1>12, <1>13, OnePort
<1>15. ConvType' /\ ShapeInv'
  BY <1>1, <1>2, <1>4, <1>6, <1>7, <1>14 DEF ConvType, ShapeInv
<1>16. AheadInv'
  <2>1. \A k \in 1 .. NNetworks : k > n + 1 => k > n
    BY <1>3
  <2>2. AheadInv
    BY DEF ConvInv
  <2> QED BY <1>1, <1>4, <2>1, <2>2 DEF AheadInv
<1>17. LocalInv'
  BY <1>1, <1>4, <1>5 DEF LocalInv
<1>18. PortsInv'
  <2>1. ASSUME NEW t, InHeap(heap, t) PROVE PortOK(t)'
    BY <1>1, <1>4, <1>5, <2>1 DEF PortOK
  <2>2. ASSUME NEW k \in 1 .. Len(capoPorts') PROVE InHeap(heap, capoPorts'[k].tags)
    <3>1. CASE k \in 1 .. Len(capoPorts)
      <4>1. capoPorts'[k] = capoPorts[k]
        BY <1>1, <1>2, <1>12, <3>1, AppendProperties
      <4> QED BY <3>1, <4>1 DEF ConvInv, PortsInv, PortOK
    <3>2. CASE ~ (k \in 1 .. Len(capoPorts))
      <4>1. Len(capoPorts') = Len(capoPorts) + 1 /\ capoPorts'[Len(capoPorts) + 1] = port
        BY <1>1, <1>2, <1>12, AppendProperties
      <4>2. k = Len(capoPorts) + 1
        BY <1>2, <3>2, <4>1
      <4> QED BY <1>11, <1>12, <4>1, <4>2
    <3> QED BY <3>1, <3>2
  <2> QED BY <2>1, <2>2 DEF PortsInv
<1>19. TagsInv'
  <2> SUFFICES ASSUME AllUnshared PROVE SameTags(heap, Append(capoPorts, port), Append(E, ref))
    BY <1>1, <1>4, <1>6 DEF TagsInv
  <2>1. Len(capoPorts) = Len(E)
    BY <1>13 DEF SameSubnets
  <2>2. View(heap, port.tags) = ref.tags
    BY <1>8, <1>11, <1>12
  <2> QED BY <1>2, <1>6, <1>8, <1>12, <1>13, <2>1, <2>2, OnePortTags
<1> QED BY <1>15, <1>16, <1>17, <1>18, <1>19 DEF ConvInv

LEMMA Stutter == ConvInv /\ UNCHANGED vars => ConvInv'
<1> SUFFICES ASSUME ConvInv, UNCHANGED vars PROVE ConvInv'
  OBVIOUS
<1>1. /\ ps' = ps /\ heap' = heap /\ capoPorts' = capoPorts /\ n' = n /\ i' = i /\ tags' = tags
  BY DEF vars
<1>2. NNetworks' = NNetworks /\ NPorts' = NPorts /\ (SpecOK => SpecOK') /\ (AllUnshared' => AllUnshared)
  BY <1>1, SpecFixed
<1>3. ExpectedAt(n, i)' = ExpectedAt(n, i) /\ (Position(n, i) => Position(n, i)')
  BY <1>1, ExpectedFixed, PositionFixed
<1>4. ConvType' /\ ShapeInv' /\ TagsInv'
  BY <1>1, <1>2, <1>3 DEF ConvInv, ConvType, ShapeInv, TagsInv
<1>5. AheadInv' /\ LocalInv'
  BY <1>1, <1>2 DEF ConvInv, AheadInv, LocalInv
<1>6. PortsInv'
  BY <1>1, <1>2 DEF ConvInv, PortsInv, PortOK, Apart
<1> QED BY <1>4, <1>5, <1>6 DEF ConvInv

-----------------------------------------------------------------------------
(* The invariant of createCAPOPorts: the ports built so far are those of the
   reference definition for as much of the spec as the loops have read, the
   arrays still to be read are as the decoder left them, and a port shares the
   array of the network being read only where append put tags in place. *)
THEOREM ConvInvariant == Spec => []ConvInv
<1>1. ConvInv /\ [Next]_vars => ConvInv'
  BY SubnetGiven, SubnetEach, NetworkStep, PortStep, Stutter DEF Next
<1> QED BY Start, <1>1, PTL DEF Spec

LEMMA AtTheEnd ==
  ASSUME ConvInv, Done
  PROVE  ExpectedAt(n, i) = Reference
<1>1. SpecOK /\ Position(n, i) /\ NNetworks \in Nat /\ NPorts \in Nat
  BY SpecParts DEF ConvInv, ConvType
<1>2. n = NNetworks + NPorts + 1
  BY <1>1 DEF Done, Position, NPorts
<1> QED BY <1>1, <1>2, ExpectedDone

(* For any provider spec, however many networks, subnets and ports it has,
   createCAPOPorts returns the ports in the order of the spec, each on its
   subnets. *)
THEOREM PortsAsSpecified == Spec => []SubnetsAsSpecified
<1>1. ConvInv => SubnetsAsSpecified
  <2> SUFFICES ASSUME ConvInv, Done
               PROVE  /\ Len(capoPorts) = Len(Reference)
                      /\ \A k \in DOMAIN capoPorts : capoPorts[k].subnets = Reference[k].subnets
    BY DEF SubnetsAsSpecified
  <2>1. SameSubnets(capoPorts, Reference)
    BY AtTheEnd DEF ConvInv, ShapeInv
  <2>2. DOMAIN capoPorts = 1 .. Len(capoPorts)
    BY LenProperties DEF ConvInv, ConvType
  <2> QED BY <2>1, <2>2 DEF SameSubnets
<1> QED BY <1>1, ConvInvariant, PTL

(* For any provider spec in which no network known by its subnets alone has two
   subnets whose tags fit into the spare part of the network's array, every port
   that createCAPOPorts returns has the tags of its network and of its subnets:
   append writes over nobody else's tags. *)
THEOREM TagsSafe == Spec => []TagsUnlessShared
<1>1. ConvInv => TagsUnlessShared
  <2> SUFFICES ASSUME ConvInv, Done, AllUnshared
               PROVE  \A k \in DOMAIN capoPorts : Contents(capoPorts[k].tags) = Reference[k].tags
    BY DEF TagsUnlessShared, TagsAsSpecified, AllUnshared
  <2>1. SameTags(heap, capoPorts, Reference)
    BY AtTheEnd DEF ConvInv, TagsInv
  <2>2. DOMAIN capoPorts = 1 .. Len(capoPorts)
    BY LenProperties DEF ConvInv, ConvType
  <2> QED BY <2>1, <2>2 DEF SameTags, View, Contents
<1> QED BY <1>1, ConvInvariant, PTL
=============================================================================
