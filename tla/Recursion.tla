----------------------------- MODULE Recursion -----------------------------
(***************************************************************************)
(* Induction and recursion over the natural numbers in a form without      *)
(* operators as parameters: predicates are sets, steps are functions.      *)
(* What FlattenSeq computes follows: one more sequence is one more         *)
(* concatenation.                                                          *)
(***************************************************************************)
EXTENDS Integers, SequencesExt, SequenceTheorems, WellFoundedInduction, TLAPS

(* A set with 0 and the successor of each of its elements has every number: a
   least number outside it would have a predecessor inside. *)
LEMMA SetInduction ==
  ASSUME NEW T, 0 \in T, \A k \in Nat : k \in T => k + 1 \in T
  PROVE  Nat \subseteq T
<1> DEFINE R == OpToRel(<, Nat)
           Rest == Nat \ T
<1>1. SUFFICES ASSUME Rest # {} PROVE FALSE
  OBVIOUS
<1>2. \A x, y \in Nat : <<y, x>> \in R <=> y < x
  BY DEF OpToRel
<1>3. IsWellFoundedOn(R, Nat)
  BY NatLessThanWellFounded
<1>4. PICK x \in Rest : \A y \in Rest : ~ (<<y, x>> \in R)
  <2>1. Rest \subseteq Nat
    OBVIOUS
  <2> HIDE DEF R, Rest
  <2> QED BY <1>1, <1>3, <2>1, WFMin
<1>5. x \in Nat /\ x # 0
  OBVIOUS
<1>6. x - 1 \in Nat /\ x - 1 < x
  BY <1>5
<1>7. x - 1 \in T
  <2>1. <<x - 1, x>> \in R
    BY <1>2, <1>5, <1>6
  <2> HIDE DEF R
  <2> QED BY <1>4, <1>6, <2>1
<1>8. x \in T
  BY <1>5, <1>6, <1>7
<1> QED BY <1>8

-----------------------------------------------------------------------------
(* f follows the step function from a on, as far as m. *)
Follows(f, a, step, m) == f[0] = a /\ \A k \in Nat : k < m => f[k + 1] = step[<<f[k], k>>]

(* Two functions that follow the same steps are the same that far. *)
LEMMA FollowsUnique ==
  ASSUME NEW a, NEW step, NEW m \in Nat, NEW f, NEW g,
         Follows(f, a, step, m), Follows(g, a, step, m), NEW k \in 0 .. m
  PROVE  f[k] = g[k]
<1> DEFINE T == {j \in Nat : j <= m => f[j] = g[j]}
<1>1. 0 \in T
  BY DEF Follows
<1>2. ASSUME NEW j \in Nat, j \in T PROVE j + 1 \in T
  <2>1. SUFFICES ASSUME j + 1 <= m PROVE f[j + 1] = g[j + 1]
    OBVIOUS
  <2>2. j < m /\ j <= m
    BY <2>1
  <2>3. f[j] = g[j]
    BY <1>2, <2>2
  <2>4. f[j + 1] = step[<<f[j], j>>] /\ g[j + 1] = step[<<g[j], j>>]
    BY <2>2 DEF Follows
  <2> QED BY <2>3, <2>4
<1>3. Nat \subseteq T
  <2> HIDE DEF T
  <2> QED BY <1>1, <1>2, SetInduction
<1> QED BY <1>3

(* Primitive recursion: there is a function that follows the steps for ever. *)
LEMMA PrimitiveRecursion ==
  ASSUME NEW S, NEW a \in S, NEW step \in [S \X Nat -> S]
  PROVE  \E f \in [Nat -> S] : \A m \in Nat : Follows(f, a, step, m)
<1> DEFINE T == {m \in Nat : \E f \in [Nat -> S] : Follows(f, a, step, m)}
<1>1. 0 \in T
  <2>1. [k \in Nat |-> a] \in [Nat -> S] /\ Follows([k \in Nat |-> a], a, step, 0)
    BY DEF Follows
  <2> QED BY <2>1
<1>2. ASSUME NEW m \in Nat, m \in T PROVE m + 1 \in T
  <2> PICK f \in [Nat -> S] : Follows(f, a, step, m)
    BY <1>2
  <2> DEFINE g == [f EXCEPT ![m + 1] = step[<<f[m], m>>]]
  <2>1. g \in [Nat -> S]
    BY <1>2
  <2>2. Follows(g, a, step, m + 1)
    BY <1>2 DEF Follows
  <2>3. m + 1 \in Nat
    BY <1>2
  <2> HIDE DEF g
  <2> QED BY <2>1, <2>2, <2>3
<1>3. Nat \subseteq T
  <2> HIDE DEF T
  <2> QED BY <1>1, <1>2, SetInduction
<1> DEFINE F(m) == CHOOSE f \in [Nat -> S] : Follows(f, a, step, m)
           h == [k \in Nat |-> F(k)[k]]
<1>4. \A m \in Nat : F(m) \in [Nat -> S] /\ Follows(F(m), a, step, m)
  BY <1>3
<1> HIDE DEF F
<1>5. h \in [Nat -> S]
  BY <1>4
<1>6. \A m \in Nat : \A k \in 0 .. m : h[k] = F(m)[k]
  <2> TAKE m \in Nat
  <2> TAKE k \in 0 .. m
  <2>1. k \in Nat /\ k \in 0 .. k /\ Follows(F(k), a, step, k) /\ Follows(F(m), a, step, m)
    BY <1>4
  <2>2. Follows(F(m), a, step, k)
    BY <2>1 DEF Follows
  <2> QED BY <2>1, <2>2, FollowsUnique
<1>7. ASSUME NEW m \in Nat PROVE Follows(h, a, step, m)
  <2>1. h[0] = a
    BY <1>4 DEF Follows
  <2>2. ASSUME NEW k \in Nat PROVE h[k + 1] = step[<<h[k], k>>]
    <3>1. k + 1 \in Nat /\ k \in 0 .. k + 1 /\ k + 1 \in 0 .. k + 1
      OBVIOUS
    <3>2. h[k + 1] = F(k + 1)[k + 1] /\ h[k] = F(k + 1)[k]
      BY <1>6, <3>1
    <3>3. F(k + 1)[k + 1] = step[<<F(k + 1)[k], k>>]
      BY <1>4, <3>1 DEF Follows
    <3> QED BY <3>2, <3>3
  <2> QED BY <2>1, <2>2 DEF Follows
<1> QED BY <1>5, <1>7

-----------------------------------------------------------------------------
(* A name for concatenation: what follows needs its type and its unit only. *)
Join(s, t) == s \o t

LEMMA JoinType ==
  ASSUME NEW S, NEW s \in Seq(S), NEW t \in Seq(S)
  PROVE  Join(s, t) \in Seq(S) /\ Join(<<>>, t) = t
BY ConcatProperties, ConcatEmptySeq DEF Join

(* f[k] is the concatenation of the first k of the sequences. *)
Gathers(f, seqs) == f[0] = <<>> /\ \A k \in 1 .. Len(seqs) : f[k] = Join(f[k - 1], seqs[k])

LEMMA GathersExists ==
  ASSUME NEW S, NEW seqs \in Seq(Seq(S))
  PROVE  \E f \in [Nat -> Seq(S)] : Gathers(f, seqs)
<1> DEFINE L == Len(seqs)
           step == [p \in Seq(S) \X Nat |-> IF p[2] < L THEN Join(p[1], seqs[p[2] + 1]) ELSE p[1]]
<1>1. L \in Nat /\ <<>> \in Seq(S)
  OBVIOUS
<1>2. ASSUME NEW s \in Seq(S), NEW k \in Nat, k < L
      PROVE  Join(s, seqs[k + 1]) \in Seq(S)
  <2>1. seqs[k + 1] \in Seq(S)
    BY <1>1, <1>2, ElementOfSeq
  <2> QED BY <2>1, JoinType
<1> HIDE DEF L
<1>3. step \in [Seq(S) \X Nat -> Seq(S)]
  BY <1>1, <1>2
<1>4. \A s \in Seq(S), k \in Nat : k < L => step[<<s, k>>] = Join(s, seqs[k + 1])
  OBVIOUS
<1> HIDE DEF step
<1>5. PICK f \in [Nat -> Seq(S)] : \A m \in Nat : Follows(f, <<>>, step, m)
  BY <1>1, <1>3, PrimitiveRecursion
<1>6. ASSUME NEW k \in 1 .. L PROVE f[k] = Join(f[k - 1], seqs[k])
  <2> DEFINE j == k - 1
  <2>1. j \in Nat /\ j < L /\ j + 1 = k /\ f[j] \in Seq(S)
    BY <1>1
  <2>2. f[j + 1] = step[<<f[j], j>>]
    BY <1>1, <1>5, <2>1 DEF Follows
  <2>3. step[<<f[j], j>>] = Join(f[j], seqs[j + 1])
    BY <1>4, <2>1
  <2> QED BY <2>1, <2>2, <2>3
<1>7. f[0] = <<>>
  BY <1>1, <1>5 DEF Follows
<1> QED BY <1>6, <1>7 DEF Gathers, L

(* FlattenSeq is that concatenation: its recursive definition has a solution, and
   every solution is this one. *)
LEMMA FlattenGathers ==
  ASSUME NEW S, NEW seqs \in Seq(Seq(S)), NEW f \in [Nat -> Seq(S)], Gathers(f, seqs)
  PROVE  FlattenSeq(seqs) = f[Len(seqs)]
<1> DEFINE L == Len(seqs)
           D(g) == g = [i \in 1 .. L |-> IF i = 1 THEN seqs[i] ELSE Join(g[i - 1], seqs[i])]
           flat == CHOOSE g : D(g)
<1>1. L \in Nat
  OBVIOUS
<1>2. CASE L = 0
  <2>1. seqs = <<>>
    BY <1>2
  <2> QED BY <1>2, <2>1 DEF FlattenSeq, Gathers
<1>3. CASE L # 0
  <2>1. FlattenSeq(seqs) = flat[L]
    BY <1>3 DEF FlattenSeq, Join
  <2>2. D([i \in 1 .. L |-> f[i]])
    <3>1. ASSUME NEW i \in 1 .. L
          PROVE  f[i] = IF i = 1 THEN seqs[i] ELSE Join([j \in 1 .. L |-> f[j]][i - 1], seqs[i])
      <4>1. f[i] = Join(f[i - 1], seqs[i]) /\ f[0] = <<>> /\ seqs[i] \in Seq(S)
        BY <3>1 DEF Gathers
      <4>2. CASE i = 1
        <5>1. f[i - 1] = <<>>
          BY <4>1, <4>2
        <5> QED BY <4>1, <4>2, <5>1, JoinType
      <4>3. CASE i # 1
        <5>1. i - 1 \in 1 .. L
          BY <1>1, <3>1, <4>3
        <5>2. [j \in 1 .. L |-> f[j]][i - 1] = f[i - 1]
          BY <5>1
        <5> QED BY <4>1, <4>3, <5>2
      <4> QED BY <4>2, <4>3
    <3> QED BY <3>1
  <2>3. D(flat)
    <3> HIDE DEF D
    <3> QED BY <2>2
  <2> HIDE DEF flat
  <2> DEFINE T == {k \in Nat : k \in 1 .. L => flat[k] = f[k]}
  <2>4. 0 \in T
    BY <1>1
  <2>5. ASSUME NEW k \in Nat, k \in T PROVE k + 1 \in T
    <3>1. SUFFICES ASSUME k + 1 \in 1 .. L PROVE flat[k + 1] = f[k + 1]
      OBVIOUS
    <3>2. f[k + 1] = Join(f[k], seqs[k + 1]) /\ f[0] = <<>> /\ seqs[k + 1] \in Seq(S)
      BY <2>5, <3>1 DEF Gathers
    <3>3. flat[k + 1] = IF k + 1 = 1 THEN seqs[k + 1] ELSE Join(flat[k], seqs[k + 1])
      <4>1. \A i \in 1 .. L : flat[i] = IF i = 1 THEN seqs[i] ELSE Join(flat[i - 1], seqs[i])
        BY <2>3
      <4>2. (k + 1) - 1 = k
        BY <2>5
      <4> HIDE DEF D
      <4> QED BY <3>1, <4>1, <4>2
    <3>4. CASE k = 0
      BY <3>2, <3>3, <3>4, JoinType
    <3>5. CASE k # 0
      <4>1. flat[k] = f[k]
        BY <1>1, <2>5, <3>1, <3>5
      <4> QED BY <2>5, <3>2, <3>3, <3>5, <4>1
    <3> QED BY <3>4, <3>5
  <2>6. Nat \subseteq T
    <3> HIDE DEF T
    <3> QED BY <2>4, <2>5, SetInduction
  <2>7. flat[L] = f[L]
    BY <1>1, <1>3, <2>6
  <2> QED BY <2>1, <2>7
<1> QED BY <1>2, <1>3

(* The next sequence is put behind what has been gathered of those before it. *)
LEMMA FlattenNext ==
  ASSUME NEW S, NEW seqs \in Seq(Seq(S)), NEW k \in 1 .. Len(seqs)
  PROVE  /\ FlattenSeq(SubSeq(seqs, 1, k - 1)) \in Seq(S)
         /\ FlattenSeq(SubSeq(seqs, 1, k)) = FlattenSeq(SubSeq(seqs, 1, k - 1)) \o seqs[k]
<1> DEFINE Prefix(j) == SubSeq(seqs, 1, j)
<1>1. PICK f \in [Nat -> Seq(S)] : Gathers(f, seqs)
  BY GathersExists
<1>2. ASSUME NEW j \in 0 .. Len(seqs) PROVE FlattenSeq(Prefix(j)) = f[j]
  <2>1. /\ Prefix(j) \in Seq(Seq(S)) /\ Len(Prefix(j)) = j
        /\ \A i \in 1 .. j : Prefix(j)[i] = seqs[i]
    <3>1. \A i \in 1 .. j : seqs[i] \in Seq(S)
      BY ElementOfSeq
    <3>2. j \in Int /\ (1 <= j \/ j = 0) /\ 1 \in Int
      OBVIOUS
    <3>3. /\ Prefix(j) \in Seq(Seq(S))
          /\ Len(Prefix(j)) = (IF 1 <= j THEN j - 1 + 1 ELSE 0)
          /\ \A i \in 1 .. j - 1 + 1 : Prefix(j)[i] = seqs[1 + i - 1]
      BY <3>1, <3>2, SubSeqProperties
    <3> HIDE DEF Prefix
    <3> QED BY <3>2, <3>3
  <2> HIDE DEF Prefix
  <2>2. Gathers(f, Prefix(j))
    <3>1. ASSUME NEW i \in 1 .. j PROVE f[i] = Join(f[i - 1], Prefix(j)[i])
      <4>1. i \in 1 .. Len(seqs)
        BY <1>2, <3>1, Len(seqs) \in Nat
      <4>2. Prefix(j)[i] = seqs[i]
        BY <2>1, <3>1
      <4> QED BY <1>1, <4>1, <4>2 DEF Gathers
    <3> QED BY <1>1, <2>1, <3>1 DEF Gathers
  <2> QED BY <2>1, <2>2, FlattenGathers
<1>3. f[k] = Join(f[k - 1], seqs[k]) /\ f[k - 1] \in Seq(S)
  BY <1>1 DEF Gathers
<1>4. k \in 0 .. Len(seqs) /\ k - 1 \in 0 .. Len(seqs)
  OBVIOUS
<1>5. FlattenSeq(Prefix(k)) = f[k] /\ FlattenSeq(Prefix(k - 1)) = f[k - 1]
  BY <1>2, <1>4
<1> QED BY <1>3, <1>5 DEF Join

(* Gathered sequences are sequences, and nothing gathered is the empty one. *)
LEMMA FlattenType ==
  ASSUME NEW S, NEW seqs \in Seq(Seq(S))
  PROVE  FlattenSeq(seqs) \in Seq(S) /\ FlattenSeq(<<>>) = <<>>
<1>1. PICK f \in [Nat -> Seq(S)] : Gathers(f, seqs)
  BY GathersExists
<1>2. FlattenSeq(seqs) = f[Len(seqs)]
  BY <1>1, FlattenGathers
<1>3. FlattenSeq(<<>>) = <<>>
  BY DEF FlattenSeq
<1> QED BY <1>2, <1>3
=============================================================================
