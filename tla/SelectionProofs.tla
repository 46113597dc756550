--------------------------- MODULE SelectionProofs ---------------------------
(***************************************************************************)
(* What SelectAt returns: the elements at the places, all of them, nothing  *)
(* else, and none twice unless the sequence has it twice.                   *)
(***************************************************************************)
EXTENDS Selection, FiniteSetTheorems, TLAPS

(***************************************************************************)
(* Every set of natural numbers that is not empty has a least element.      *)
(***************************************************************************)
LEMMA LeastNat ==
  ASSUME NEW T \in SUBSET Nat, T # {}
  PROVE  \E m \in T : \A k \in T : m <= k
<1>1. \E R : IsWellFoundedOn(R, Nat) /\ \A x, y \in Nat : <<y, x>> \in R <=> y < x
  <2> DEFINE R == OpToRel(<, Nat)
  <2>1. IsWellFoundedOn(R, Nat)
    BY NatLessThanWellFounded
  <2>2. \A x, y \in Nat : <<y, x>> \in R <=> y < x
    BY DEF OpToRel
  <2> HIDE DEF R
  <2> QED BY <2>1, <2>2
<1>2. PICK R : IsWellFoundedOn(R, Nat) /\ \A x, y \in Nat : <<y, x>> \in R <=> y < x
  BY <1>1
<1>3. PICK m \in T : \A y \in T : ~(<<y, m>> \in R)
  BY <1>2, WFMin
<1>4. \A k \in T : m <= k
  <2> TAKE k \in T
  <2>1. ~(k < m)
    BY <1>2, <1>3
  <2> QED BY <2>1
<1> QED BY <1>4

(***************************************************************************)
(* Places are finitely many, and so are those up to one of them.            *)
(***************************************************************************)
LEMMA CountType ==
  ASSUME NEW n \in Nat, NEW D \in SUBSET (1 .. n), NEW i \in Nat
  PROVE  /\ IsFiniteSet(D) /\ Cardinality(D) \in Nat
         /\ IsFiniteSet({j \in D : j <= i}) /\ CountUpTo(D, i) \in Nat
         /\ CountUpTo(D, i) <= Cardinality(D)
<1>1. IsFiniteSet(1 .. n)
  BY FS_Interval
<1>2. IsFiniteSet(D) /\ IsFiniteSet({j \in D : j <= i})
  BY <1>1, FS_Subset
<1> QED BY <1>2, FS_Subset, FS_CardinalityType DEF CountUpTo

(***************************************************************************)
(* A place of D further on has more places of D up to it.                   *)
(***************************************************************************)
LEMMA CountMonotone ==
  ASSUME NEW n \in Nat, NEW D \in SUBSET (1 .. n), NEW i \in D, NEW j \in D, i < j
  PROVE  CountUpTo(D, i) < CountUpTo(D, j)
<1> DEFINE I == {d \in D : d <= i}
           J == {d \in D : d <= j}
<1>1. IsFiniteSet(J) /\ Cardinality(I) \in Nat /\ Cardinality(J) \in Nat
  BY CountType DEF CountUpTo
<1>2. I \in SUBSET J /\ I # J
  <2>1. \A d \in D : d \in Nat
    OBVIOUS
  <2>2. j \in J /\ j \notin I
    BY <2>1
  <2>3. \A d \in I : d \in J
    BY <2>1
  <2> QED BY <2>2, <2>3
<1>3. Cardinality(I) <= Cardinality(J) /\ Cardinality(I) # Cardinality(J)
  BY <1>1, <1>2, FS_Subset
<1> QED BY <1>1, <1>3 DEF CountUpTo

(***************************************************************************)
(* Up to a place of D there is at least one place of D.                     *)
(***************************************************************************)
LEMMA CountPositive ==
  ASSUME NEW n \in Nat, NEW D \in SUBSET (1 .. n), NEW i \in D
  PROVE  CountUpTo(D, i) \in 1 .. Cardinality(D)
<1>1. i \in {j \in D : j <= i} /\ i \in Nat
  OBVIOUS
<1>2. CountUpTo(D, i) # 0
  BY <1>1, CountType, FS_EmptySet DEF CountUpTo
<1>3. CountUpTo(D, i) \in Nat /\ CountUpTo(D, i) <= Cardinality(D) /\ Cardinality(D) \in Nat
  BY <1>1, CountType
<1> QED BY <1>2, <1>3

(***************************************************************************)
(* There is a k-th place, for every k up to their number: by induction on a *)
(* bound of the places, as the absence of a least counterexample.           *)
(***************************************************************************)
LEMMA NthExists ==
  ASSUME NEW n \in Nat, NEW D \in SUBSET (1 .. n), NEW k \in 1 .. Cardinality(D)
  PROVE  \E i \in D : CountUpTo(D, i) = k
<1> DEFINE Holds(m) == \A E \in SUBSET (1 .. m) : \A l \in 1 .. Cardinality(E) :
                         \E i \in E : CountUpTo(E, i) = l
           Fails == {m \in Nat : ~Holds(m)}
<1>1. SUFFICES Fails = {}
  BY <1>1
<1>2. SUFFICES ASSUME Fails # {} PROVE FALSE
  OBVIOUS
<1>3. PICK m \in Fails : \A o \in Fails : m <= o
  BY <1>2, LeastNat
<1>4. m # 0
  <2>1. \A E \in SUBSET (1 .. 0) : E = {}
    OBVIOUS
  <2>2. \A E \in SUBSET (1 .. 0) : Cardinality(E) = 0
    BY <2>1, FS_EmptySet
  <2>3. \A E \in SUBSET (1 .. 0) : 1 .. Cardinality(E) = {}
    BY <2>2
  <2>4. Holds(0)
    BY <2>3
  <2> QED BY <2>4
<1>5. m - 1 \in Nat /\ Holds(m - 1)
  <2>1. m \in Nat /\ m - 1 \in Nat
    BY <1>4
  <2>2. m - 1 \notin Fails
    <3> HIDE DEF Fails
    <3>1. ASSUME m - 1 \in Fails PROVE FALSE
      <4>1. m <= m - 1
        BY <3>1, <1>3
      <4> QED BY <4>1, <2>1
    <3> QED BY <3>1
  <2> QED BY <2>1, <2>2
<1> HIDE DEF Fails
<1>6. m \in Nat
  BY <1>3 DEF Fails
<1>7. ASSUME NEW E \in SUBSET (1 .. m), NEW l \in 1 .. Cardinality(E)
      PROVE  \E i \in E : CountUpTo(E, i) = l
  <2> DEFINE E0 == E \ {m}
  <2>1. E0 \in SUBSET (1 .. (m - 1))
    BY <1>6
  <2>2. CASE m \notin E
    <3>1. E \in SUBSET (1 .. (m - 1))
      BY <2>1, <2>2
    <3> QED BY <3>1, <1>5
  <2>3. CASE m \in E
    <3>1. IsFiniteSet(E) /\ Cardinality(E) \in Nat
      BY <1>6, CountType
    <3>2. Cardinality(E0) = Cardinality(E) - 1
      BY <3>1, <2>3, FS_RemoveElement
    <3>3. CASE l = Cardinality(E)
      <4>0. \A j \in E : j <= m
        BY <1>6
      <4>1. {j \in E : j <= m} = E
        BY <4>0
      <4> QED BY <4>1, <2>3, <3>3 DEF CountUpTo
    <3>4. CASE l # Cardinality(E)
      <4>1. l \in 1 .. Cardinality(E0)
        BY <3>1, <3>2, <3>4
      <4>2. PICK i \in E0 : CountUpTo(E0, i) = l
        BY <4>1, <2>1, <1>5
      <4>3. {j \in E0 : j <= i} = {j \in E : j <= i}
        BY <4>2, <2>1, <1>6
      <4> QED BY <4>2, <4>3 DEF CountUpTo
    <3> QED BY <3>3, <3>4
  <2> QED BY <2>2, <2>3
<1>8. Holds(m)
  BY <1>7
<1> QED BY <1>8, <1>3 DEF Fails

(***************************************************************************)
(* Nth is the place it says, and every place is one of them.                *)
(***************************************************************************)
LEMMA NthPlace ==
  ASSUME NEW n \in Nat, NEW D \in SUBSET (1 .. n)
  PROVE  /\ Cardinality(D) \in Nat
         /\ \A k \in 1 .. Cardinality(D) : Nth(D, k) \in D /\ CountUpTo(D, Nth(D, k)) = k
         /\ \A d \in D : CountUpTo(D, d) \in 1 .. Cardinality(D)
                         /\ Nth(D, CountUpTo(D, d)) = d
<1>1. Cardinality(D) \in Nat
  BY CountType
<1>2. \A k \in 1 .. Cardinality(D) : Nth(D, k) \in D /\ CountUpTo(D, Nth(D, k)) = k
  BY NthExists DEF Nth
<1>3. ASSUME NEW d \in D
      PROVE  CountUpTo(D, d) \in 1 .. Cardinality(D) /\ Nth(D, CountUpTo(D, d)) = d
  <2> DEFINE k == CountUpTo(D, d)
             e == Nth(D, k)
  <2>1. k \in 1 .. Cardinality(D)
    BY CountPositive
  <2>2. e \in D /\ CountUpTo(D, e) = k
    BY <2>1, <1>2
  <2> HIDE DEF e
  <2>3. ~(e < d) /\ ~(d < e)
    <3>1. k \in Nat
      BY <2>1
    <3>2. ASSUME e < d PROVE FALSE
      <4>1. CountUpTo(D, e) < CountUpTo(D, d)
        BY <3>2, <2>2, CountMonotone
      <4> QED BY <4>1, <2>2, <3>1
    <3>3. ASSUME d < e PROVE FALSE
      <4>1. CountUpTo(D, d) < CountUpTo(D, e)
        BY <3>3, <2>2, CountMonotone
      <4> QED BY <4>1, <2>2, <3>1
    <3> QED BY <3>2, <3>3
  <2>4. d \in Nat /\ e \in Nat
    BY <2>2
  <2>5. e = d
    BY <2>3, <2>4
  <2> QED BY <2>1, <2>5 DEF e
<1> QED BY <1>1, <1>2, <1>3

(***************************************************************************)
(* A selection is a sequence of the elements at the places, each of them,   *)
(* and it repeats nothing that the sequence does not repeat.                *)
(***************************************************************************)
LEMMA SelectAtProperties ==
  ASSUME NEW S, NEW s \in Seq(S), NEW D \in SUBSET (DOMAIN s)
  PROVE  /\ SelectAt(s, D) \in Seq(S)
         /\ Range(SelectAt(s, D)) = {s[d] : d \in D}
         /\ IsInjective(s) => IsInjective(SelectAt(s, D))
<1>1. DOMAIN s = 1 .. Len(s) /\ Len(s) \in Nat
  OBVIOUS
<1>2. D \in SUBSET (1 .. Len(s))
  BY <1>1
<1> DEFINE n == Cardinality(D)
<1>3. /\ n \in Nat
      /\ \A k \in 1 .. n : Nth(D, k) \in D /\ CountUpTo(D, Nth(D, k)) = k
      /\ \A d \in D : CountUpTo(D, d) \in 1 .. n /\ Nth(D, CountUpTo(D, d)) = d
  BY <1>1, <1>2, NthPlace
<1> HIDE DEF n
<1>4. SelectAt(s, D) = [k \in 1 .. n |-> s[Nth(D, k)]]
  BY DEF SelectAt, n
<1>5. \A d \in D : s[d] \in S
  BY <1>1, <1>2
<1>6. SelectAt(s, D) \in Seq(S)
  BY <1>3, <1>4, <1>5
<1>7. Range(SelectAt(s, D)) = {s[d] : d \in D}
  <2>1. \A k \in 1 .. n : s[Nth(D, k)] \in {s[d] : d \in D}
    BY <1>3
  <2>2. \A d \in D : \E k \in 1 .. n : s[Nth(D, k)] = s[d]
    BY <1>3
  <2>3. Range(SelectAt(s, D)) = {s[Nth(D, k)] : k \in 1 .. n}
    BY <1>4 DEF Range
  <2> QED BY <2>1, <2>2, <2>3
<1>8. ASSUME IsInjective(s) PROVE IsInjective(SelectAt(s, D))
  <2> SUFFICES ASSUME NEW k \in 1 .. n, NEW l \in 1 .. n, s[Nth(D, k)] = s[Nth(D, l)]
               PROVE  k = l
    BY <1>4 DEF IsInjective
  <2>1. Nth(D, k) \in DOMAIN s /\ Nth(D, l) \in DOMAIN s
    BY <1>3
  <2>2. Nth(D, k) = Nth(D, l)
    BY <2>1, <1>8 DEF IsInjective
  <2> QED BY <2>2, <1>3
<1> QED BY <1>6, <1>7, <1>8

(***************************************************************************)
(* A selection keeps the order: x comes no later than y in it iff they do   *)
(* so at the places of the selection.                                       *)
(***************************************************************************)
LEMMA SelectAtOrder ==
  ASSUME NEW S, NEW s \in Seq(S), NEW D \in SUBSET (DOMAIN s),
         NEW x \in S, NEW y \in S
  PROVE  (\E k, l \in DOMAIN SelectAt(s, D) :
            k <= l /\ SelectAt(s, D)[k] = x /\ SelectAt(s, D)[l] = y)
         <=> \E i, j \in D : i <= j /\ s[i] = x /\ s[j] = y
<1> DEFINE n == Cardinality(D)
           sel == SelectAt(s, D)
<1>1. D \in SUBSET (1 .. Len(s)) /\ Len(s) \in Nat
  OBVIOUS
<1>2. /\ n \in Nat
      /\ \A k \in 1 .. n : Nth(D, k) \in D /\ CountUpTo(D, Nth(D, k)) = k
      /\ \A d \in D : CountUpTo(D, d) \in 1 .. n /\ Nth(D, CountUpTo(D, d)) = d
  BY <1>1, NthPlace
<1> HIDE DEF n
<1>3. DOMAIN sel = 1 .. n /\ \A k \in 1 .. n : sel[k] = s[Nth(D, k)]
  BY DEF SelectAt, n
<1> HIDE DEF sel
<1>4. \A i, j \in D : i < j => CountUpTo(D, i) < CountUpTo(D, j)
  BY <1>1, CountMonotone
<1>5. ASSUME NEW k \in 1 .. n, NEW l \in 1 .. n, k <= l, sel[k] = x, sel[l] = y
      PROVE  \E i, j \in D : i <= j /\ s[i] = x /\ s[j] = y
  <2>1. Nth(D, k) \in D /\ Nth(D, l) \in D /\ s[Nth(D, k)] = x /\ s[Nth(D, l)] = y
    BY <1>2, <1>3, <1>5
  <2>2. ~(Nth(D, l) < Nth(D, k))
    BY <1>2, <1>4, <1>5, <2>1
  <2>3. Nth(D, k) \in Nat /\ Nth(D, l) \in Nat
    BY <1>1, <2>1
  <2>4. Nth(D, k) <= Nth(D, l)
    BY <2>2, <2>3
  <2> QED BY <2>1, <2>4
<1>6. ASSUME NEW i \in D, NEW j \in D, i <= j, s[i] = x, s[j] = y
      PROVE  \E k, l \in 1 .. n : k <= l /\ sel[k] = x /\ sel[l] = y
  <2>1. CountUpTo(D, i) \in 1 .. n /\ CountUpTo(D, j) \in 1 .. n
    BY <1>2
  <2>2. sel[CountUpTo(D, i)] = x /\ sel[CountUpTo(D, j)] = y
    BY <1>2, <1>3, <1>6, <2>1
  <2>3. i = j \/ i < j
    BY <1>1, <1>6
  <2>4. CountUpTo(D, i) <= CountUpTo(D, j)
    BY <1>2, <1>4, <2>1, <2>3
  <2> QED BY <2>1, <2>2, <2>4
<1> QED BY <1>3, <1>5, <1>6 DEF sel
=============================================================================
