---------------------------- MODULE InductionLemmas --------------------------
(***************************************************************************)
(* What the proofs about data rest on.  The provers cannot instantiate an  *)
(* induction theorem, whose parameter is an operator; here a set takes the *)
(* place of the predicate, and the function of what each turn of a loop    *)
(* leaves that of the recursive definition.                                *)
(***************************************************************************)
EXTENDS Naturals, Sequences, SequenceTheorems, WellFoundedInduction, TLAPS

LEMMA LeastNat ==
  ASSUME NEW T \in SUBSET Nat, T # {}
  PROVE  \E m \in T : \A k \in T : m <= k
<1>1. PICK m \in T : \A k \in T : ~(<<k, m>> \in OpToRel(<, Nat))
  BY WFMin, NatLessThanWellFounded, Zenon
<1>2. \A k \in T : ~(k < m)
  BY <1>1 DEF OpToRel
<1>3. QED
  BY <1>2

LEMMA SetInduction ==
  ASSUME NEW S, 0 \in S, \A n \in Nat : n \in S => n + 1 \in S
  PROVE  \A n \in Nat : n \in S
<1> SUFFICES ASSUME NEW n \in Nat, n \notin S PROVE FALSE
  OBVIOUS
<1>1. PICK m \in Nat \ S : \A k \in Nat \ S : m <= k
  BY LeastNat
<1>2. m - 1 \in Nat /\ m - 1 \in S
  BY <1>1
<1>3. QED
  BY <1>1, <1>2

(* A loop of l turns: there is the function of what each turn leaves.      *)
IsLoop(f, S, base, l, g) ==
  /\ f \in [0 .. l -> S]
  /\ f = [i \in 0 .. l |-> IF i = 0 THEN base ELSE g[<<f[i - 1], i>>]]

LEMMA LoopExists ==
  ASSUME NEW S, NEW base \in S, NEW l \in Nat, NEW g \in [S \X (1 .. l) -> S]
  PROVE  \E f : IsLoop(f, S, base, l, g)
<1> USE DEF IsLoop
<1> DEFINE Has(k) == \E f : IsLoop(f, S, base, k, g)
           T == {k \in Nat : k <= l => Has(k)}
<1>1. 0 \in T
  <2> DEFINE f == [i \in 0 .. 0 |-> base]
  <2>1. f \in [0 .. 0 -> S]
    OBVIOUS
  <2>2. f = [i \in 0 .. 0 |-> IF i = 0 THEN base ELSE g[<<f[i - 1], i>>]]
    <3>1. \A i \in 0 .. 0 : i = 0
      OBVIOUS
    <3>2. QED
      BY <3>1
  <2> HIDE DEF f
  <2>3. Has(0)
    BY <2>1, <2>2
  <2>4. QED
    BY <2>3
<1>2. ASSUME NEW k \in Nat, k \in T PROVE k + 1 \in T
  <2> SUFFICES ASSUME k + 1 <= l PROVE Has(k + 1)
    OBVIOUS
  <2>1. PICK f \in [0 .. k -> S] : f = [i \in 0 .. k |-> IF i = 0 THEN base ELSE g[<<f[i - 1], i>>]]
    BY <1>2
  <2> DEFINE e == g[<<f[k], k + 1>>]
             n == [i \in 0 .. k + 1 |-> IF i \in 0 .. k THEN f[i] ELSE e]
  <2>2. e \in S
    <3>1. f[k] \in S /\ k + 1 \in 1 .. l
      BY <2>1
    <3>2. QED
      BY <3>1
  <2>3. n \in [0 .. k + 1 -> S]
    <3> HIDE DEF e
    <3>1. QED
      BY <2>1, <2>2
  <2>4. ASSUME NEW i \in 0 .. k + 1
        PROVE  n[i] = IF i = 0 THEN base ELSE g[<<n[i - 1], i>>]
    <3>1. CASE i = 0
      <4>1. 0 \in 0 .. k /\ 0 \in 0 .. k + 1
        OBVIOUS
      <4>2. f[0] = base
        BY <2>1, <4>1
      <4>3. QED
        BY <3>1, <4>1, <4>2
    <3>2. CASE i # 0 /\ i \in 0 .. k
      <4>1. i - 1 \in 0 .. k /\ i - 1 \in 0 .. k + 1
        BY <3>2
      <4>2. f[i] = g[<<f[i - 1], i>>]
        BY <2>1, <3>2
      <4>3. QED
        BY <3>2, <4>1, <4>2
    <3>3. CASE i \notin 0 .. k
      <4>1. i = k + 1 /\ i - 1 = k /\ k \in 0 .. k /\ k \in 0 .. k + 1 /\ i # 0
        BY <3>3
      <4>2. n[i] = e /\ n[k] = f[k]
        BY <3>3, <4>1
      <4>3. QED
        BY <4>1, <4>2
    <3>4. QED
      BY <3>1, <3>2, <3>3
  <2>5. n = [i \in 0 .. k + 1 |-> IF i = 0 THEN base ELSE g[<<n[i - 1], i>>]]
    <3> DEFINE h == [i \in 0 .. k + 1 |-> IF i = 0 THEN base ELSE g[<<n[i - 1], i>>]]
    <3>1. \A i \in 0 .. k + 1 : n[i] = h[i]
      BY <2>4
    <3>2. DOMAIN n = 0 .. k + 1 /\ DOMAIN h = 0 .. k + 1
      OBVIOUS
    <3>3. n = [i \in 0 .. k + 1 |-> n[i]] /\ h = [i \in 0 .. k + 1 |-> h[i]]
      OBVIOUS
    <3> HIDE DEF n, h
    <3>4. n = h
      BY <3>1, <3>3
    <3>5. QED
      BY <3>4 DEF h
  <2> HIDE DEF n
  <2>6. QED
    BY <2>3, <2>5
<1> HIDE DEF T
<1>3. \A k \in Nat : k \in T
  BY <1>1, <1>2, SetInduction
<1>4. l \in T
  BY <1>3
<1>5. QED
  BY <1>4 DEF T

(* What holds before the first turn, and after a turn if it held before    *)
(* it, holds at the end.                                                   *)
LEMMA LoopInduction ==
  ASSUME NEW l \in Nat, NEW T, 0 \in T, \A i \in 1 .. l : i - 1 \in T => i \in T
  PROVE  l \in T
<1> DEFINE S == {k \in Nat : k <= l => k \in T}
<1>1. 0 \in S
  OBVIOUS
<1>2. ASSUME NEW k \in Nat, k \in S PROVE k + 1 \in S
  <2> SUFFICES ASSUME k + 1 <= l PROVE k + 1 \in T
    OBVIOUS
  <2>1. k + 1 \in 1 .. l /\ k + 1 - 1 = k /\ k \in T
    BY <1>2
  <2>2. QED
    BY <2>1
<1> HIDE DEF S
<1>3. \A k \in Nat : k \in S
  BY <1>1, <1>2, SetInduction
<1>4. QED
  BY <1>3 DEF S

LEMMA AppendFacts ==
  ASSUME NEW S, NEW s \in Seq(S), NEW e
  PROVE  /\ Len(Append(s, e)) = Len(s) + 1 /\ Len(s) \in Nat
         /\ \A i \in 1 .. Len(s) : Append(s, e)[i] = s[i]
         /\ Append(s, e)[Len(s) + 1] = e
         /\ e \in S => Append(s, e) \in Seq(S)
BY AppendProperties
=============================================================================
