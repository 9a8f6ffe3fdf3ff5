----------------------------- MODULE NatRecursion -----------------------------
(***************************************************************************)
(* Induction over the naturals and bounded recursion, about sets and       *)
(* functions only: the forms in which the proofs about loops over a list   *)
(* or a ring use them.                                                     *)
(***************************************************************************)
EXTENDS Integers, WellFoundedInduction, TLAPS

\* A set of naturals that is not empty has a least element.
LEMMA LeastNatural ==
    ASSUME NEW T \in SUBSET Nat, T # {}
    PROVE  \E m \in T : \A k \in T : m <= k
<1>1. PICK m \in T : \A k \in T : <<k, m>> \notin OpToRel(<, Nat)
  BY WFMin, NatLessThanWellFounded, Zenon
<1>2. \A k \in T : ~(k < m)
  BY <1>1, Zenon DEF OpToRel
<1> QED
  BY <1>2

\* A set that has 0 and with each natural the next one has them all.
LEMMA SetInduction ==
    ASSUME NEW A, 0 \in A, \A n \in Nat : n \in A => n + 1 \in A
    PROVE  \A n \in Nat : n \in A
<1> SUFFICES ASSUME Nat \ A # {} PROVE FALSE
  OBVIOUS
<1>1. PICK m \in Nat \ A : \A k \in Nat \ A : m <= k
  BY LeastNatural
<1>2. m - 1 \in Nat /\ m - 1 \in A
  BY <1>1
<1> QED
  BY <1>1, <1>2

\* A loop that starts with base and does step N times, and its value at each turn.
Closed(step, N, S) == \A i \in 1 .. N : \A s \in S : step[<<i, s>>] \in S
Runs(f, step, N, S, base) ==
    /\ f \in [0 .. N -> S] /\ f[0] = base
    /\ \A i \in 1 .. N : f[i] = step[<<i, f[i - 1]>>]

LEMMA BoundedRecursion ==
    ASSUME NEW N \in Nat, NEW S, NEW base \in S, NEW step, Closed(step, N, S)
    PROVE  \E f : Runs(f, step, N, S, base)
<1> USE DEF Closed
<1> DEFINE Loop(n, f) == f[0] = base /\ \A i \in 1 .. n : f[i] = step[<<i, f[i - 1]>>]
           A == {n \in Nat : n <= N => \E f \in [0 .. n -> S] : Loop(n, f)}
<1>1. 0 \in A
  <2>1. [i \in 0 .. 0 |-> base] \in [0 .. 0 -> S] /\ Loop(0, [i \in 0 .. 0 |-> base])
    OBVIOUS
  <2> QED
    BY <2>1
<1>2. ASSUME NEW n \in Nat, n \in A PROVE n + 1 \in A
  <2> SUFFICES ASSUME n + 1 <= N PROVE \E f \in [0 .. n + 1 -> S] : Loop(n + 1, f)
    OBVIOUS
  <2>1. PICK f \in [0 .. n -> S] : Loop(n, f)
    BY <1>2
  <2> DEFINE last == step[<<n + 1, f[n]>>]
             h == [i \in 0 .. n + 1 |-> IF i = n + 1 THEN last ELSE f[i]]
  <2>2. last \in S
    OBVIOUS
  <2>3. h \in [0 .. n + 1 -> S]
    BY <2>2
  <2>4. h[0] = base
    BY <2>1
  <2>5. ASSUME NEW i \in 1 .. n + 1 PROVE h[i] = step[<<i, h[i - 1]>>]
    <3>1. CASE i = n + 1
      <4>1. h[n + 1] = last /\ h[n] = f[n]
        OBVIOUS
      <4>2. i - 1 = n
        BY <3>1
      <4> QED
        BY <3>1, <4>1, <4>2
    <3>2. CASE i # n + 1
      <4>1. i \in 1 .. n /\ h[i] = f[i] /\ h[i - 1] = f[i - 1]
        BY <3>2
      <4> QED
        BY <2>1, <4>1
    <3> QED
      BY <3>1, <3>2
  <2> QED
    BY <2>3, <2>4, <2>5
<1> HIDE DEF A
<1>3. N \in A
  BY <1>1, <1>2, SetInduction
<1> QED
  BY <1>3 DEF A, Runs

\* The same loop by stages: what holds after each turn may depend on the turn.
Stages(f, step, N, S, base) ==
    /\ f = [i \in 0 .. N |-> f[i]] /\ f[0] = base
    /\ \A i \in 1 .. N : f[i - 1] \in S[i - 1] /\ f[i] = step[<<i, f[i - 1]>>]
    /\ \A i \in 0 .. N : f[i] \in S[i]

LEMMA StagedRecursion ==
    ASSUME NEW N \in Nat, NEW S, NEW step, NEW base \in S[0],
           \A i \in 1 .. N : \A s \in S[i - 1] : step[<<i, s>>] \in S[i]
    PROVE  \E f : Stages(f, step, N, S, base)
<1> DEFINE Loop(n, f) == /\ f[0] = base /\ \A i \in 1 .. n : f[i] = step[<<i, f[i - 1]>>]
                         /\ \A i \in 0 .. n : f[i] \in S[i]
           A == {n \in Nat : n <= N => \E f : f = [i \in 0 .. n |-> f[i]] /\ Loop(n, f)}
<1>1. 0 \in A
  <2> DEFINE f == [i \in 0 .. 0 |-> base]
  <2>1. f = [i \in 0 .. 0 |-> f[i]] /\ f[0] = base /\ \A i \in 0 .. 0 : f[i] \in S[i]
    OBVIOUS
  <2> HIDE DEF f
  <2>2. Loop(0, f)
    BY <2>1
  <2>3. \E e : e = [i \in 0 .. 0 |-> e[i]] /\ Loop(0, e)
    BY <2>1, <2>2
  <2> HIDE DEF Loop
  <2> QED
    BY <2>3
<1>2. ASSUME NEW n \in Nat, n \in A PROVE n + 1 \in A
  <2> SUFFICES ASSUME n + 1 <= N
               PROVE  \E f : f = [i \in 0 .. n + 1 |-> f[i]] /\ Loop(n + 1, f)
    OBVIOUS
  <2>1. PICK f : f = [i \in 0 .. n |-> f[i]] /\ Loop(n, f)
    BY <1>2
  <2> DEFINE last == step[<<n + 1, f[n]>>]
             h == [i \in 0 .. n + 1 |-> IF i = n + 1 THEN last ELSE f[i]]
  <2>2. last \in S[n + 1]
    <3>1. f[n] \in S[n] /\ n + 1 \in 1 .. N /\ (n + 1) - 1 = n
      BY <2>1
    <3> QED
      BY <3>1
  <2> HIDE DEF last
  <2>3. h = [i \in 0 .. n + 1 |-> h[i]]
    OBVIOUS
  <2>4. h[0] = base /\ h[n + 1] = last /\ \A i \in 0 .. n : h[i] = f[i]
    BY <2>1
  <2> HIDE DEF h
  <2>5. ASSUME NEW i \in 1 .. n + 1 PROVE h[i] = step[<<i, h[i - 1]>>]
    <3>1. CASE i = n + 1
      <4>1. i - 1 = n /\ h[n] = f[n]
        BY <2>4, <3>1
      <4> QED
        BY <2>4, <3>1, <4>1 DEF last
    <3>2. CASE i # n + 1
      <4>1. i \in 1 .. n /\ i \in 0 .. n /\ i - 1 \in 0 .. n
        BY <3>2
      <4>2. h[i] = f[i] /\ h[i - 1] = f[i - 1]
        BY <2>4, <4>1
      <4> QED
        BY <2>1, <4>1, <4>2
    <3> QED
      BY <3>1, <3>2
  <2>6. ASSUME NEW i \in 0 .. n + 1 PROVE h[i] \in S[i]
    <3>1. i = n + 1 \/ i \in 0 .. n
      OBVIOUS
    <3> QED
      BY <2>1, <2>2, <2>4, <3>1
  <2> QED
    BY <2>3, <2>4, <2>5, <2>6
<1> HIDE DEF A
<1>3. N \in A
  BY <1>1, <1>2, SetInduction
<1>4. PICK f : f = [i \in 0 .. N |-> f[i]] /\ Loop(N, f)
  BY <1>3 DEF A
<1>5. \A i \in 1 .. N : i - 1 \in 0 .. N
  OBVIOUS
<1> QED
  BY <1>4, <1>5 DEF Stages

\* What is in each stage when it was in the one before is in the last.
LEMMA StagesKept ==
    ASSUME NEW N \in Nat, NEW S, NEW f, f[0] \in S[0],
           \A i \in 1 .. N : f[i - 1] \in S[i - 1] => f[i] \in S[i]
    PROVE  f[N] \in S[N]
<1> DEFINE A == {n \in Nat : n <= N => f[n] \in S[n]}
<1>1. 0 \in A
  OBVIOUS
<1>2. ASSUME NEW n \in Nat, n \in A PROVE n + 1 \in A
  <2> SUFFICES ASSUME n + 1 <= N PROVE f[n + 1] \in S[n + 1]
    OBVIOUS
  <2>1. n + 1 \in 1 .. N /\ (n + 1) - 1 = n /\ f[n] \in S[n]
    BY <1>2
  <2> QED
    BY <2>1
<1> HIDE DEF A
<1>3. N \in A
  BY <1>1, <1>2, SetInduction
<1> QED
  BY <1>3 DEF A
=============================================================================
