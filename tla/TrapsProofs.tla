----------------------------- MODULE TrapsProofs -----------------------------
(***************************************************************************)
(* Proofs about Traps, for every finite set of grids, every depth of the   *)
(* lists and every bound on the timers.                                    *)
(***************************************************************************)
EXTENDS Traps, NatRecursion, SequenceTheorems, FiniteSetTheorems, TLAPS

Lists == {l \in Seq(Trap) : Len(l) <= MaxLayers}

-----------------------------------------------------------------------------
(* What the operations on a list of traps leave of it.                     *)

\* Each two traps of a list come from two traps of another, and so do timers that run.
Fewer(new, old) ==
    /\ new \in Lists
    /\ \A i, j \in DOMAIN new : \E a, b \in DOMAIN old :
          new[i].kind = old[a].kind /\ new[j].kind = old[b].kind /\ (i # j => a # b)
    /\ \A i \in DOMAIN new : new[i].timeout > 0 => \E a \in DOMAIN old : old[a].timeout > 0

LEMMA TrapTypes ==
    /\ MaxLayers \in Nat /\ MaxLayers > 0 /\ DisableTime \in Nat /\ DisableTime > 0
    /\ \A k \in Kinds : New(k) \in Trap /\ New(k).kind = k /\ New(k).timeout = 0
    /\ \A t \in Trap : /\ t.kind \in Kinds /\ t.timeout \in 0 .. DisableTime
                       /\ t.visible \in BOOLEAN
                       /\ [t EXCEPT !.visible = TRUE] \in Trap
                       /\ [t EXCEPT !.visible = TRUE].kind = t.kind
                       /\ [t EXCEPT !.visible = TRUE].timeout = t.timeout
                       /\ [t EXCEPT !.timeout = DisableTime] \in Trap
                       /\ [t EXCEPT !.timeout = DisableTime].kind = t.kind
<1>1. /\ MaxLayers \in Nat /\ MaxLayers > 0 /\ DisableTime \in Nat /\ DisableTime > 0
  BY ConstantsAssumption
<1>2. 0 \in 0 .. DisableTime /\ DisableTime \in 0 .. DisableTime
  BY <1>1
<1>3. ASSUME NEW k \in Kinds
      PROVE  New(k) \in Trap /\ New(k).kind = k /\ New(k).timeout = 0
  <2>1. (k # "player") \in BOOLEAN
    OBVIOUS
  <2> QED
    BY <1>2, <2>1, Zenon DEF Trap, New
<1>4. ASSUME NEW t \in Trap
      PROVE  /\ t.kind \in Kinds /\ t.timeout \in 0 .. DisableTime
             /\ t.visible \in BOOLEAN
             /\ [t EXCEPT !.visible = TRUE] \in Trap
             /\ [t EXCEPT !.visible = TRUE].kind = t.kind
             /\ [t EXCEPT !.visible = TRUE].timeout = t.timeout
             /\ [t EXCEPT !.timeout = DisableTime] \in Trap
             /\ [t EXCEPT !.timeout = DisableTime].kind = t.kind
  <2>1. t.kind \in Kinds /\ t.timeout \in 0 .. DisableTime /\ t.visible \in BOOLEAN
    BY Zenon DEF Trap
  <2>2. [t EXCEPT !.visible = TRUE] \in Trap
    BY <2>1, Zenon DEF Trap
  <2>3. [t EXCEPT !.timeout = DisableTime] \in Trap
    BY <1>2, <2>1, Zenon DEF Trap
  <2>4. /\ [t EXCEPT !.visible = TRUE].kind = t.kind
        /\ [t EXCEPT !.visible = TRUE].timeout = t.timeout
        /\ [t EXCEPT !.timeout = DisableTime].kind = t.kind
    BY DEF Trap
  <2> QED
    BY <2>1, <2>2, <2>3, <2>4
<1> QED
  BY <1>1, <1>3, <1>4

LEMMA ListTypes ==
    ASSUME NEW list \in Lists
    PROVE  /\ list \in Seq(Trap) /\ Len(list) \in Nat /\ Len(list) <= MaxLayers
           /\ DOMAIN list = 1 .. Len(list) /\ \A i \in DOMAIN list : list[i] \in Trap
           /\ \A i \in 1 .. Len(list) : list[i] \in Trap
           /\ \A t : t \in ToSet(list) <=> \E i \in DOMAIN list : t = list[i]
  BY DEF Lists, ToSet

LEMMA FewerSame == ASSUME NEW list \in Lists PROVE Fewer(list, list)
  BY DEF Fewer

LEMMA FewerNone == ASSUME NEW list \in Lists PROVE Fewer(<<>>, list)
  BY TrapTypes DEF Fewer, Lists

LEMMA FewerTail == ASSUME NEW list \in Lists, list # <<>> PROVE Fewer(Tail(list), list)
<1>1. /\ Tail(list) \in Seq(Trap) /\ Len(Tail(list)) = Len(list) - 1
      /\ \A i \in 1 .. Len(Tail(list)) : Tail(list)[i] = list[i + 1]
  BY ListTypes, HeadTailProperties
<1>2. DOMAIN Tail(list) = 1 .. Len(list) - 1
  BY <1>1, ListTypes
<1>3. \A i \in DOMAIN Tail(list) : i + 1 \in DOMAIN list /\ Tail(list)[i] = list[i + 1]
  BY <1>1, <1>2, ListTypes
<1>4. Tail(list) \in Lists
  BY <1>1, ListTypes, TrapTypes DEF Lists
<1>5. ASSUME NEW i \in DOMAIN Tail(list), NEW j \in DOMAIN Tail(list)
      PROVE  \E a, b \in DOMAIN list : /\ Tail(list)[i].kind = list[a].kind
                                       /\ Tail(list)[j].kind = list[b].kind
                                       /\ i # j => a # b
  <2>1. i # j => i + 1 # j + 1
    BY <1>2, ListTypes
  <2> QED
    BY <1>3, <2>1
<1> QED
  BY <1>3, <1>4, <1>5 DEF Fewer

LEMMA FewerReverse == ASSUME NEW list \in Lists PROVE Fewer(Reverse(list), list)
<1>1. /\ Reverse(list) \in Seq(Trap) /\ Len(Reverse(list)) = Len(list)
      /\ DOMAIN Reverse(list) = 1 .. Len(list)
      /\ \A i \in 1 .. Len(list) : Reverse(list)[i] = list[(Len(list) - i) + 1]
  BY ListTypes DEF Reverse
<1>2. Reverse(list) \in Lists
  BY <1>1, ListTypes DEF Lists
<1>3. \A i \in DOMAIN Reverse(list) : (Len(list) - i) + 1 \in DOMAIN list
  BY <1>1, ListTypes
<1>4. ASSUME NEW i \in DOMAIN Reverse(list), NEW j \in DOMAIN Reverse(list)
      PROVE  \E a, b \in DOMAIN list : /\ Reverse(list)[i].kind = list[a].kind
                                       /\ Reverse(list)[j].kind = list[b].kind
                                       /\ i # j => a # b
  <2>1. i # j => (Len(list) - i) + 1 # (Len(list) - j) + 1
    BY <1>1, ListTypes
  <2> QED
    BY <1>1, <1>3, <2>1
<1>5. \A i \in DOMAIN Reverse(list) : Reverse(list)[i] = list[(Len(list) - i) + 1]
  BY <1>1
<1> QED
  BY <1>2, <1>3, <1>4, <1>5 DEF Fewer

\* A list of the same traps, some of them visible now.
LEMMA FewerShown ==
    ASSUME NEW list \in Lists, NEW new, new \in Seq(Trap), DOMAIN new = DOMAIN list,
           \A i \in DOMAIN list : /\ new[i].kind = list[i].kind
                                  /\ new[i].timeout = list[i].timeout
    PROVE  Fewer(new, list)
<1>1. Len(new) = Len(list) /\ new \in Lists
  BY ListTypes DEF Lists
<1> QED
  BY <1>1 DEF Fewer

LEMMA RevealedTypes ==
    ASSUME NEW list \in Lists, NEW new \in Revealed(list)
    PROVE  /\ new \in Lists /\ DOMAIN new = DOMAIN list
           /\ \A i \in DOMAIN list : /\ new[i].kind = list[i].kind
                                     /\ new[i].timeout = list[i].timeout
<1>1. CASE new = list
  BY <1>1
<1>2. CASE new = [i \in DOMAIN list |-> IF list[i].kind = "player"
                                        THEN [list[i] EXCEPT !.visible = TRUE] ELSE list[i]]
  <2>1. /\ DOMAIN new = 1 .. Len(list)
        /\ \A i \in 1 .. Len(list) : /\ new[i] \in Trap /\ new[i].kind = list[i].kind
                                     /\ new[i].timeout = list[i].timeout
    <3>1. DOMAIN new = 1 .. Len(list)
      BY <1>2, ListTypes
    <3>2. ASSUME NEW i \in 1 .. Len(list)
          PROVE  /\ new[i] \in Trap /\ new[i].kind = list[i].kind
                 /\ new[i].timeout = list[i].timeout
      <4>1. list[i] \in Trap
        BY ListTypes
      <4>2. new[i] = list[i] \/ new[i] = [list[i] EXCEPT !.visible = TRUE]
        BY <1>2, ListTypes
      <4> QED
        BY <4>1, <4>2, TrapTypes
    <3> QED
      BY <3>1, <3>2
  <2>2. new \in Seq(Trap) /\ Len(new) = Len(list)
    BY <1>2, <2>1, ListTypes
  <2> QED
    BY <2>1, <2>2, ListTypes DEF Lists
<1> QED
  BY <1>1, <1>2 DEF Revealed

LEMMA FewerRevealed ==
    ASSUME NEW list \in Lists, NEW new \in Revealed(list) PROVE Fewer(new, list)
  BY RevealedTypes, FewerShown DEF Lists

\* square_remove_trap() takes the first trap, or does not find the trap it is to take.
LEMMA FewerRemoved ==
    ASSUME NEW list \in Lists, list # <<>>, NEW i
    PROVE  /\ Fewer(RemoveTrap(list, i).list, list)
           /\ RemoveTrap(list, i).how \in {"removed", "missed", "endless"}
           /\ RemoveTrap(list, i).how # "removed" => RemoveTrap(list, i).list = list
  BY FewerTail, FewerSame DEF RemoveTrap

\* The loop of square_remove_all_traps_of_type(), turn by turn.
Turn(n, s, list, kind) == IF list[n].kind = kind THEN s ELSE Append(s, list[n])
Keeps(kept, list, kind) ==
    /\ kept \in [0 .. Len(list) -> Seq(Trap)] /\ kept[0] = <<>>
    /\ \A n \in 1 .. Len(list) : kept[n] = Turn(n, kept[n - 1], list, kind)

LEMMA WithoutLoop ==
    ASSUME NEW list \in Lists, NEW kind
    PROVE  \E kept : Keeps(kept, list, kind) /\ Without(list, kind) = kept[Len(list)]
<1> DEFINE N == Len(list)
           step == [p \in (1 .. N) \X Seq(Trap) |-> Turn(p[1], p[2], list, kind)]
<1>1. N \in Nat /\ \A n \in 1 .. N : list[n] \in Trap
  BY ListTypes
<1>2. \A n \in 1 .. N : \A s \in Seq(Trap) : Turn(n, s, list, kind) \in Seq(Trap)
  BY <1>1, AppendProperties DEF Turn
<1>3. \A n \in 1 .. N : \A s \in Seq(Trap) : step[<<n, s>>] = Turn(n, s, list, kind)
  OBVIOUS
<1> HIDE DEF step, N
<1>4. Closed(step, N, Seq(Trap))
  BY <1>2, <1>3 DEF Closed
<1>5. <<>> \in Seq(Trap)
  OBVIOUS
<1>6. PICK f : Runs(f, step, N, Seq(Trap), <<>>)
  BY <1>1, <1>4, <1>5, BoundedRecursion
<1>7. f \in [0 .. N -> Seq(Trap)] /\ f[0] = <<>>
  BY <1>6 DEF Runs
<1>8. ASSUME NEW n \in 1 .. N PROVE f[n] = Turn(n, f[n - 1], list, kind)
  <2>1. f[n - 1] \in Seq(Trap)
    BY <1>1, <1>7
  <2> QED
    BY <1>3, <1>6, <2>1 DEF Runs
<1>9. Keeps(f, list, kind)
  BY <1>7, <1>8 DEF Keeps, N
<1> DEFINE body(kept, n) == IF n = 0 THEN <<>>
                            ELSE IF list[n].kind = kind THEN kept[n - 1]
                            ELSE Append(kept[n - 1], list[n])
           chosen == CHOOSE kept : kept = [n \in 0 .. N |-> body(kept, n)]
<1>0. ASSUME NEW kept
      PROVE  /\ body(kept, 0) = <<>>
             /\ \A n \in 1 .. N : body(kept, n) = Turn(n, kept[n - 1], list, kind)
  <2>1. \A n \in 1 .. N : n # 0
    BY <1>1
  <2> QED
    BY <2>1, Zenon DEF Turn
<1> HIDE DEF body
<1>10. f = [n \in 0 .. N |-> body(f, n)]
  <2>1. ASSUME NEW n \in 0 .. N PROVE f[n] = body(f, n)
    <3>1. n = 0 \/ n \in 1 .. N
      BY <1>1
    <3> QED
      BY <1>0, <1>7, <1>8, <3>1, Zenon
  <2> QED
    BY <1>7, <2>1, Zenon
<1>11. chosen = [n \in 0 .. N |-> body(chosen, n)]
  BY <1>10, Zenon
<1>12. Without(list, kind) = chosen[N]
  BY Zenon DEF Without, N, body
<1> HIDE DEF chosen
<1>13. chosen[0] = <<>> /\ \A n \in 1 .. N : chosen[n] = Turn(n, chosen[n - 1], list, kind)
  <2>1. 0 \in 0 .. N /\ \A n \in 1 .. N : n \in 0 .. N
    BY <1>1
  <2>2. \A n \in 0 .. N : chosen[n] = body(chosen, n)
    BY <1>11
  <2> QED
    BY <1>0, <2>1, <2>2, Zenon
<1> DEFINE A == {n \in Nat : n <= N => chosen[n] = f[n]}
<1>14. 0 \in A
  BY <1>7, <1>13
<1>15. ASSUME NEW n \in Nat, n \in A, n + 1 <= N PROVE chosen[n + 1] = f[n + 1]
  <2>1. n + 1 \in 1 .. N /\ (n + 1) - 1 = n /\ chosen[n] = f[n]
    BY <1>1, <1>15
  <2> QED
    BY <1>8, <1>13, <2>1
<1>16. \A n \in Nat : n \in A => n + 1 \in A
  BY <1>15
<1> HIDE DEF A
<1>17. chosen[N] = f[N]
  <2>1. N \in A
    BY <1>1, <1>14, <1>16, SetInduction
  <2> QED
    BY <1>1, <2>1 DEF A
<1> QED
  BY <1>9, <1>12, <1>17 DEF N

\* What the loop has kept after n turns comes from the first n traps, in their order.
KeptFrom(kept, list, kind, n) ==
    \A i \in 1 .. Len(kept[n]) : \E a \in 1 .. n :
        kept[n][i] = list[a] /\ list[a].kind # kind
KeptInOrder(kept, list, n) ==
    \A i, j \in 1 .. Len(kept[n]) : i < j =>
        \E a, b \in 1 .. n : a < b /\ kept[n][i] = list[a] /\ kept[n][j] = list[b]
KeptAll(kept, list, kind, n) ==
    (\A a \in 1 .. n : list[a].kind # kind) =>
        Len(kept[n]) = n /\ \A a \in 1 .. n : kept[n][a] = list[a]
KeptOk(kept, list, kind, n) ==
    /\ Len(kept[n]) <= n
    /\ KeptFrom(kept, list, kind, n)
    /\ KeptInOrder(kept, list, n)
    /\ KeptAll(kept, list, kind, n)

LEMMA KeptStep ==
    ASSUME NEW list \in Lists, NEW kind, NEW kept, Keeps(kept, list, kind),
           NEW n \in Nat, n + 1 <= Len(list), KeptOk(kept, list, kind, n)
    PROVE  KeptOk(kept, list, kind, n + 1)
<1> DEFINE old == kept[n]
           new == kept[n + 1]
           last == list[n + 1]
<1>1. /\ old \in Seq(Trap) /\ Len(old) \in Nat /\ last \in Trap
      /\ n + 1 \in 1 .. Len(list) /\ (n + 1) - 1 = n
  <2>1. n \in 0 .. Len(list) /\ n + 1 \in 1 .. Len(list) /\ (n + 1) - 1 = n
    BY ListTypes
  <2>2. kept \in [0 .. Len(list) -> Seq(Trap)]
    BY DEF Keeps
  <2>3. old \in Seq(Trap)
    BY <2>1, <2>2
  <2> QED
    BY <2>1, <2>3, ListTypes, LenProperties
<1>2. new = IF last.kind = kind THEN old ELSE Append(old, last)
  BY <1>1 DEF Keeps, Turn
<1>3. CASE last.kind = kind
  <2>1. new = old
    BY <1>2, <1>3
  <2> HIDE DEF old, new, last
  <2>2. Len(new) <= n + 1 /\ ~(\A a \in 1 .. n + 1 : list[a].kind # kind)
    BY <1>1, <1>3, <2>1 DEF KeptOk, old, last
  <2>3. \A a \in 1 .. n : a \in 1 .. n + 1
    OBVIOUS
  <2> QED
    BY <2>1, <2>2, <2>3 DEF KeptOk, KeptFrom, KeptInOrder, KeptAll, old, new
<1>4. CASE last.kind # kind
  <2>1. /\ Len(new) = Len(old) + 1 /\ new[Len(old) + 1] = last
        /\ \A i \in 1 .. Len(old) : new[i] = old[i]
    BY <1>1, <1>2, <1>4, AppendProperties
  <2>2. last = list[n + 1] /\ n + 1 \in 1 .. n + 1
    OBVIOUS
  <2>3. /\ Len(old) <= n
        /\ \A i \in 1 .. Len(old) : \E a \in 1 .. n : old[i] = list[a] /\ list[a].kind # kind
        /\ \A i, j \in 1 .. Len(old) : i < j =>
              \E a, b \in 1 .. n : a < b /\ old[i] = list[a] /\ old[j] = list[b]
        /\ (\A a \in 1 .. n : list[a].kind # kind) =>
              Len(old) = n /\ \A a \in 1 .. n : old[a] = list[a]
    BY DEF KeptOk, KeptFrom, KeptInOrder, KeptAll
  <2> HIDE DEF old, new, last
  <2>4. ASSUME NEW i \in 1 .. Len(new)
        PROVE  \E a \in 1 .. n + 1 : new[i] = list[a] /\ list[a].kind # kind
    <3>1. CASE i = Len(old) + 1
      BY <1>4, <2>1, <2>2, <3>1
    <3>2. CASE i # Len(old) + 1
      <4>1. i \in 1 .. Len(old)
        BY <1>1, <2>1, <3>2
      <4>2. PICK a \in 1 .. n : old[i] = list[a] /\ list[a].kind # kind
        BY <2>3, <4>1
      <4> QED
        BY <2>1, <4>1, <4>2
    <3> QED
      BY <3>1, <3>2
  <2>5. ASSUME NEW i \in 1 .. Len(new), NEW j \in 1 .. Len(new), i < j
        PROVE  \E a, b \in 1 .. n + 1 : a < b /\ new[i] = list[a] /\ new[j] = list[b]
    <3>1. i \in 1 .. Len(old) /\ new[i] = old[i]
      BY <1>1, <2>1, <2>5
    <3>2. CASE j = Len(old) + 1
      <4>1. PICK a \in 1 .. n : old[i] = list[a]
        BY <2>3, <3>1
      <4>2. a < n + 1 /\ a \in 1 .. n + 1 /\ new[j] = list[n + 1]
        BY <2>1, <2>2, <3>2
      <4> QED
        BY <2>2, <3>1, <4>1, <4>2
    <3>3. CASE j # Len(old) + 1
      <4>1. j \in 1 .. Len(old) /\ new[j] = old[j]
        BY <1>1, <2>1, <3>3
      <4>2. PICK a \in 1 .. n, b \in 1 .. n : a < b /\ old[i] = list[a] /\ old[j] = list[b]
        BY <2>3, <2>5, <3>1, <4>1
      <4> QED
        BY <3>1, <4>1, <4>2
    <3> QED
      BY <3>2, <3>3
  <2>6. ASSUME \A a \in 1 .. n + 1 : list[a].kind # kind
        PROVE  Len(new) = n + 1 /\ \A a \in 1 .. n + 1 : new[a] = list[a]
    <3>1. \A a \in 1 .. n : a \in 1 .. n + 1
      OBVIOUS
    <3>2. \A a \in 1 .. n : list[a].kind # kind
      BY <2>6, <3>1, Zenon
    <3>3. Len(old) = n /\ \A a \in 1 .. n : old[a] = list[a]
      BY <2>3, <3>2, Zenon
    <3>4. Len(new) = n + 1 /\ new[n + 1] = list[n + 1]
      BY <2>1, <2>2, <3>3
    <3>5. ASSUME NEW a \in 1 .. n + 1 PROVE new[a] = list[a]
      <4>1. CASE a = n + 1
        BY <3>4, <4>1
      <4>2. CASE a # n + 1
        <5>1. a \in 1 .. n
          BY <4>2
        <5> QED
          BY <2>1, <3>3, <5>1
      <4> QED
        BY <4>1, <4>2
    <3> QED
      BY <3>4, <3>5
  <2>7. Len(new) <= n + 1
    BY <1>1, <2>1, <2>3
  <2> QED
    BY <2>4, <2>5, <2>6, <2>7 DEF KeptOk, KeptFrom, KeptInOrder, KeptAll, new
<1> QED
  BY <1>3, <1>4

LEMMA FewerWithout ==
    ASSUME NEW list \in Lists, NEW kind
    PROVE  /\ Fewer(Without(list, kind), list)
           /\ \A i \in DOMAIN Without(list, kind) : Without(list, kind)[i].kind # kind
           /\ ~Has(list, kind) => Without(list, kind) = list
<1>1. PICK kept : Keeps(kept, list, kind) /\ Without(list, kind) = kept[Len(list)]
  BY WithoutLoop
<1>2. kept \in [0 .. Len(list) -> Seq(Trap)] /\ kept[0] = <<>> /\ Len(<<>>) = 0
  BY <1>1 DEF Keeps
<1> DEFINE A == {n \in Nat : n <= Len(list) => KeptOk(kept, list, kind, n)}
<1>3. 0 \in A
  BY <1>2 DEF KeptOk, KeptFrom, KeptInOrder, KeptAll
<1>4. \A n \in Nat : n \in A => n + 1 \in A
  BY <1>1, KeptStep, ListTypes
<1> HIDE DEF A
<1>5. KeptOk(kept, list, kind, Len(list))
  <2>1. Len(list) \in A /\ Len(list) \in Nat
    BY <1>3, <1>4, SetInduction, ListTypes
  <2> QED
    BY <2>1 DEF A
<1> DEFINE w == Without(list, kind)
<1>6. w \in Seq(Trap) /\ Len(w) <= Len(list)
  BY <1>1, <1>2, <1>5, ListTypes DEF KeptOk
<1>7. w \in Lists /\ DOMAIN w = 1 .. Len(w) /\ Len(w) \in Nat
  BY <1>6, ListTypes, TrapTypes DEF Lists
<1>8. \A i \in DOMAIN w : \E a \in DOMAIN list : w[i] = list[a] /\ list[a].kind # kind
  BY <1>1, <1>5, <1>7, ListTypes DEF KeptOk, KeptFrom
<1>9. \A i, j \in DOMAIN w : i < j =>
         \E a, b \in DOMAIN list : a # b /\ w[i] = list[a] /\ w[j] = list[b]
  <2> SUFFICES ASSUME NEW i \in DOMAIN w, NEW j \in DOMAIN w, i < j
               PROVE  \E a, b \in DOMAIN list : a # b /\ w[i] = list[a] /\ w[j] = list[b]
    OBVIOUS
  <2>1. i \in 1 .. Len(kept[Len(list)]) /\ j \in 1 .. Len(kept[Len(list)])
    BY <1>1, <1>7
  <2>2. PICK a \in 1 .. Len(list), b \in 1 .. Len(list) :
           a < b /\ kept[Len(list)][i] = list[a] /\ kept[Len(list)][j] = list[b]
    BY <1>5, <2>1 DEF KeptOk, KeptInOrder
  <2>3. a # b /\ a \in DOMAIN list /\ b \in DOMAIN list
    BY <2>2, ListTypes
  <2> QED
    BY <1>1, <2>2, <2>3
<1>10. ~Has(list, kind) => w = list
  <2> SUFFICES ASSUME ~Has(list, kind) PROVE w = list
    OBVIOUS
  <2>1. \A a \in 1 .. Len(list) : list[a].kind # kind
    BY ListTypes DEF Has
  <2>2. Len(w) = Len(list) /\ \A a \in 1 .. Len(list) : w[a] = list[a]
    BY <1>1, <1>5, <2>1 DEF KeptOk, KeptAll
  <2> QED
    BY <1>6, <2>2, ListTypes, SeqEqual
<1> HIDE DEF w
<1>11. ASSUME NEW i \in DOMAIN w, NEW j \in DOMAIN w
       PROVE  \E a, b \in DOMAIN list : /\ w[i].kind = list[a].kind
                                        /\ w[j].kind = list[b].kind /\ (i # j => a # b)
  <2>1. CASE i = j
    BY <1>8, <2>1
  <2>2. CASE i < j
    BY <1>9, <2>2
  <2>3. CASE j < i
    BY <1>9, <2>3
  <2> QED
    BY <1>7, <2>1, <2>2, <2>3
<1>12. Fewer(w, list)
  BY <1>7, <1>8, <1>11 DEF Fewer
<1> QED
  BY <1>8, <1>10, <1>12 DEF w

\* A trap is laid at the head of the list, where it may be noticed at once.
LEMMA LaidTypes ==
    ASSUME NEW under \in Lists, Len(under) < MaxLayers, NEW k \in Kinds,
           NEW l \in Revealed(<<New(k)>> \o under)
    PROVE  /\ <<New(k)>> \o under \in Lists
           /\ l \in Lists /\ DOMAIN l = 1 .. Len(under) + 1
           /\ l[1].kind = k /\ l[1].timeout = 0
           /\ \A i \in DOMAIN under : /\ l[i + 1].kind = under[i].kind
                                     /\ l[i + 1].timeout = under[i].timeout
<1> DEFINE new == <<New(k)>> \o under
<1>1. <<New(k)>> \in Seq(Trap) /\ Len(<<New(k)>>) = 1 /\ <<New(k)>>[1] = New(k)
  BY TrapTypes
<1>2. /\ new \in Seq(Trap) /\ Len(new) = 1 + Len(under)
      /\ \A i \in 1 .. 1 + Len(under) :
            new[i] = IF i <= 1 THEN <<New(k)>>[i] ELSE under[i - 1]
  BY <1>1, ListTypes, ConcatProperties
<1>3. new \in Lists /\ DOMAIN new = 1 .. Len(under) + 1
  BY <1>2, ListTypes, TrapTypes DEF Lists
<1>4. new[1] = New(k)
  BY <1>1, <1>2, ListTypes
<1>5. ASSUME NEW i \in DOMAIN under PROVE i + 1 \in DOMAIN new /\ new[i + 1] = under[i]
  <2>1. /\ i \in 1 .. Len(under) /\ Len(under) \in Nat /\ i + 1 \in 1 .. 1 + Len(under)
        /\ ~(i + 1 <= 1) /\ (i + 1) - 1 = i
    BY ListTypes
  <2> QED
    BY <1>2, <1>3, <2>1
<1> HIDE DEF new
<1>6. 1 \in DOMAIN new
  BY <1>3, ListTypes
<1>7. /\ l \in Lists /\ DOMAIN l = DOMAIN new
      /\ \A i \in DOMAIN new : l[i].kind = new[i].kind /\ l[i].timeout = new[i].timeout
  BY <1>3, RevealedTypes DEF new
<1> QED
  BY <1>3, <1>4, <1>5, <1>6, <1>7, TrapTypes DEF new

LEMMA TickedTypes ==
    ASSUME NEW list \in Lists
    PROVE  /\ Ticked(list) \in Lists /\ DOMAIN Ticked(list) = DOMAIN list
           /\ \A i \in DOMAIN list :
                 /\ Ticked(list)[i].kind = list[i].kind
                 /\ Ticked(list)[i].visible = list[i].visible
                 /\ list[i].timeout \in Nat
                 /\ Ticked(list)[i].timeout =
                       IF list[i].timeout > 0 THEN list[i].timeout - 1 ELSE 0
<1>1. ASSUME NEW t \in Trap
      PROVE  /\ t.timeout \in Nat
             /\ t.timeout > 0 =>
                   /\ [t EXCEPT !.timeout = @ - 1] \in Trap
                   /\ [t EXCEPT !.timeout = @ - 1].kind = t.kind
                   /\ [t EXCEPT !.timeout = @ - 1].visible = t.visible
                   /\ [t EXCEPT !.timeout = @ - 1].timeout = t.timeout - 1
  <2>1. t.kind \in Kinds /\ t.timeout \in 0 .. DisableTime /\ t.visible \in BOOLEAN
    BY TrapTypes
  <2>2. t.timeout > 0 => t.timeout - 1 \in 0 .. DisableTime
    BY <2>1, TrapTypes
  <2>3. t.timeout > 0 => [t EXCEPT !.timeout = @ - 1] \in Trap
    BY <2>1, <2>2, Zenon DEF Trap
  <2>4. /\ [t EXCEPT !.timeout = @ - 1].kind = t.kind
        /\ [t EXCEPT !.timeout = @ - 1].visible = t.visible
        /\ [t EXCEPT !.timeout = @ - 1].timeout = t.timeout - 1
    BY Zenon DEF Trap
  <2> QED
    BY <2>1, <2>3, <2>4, TrapTypes
<1>2. \A i \in DOMAIN list : list[i] \in Trap
  BY ListTypes
<1>3. /\ DOMAIN Ticked(list) = DOMAIN list
      /\ \A i \in DOMAIN list :
            Ticked(list)[i] = IF list[i].timeout > 0 THEN [list[i] EXCEPT !.timeout = @ - 1]
                              ELSE list[i]
  BY DEF Ticked
<1>4. \A i \in DOMAIN list : Ticked(list)[i] \in Trap
  BY <1>1, <1>2, <1>3, Zenon
<1>5. Ticked(list) \in Seq(Trap)
  <2>1. Ticked(list) = [i \in 1 .. Len(list) |-> Ticked(list)[i]]
    BY <1>3, ListTypes DEF Ticked
  <2>2. \A i \in 1 .. Len(list) : Ticked(list)[i] \in Trap
    BY <1>4, ListTypes
  <2> QED
    BY <2>1, <2>2, ListTypes
<1>6. Ticked(list) \in Lists
  BY <1>3, <1>5, ListTypes, LenProperties DEF Lists
<1>7. ASSUME NEW i \in DOMAIN list
      PROVE  /\ Ticked(list)[i].kind = list[i].kind
             /\ Ticked(list)[i].visible = list[i].visible
             /\ list[i].timeout \in Nat
             /\ Ticked(list)[i].timeout =
                   IF list[i].timeout > 0 THEN list[i].timeout - 1 ELSE 0
  <2>1. list[i] \in Trap /\ list[i].timeout \in Nat
    BY <1>1, <1>2
  <2>2. CASE list[i].timeout > 0
    BY <1>1, <1>3, <2>1, <2>2
  <2>3. CASE ~(list[i].timeout > 0)
    BY <1>3, <2>1, <2>3
  <2> QED
    BY <2>2, <2>3
<1> QED
  BY <1>3, <1>6, <1>7

LEMMA FewerTicked == ASSUME NEW list \in Lists PROVE Fewer(Ticked(list), list)
<1>1. \A i \in DOMAIN list : Ticked(list)[i].timeout > 0 => list[i].timeout > 0
  BY TickedTypes
<1> QED
  BY <1>1, TickedTypes DEF Fewer

\* The recount: it fits its bound, and is not 0 while a timer runs.
LEMMA TimedInCounts ==
    ASSUME NEW lists \in [Grids -> Lists]
    PROVE  /\ TimedIn(lists) \in 0 .. MaxTimed
           /\ \A g \in Grids : \A i \in DOMAIN lists[g] :
                 lists[g][i].timeout > 0 => TimedIn(lists) > 0
<1> DEFINE P == Grids \X (1 .. MaxLayers)
           S == {p \in P : p[2] \in DOMAIN lists[p[1]] /\ lists[p[1]][p[2]].timeout > 0}
<1>1. IsFiniteSet(1 .. MaxLayers) /\ Cardinality(1 .. MaxLayers) = MaxLayers
  BY TrapTypes, FS_Interval
<1>2. IsFiniteSet(P) /\ Cardinality(P) = Cardinality(Grids) * MaxLayers
  BY <1>1, ConstantsAssumption, FS_Product
<1>3. S \subseteq P
  OBVIOUS
<1> HIDE DEF P
<1>4. IsFiniteSet(S) /\ Cardinality(S) <= Cardinality(P)
  BY <1>2, <1>3, FS_Subset
<1>5. Cardinality(S) \in Nat /\ Cardinality(Grids) \in Nat /\ Cardinality(P) \in Nat
  BY <1>2, <1>4, ConstantsAssumption, FS_CardinalityType
<1>6. Cardinality(Grids) * MaxLayers = MaxLayers * Cardinality(Grids)
  BY <1>5, TrapTypes
<1>7. Cardinality(S) \in 0 .. MaxTimed
  BY <1>2, <1>4, <1>5, <1>6, ConstantsAssumption
<1>8. ASSUME NEW g \in Grids, NEW i \in DOMAIN lists[g], lists[g][i].timeout > 0
      PROVE  Cardinality(S) > 0
  <2>1. i \in 1 .. MaxLayers
    BY ListTypes, TrapTypes
  <2>2. <<g, i>> \in S
    BY <1>8, <2>1 DEF P
  <2>3. Cardinality(S) # 0
    BY <1>4, <2>2, FS_EmptySet
  <2> QED
    BY <1>5, <2>3
<1> QED
  BY <1>7, <1>8 DEF TimedIn, P

-----------------------------------------------------------------------------
(* What the steps do to the lists of a grid.                               *)

TypeInv ==
    /\ traps \in [Grids -> Lists] /\ known \in [Grids -> Lists]
    /\ seen \subseteq Grids
    /\ decoy \in Grids \cup {NoGrid}
    /\ timed_traps \in 0 .. MaxTimed
    /\ removal \in {"removed", "missed", "endless"}

\* The list of g becomes l, and is memorized, unless it stays out of view or is known.
OnGrid(g, l) ==
    /\ l \in Lists /\ SetTraps(g, l)
    /\ seen' \subseteq seen \cup {g} /\ seen' \subseteq Grids
    /\ \/ Memorize(g, l)
       \/ known' = known /\ (g \in seen' => g \in seen /\ l = traps[g])
    /\ removal' \in {"removed", "missed", "endless"}

Lessened(g, l) ==
    /\ OnGrid(g, l) /\ Fewer(l, traps[g]) /\ UNCHANGED timed_traps
    /\ \/ UNCHANGED decoy
       \/ decoy = g /\ decoy' = NoGrid /\ \A i \in DOMAIN l : l[i].kind # "decoy"

Laid(g, l) ==
    /\ OnGrid(g, l) /\ UNCHANGED timed_traps
    /\ \E k \in Kinds, under \in {traps[g], <<>>} :
          /\ Len(under) < MaxLayers /\ l \in Revealed(<<New(k)>> \o under)
          /\ k = "player" => under = <<>>
          /\ IF k = "decoy" THEN decoy = NoGrid /\ decoy' = g ELSE UNCHANGED decoy

Timed(g, l) ==
    /\ OnGrid(g, l) /\ DOMAIN l = DOMAIN traps[g] /\ UNCHANGED decoy
    /\ \A i \in DOMAIN l : l[i].kind = traps[g][i].kind
    /\ timed_traps' \in 0 .. MaxTimed /\ timed_traps' > 0

LEMMA NoChange == ASSUME TypeInv, NEW g \in Grids, UNCHANGED traps PROVE SetTraps(g, traps[g])
  BY DEF TypeInv, SetTraps

LEMMA SameAgain ==
    ASSUME NEW list \in Lists PROVE list \in Revealed(list)
  BY DEF Revealed

\* What hit_trap() leaves is a part of what was there, seen or not.
LEMMA HitEffect ==
    ASSUME TypeInv, NEW g \in Grids, HitTrap(g)
    PROVE  \E l : /\ Fewer(l, traps[g]) /\ SetTraps(g, l) /\ Memorize(g, l)
                  /\ removal' \in {"removed", "missed", "endless"}
<1>1. traps[g] \in Lists /\ removal \in {"removed", "missed", "endless"}
  BY DEF TypeInv
<1>2. CASE Memorize(g, traps[g]) /\ UNCHANGED <<traps, removal>>
  BY <1>1, <1>2, NoChange, FewerSame
<1>3. CASE SetTraps(g, <<>>) /\ Memorize(g, <<>>) /\ UNCHANGED removal
  BY <1>1, <1>3, FewerNone
<1>4. ASSUME NEW i \in DOMAIN traps[g],
             \/ /\ SetTraps(g, RemoveTrap(traps[g], i).list)
                /\ Memorize(g, RemoveTrap(traps[g], i).list)
                /\ removal' = RemoveTrap(traps[g], i).how
             \/ /\ SetTraps(g, [traps[g] EXCEPT ![i].visible = TRUE])
                /\ Memorize(g, [traps[g] EXCEPT ![i].visible = TRUE])
                /\ UNCHANGED removal
      PROVE  \E l : /\ Fewer(l, traps[g]) /\ SetTraps(g, l) /\ Memorize(g, l)
                    /\ removal' \in {"removed", "missed", "endless"}
  <2>1. traps[g] # <<>>
    BY <1>1, ListTypes
  <2> DEFINE shown == [traps[g] EXCEPT ![i].visible = TRUE]
  <2>2. Fewer(shown, traps[g])
    <3>1. /\ DOMAIN shown = DOMAIN traps[g]
          /\ \A j \in DOMAIN traps[g] :
                shown[j] = traps[g][j] \/ shown[j] = [traps[g][j] EXCEPT !.visible = TRUE]
      BY <1>1, ListTypes
    <3>2. \A j \in DOMAIN traps[g] : /\ shown[j] \in Trap
                                     /\ shown[j].kind = traps[g][j].kind
                                     /\ shown[j].timeout = traps[g][j].timeout
      BY <1>1, <3>1, ListTypes, TrapTypes
    <3>3. shown \in Seq(Trap)
      <4>1. shown = [j \in 1 .. Len(traps[g]) |-> shown[j]]
        BY <1>1, <3>1, ListTypes
      <4>2. Len(traps[g]) \in Nat /\ \A j \in 1 .. Len(traps[g]) : shown[j] \in Trap
        BY <1>1, <3>2, ListTypes
      <4> HIDE DEF shown
      <4> QED
        BY <4>1, <4>2
    <3> HIDE DEF shown
    <3> QED
      BY <1>1, <3>1, <3>2, <3>3, FewerShown
  <2> QED
    BY <1>1, <1>4, <2>1, <2>2, FewerRemoved
<1> QED
  BY <1>2, <1>3, <1>4 DEF HitTrap

LEMMA RemovingEffect ==
    ASSUME TypeInv, NEW g \in Grids,
           \/ RemoveKind(g, "glyph") \/ RemoveKind(g, "web") \/ SetFeat(g) \/ Hit(g)
           \/ Disarm(g) \/ Look(g) \/ LookAway(g)
    PROVE  \E l : Lessened(g, l)
<1>1. traps[g] \in Lists /\ seen \subseteq Grids /\ removal \in {"removed", "missed", "endless"}
  BY DEF TypeInv
<1>2. ASSUME NEW kind, RemoveKind(g, kind) PROVE \E l : Lessened(g, l)
  <2>1. Fewer(Without(traps[g], kind), traps[g])
    BY <1>1, FewerWithout
  <2> QED
    BY <1>1, <1>2, <2>1 DEF RemoveKind, MemorizeIf, Lessened, OnGrid, Fewer
<1>3. CASE SetFeat(g)
  BY <1>1, <1>3, FewerNone DEF SetFeat, MemorizeIf, Lessened, OnGrid, Fewer
<1>4. CASE Hit(g)
  BY <1>1, <1>4, HitEffect DEF Hit, Lessened, OnGrid, Fewer
<1>5. CASE Disarm(g)
  <2>1. CASE HitTrap(g)
    BY <1>1, <1>5, <2>1, HitEffect DEF Disarm, Lessened, OnGrid, Fewer
  <2>2. CASE Memorize(g, traps[g]) /\ UNCHANGED <<traps, removal>>
    BY <1>1, <1>5, <2>2, NoChange, FewerSame DEF Disarm, Lessened, OnGrid
  <2>3. ASSUME Disarmable(traps[g]), NEW i,
               /\ SetTraps(g, RemoveTrap(traps[g], i).list)
               /\ removal' = RemoveTrap(traps[g], i).how
               /\ MemorizeIf(RemoveTrap(traps[g], i).how = "removed" /\ g \in seen,
                             g, RemoveTrap(traps[g], i).list)
        PROVE  \E l : Lessened(g, l)
    <3>1. traps[g] # <<>>
      BY <1>1, <2>3, ListTypes DEF Disarmable, Visible
    <3> QED
      BY <1>1, <1>5, <2>3, <3>1, FewerRemoved
         DEF Disarm, MemorizeIf, Lessened, OnGrid, Fewer
  <2> QED
    BY <1>5, <2>1, <2>2, <2>3 DEF Disarm
<1>6. CASE Look(g)
  <2>1. PICK l \in Revealed(traps[g]) :
           /\ SetTraps(g, l) /\ MemorizeIf(g \notin seen \/ l # traps[g], g, l)
    BY <1>1, <1>6, SameAgain DEF Look
  <2>2. Fewer(l, traps[g])
    BY <1>1, <2>1, FewerRevealed
  <2> QED
    BY <1>1, <1>6, <2>1, <2>2 DEF Look, MemorizeIf, Lessened, OnGrid, Fewer
<1>7. CASE LookAway(g)
  BY <1>1, <1>7, NoChange, FewerSame DEF LookAway, Lessened, OnGrid
<1> QED
  BY <1>2, <1>3, <1>4, <1>5, <1>6, <1>7

LEMMA DecoyEffect ==
    ASSUME TypeInv, DestroyDecoy PROVE decoy \in Grids /\ \E l : Lessened(decoy, l)
<1>1. decoy \in Grids /\ traps[decoy] \in Lists
  BY DEF TypeInv, DestroyDecoy
<1>2. /\ Fewer(Without(traps[decoy], "decoy"), traps[decoy])
      /\ \A i \in DOMAIN Without(traps[decoy], "decoy") :
            Without(traps[decoy], "decoy")[i].kind # "decoy"
      /\ ~Has(traps[decoy], "decoy") => Without(traps[decoy], "decoy") = traps[decoy]
  BY <1>1, FewerWithout
<1> QED
  BY <1>1, <1>2 DEF DestroyDecoy, MemorizeIf, Lessened, OnGrid, Fewer, TypeInv

LEMMA LayingEffect ==
    ASSUME TypeInv, NEW g \in Grids,
           MakeTrap(g) \/ AddWeb(g) \/ Glyph(g, "glyph") \/ Glyph(g, "decoy")
    PROVE  \E l : Laid(g, l)
<1>1. /\ traps[g] \in Lists /\ <<>> \in Lists /\ seen \subseteq Grids
      /\ removal \in {"removed", "missed", "endless"} /\ Len(<<>>) < MaxLayers
  BY TrapTypes DEF TypeInv, Lists
<1>2. /\ "player" \in Kinds /\ "glyph" \in Kinds /\ "decoy" \in Kinds /\ "web" \in Kinds
  BY DEF Kinds
<1>3. \A k \in Kinds : <<New(k)>> = <<New(k)>> \o <<>>
  BY TrapTypes, ConcatEmptySeq
<1>4. CASE MakeTrap(g)
  <2>1. PICK l \in Revealed(<<New("player")>>) :
           SetTraps(g, l) /\ MemorizeIf(g \in seen \/ Visible(l), g, l)
    BY <1>4 DEF MakeTrap
  <2>2. l \in Revealed(<<New("player")>> \o <<>>)
    BY <1>2, <1>3, <2>1
  <2>3. l \in Lists
    BY <1>1, <1>2, <2>2, LaidTypes
  <2> QED
    BY <1>1, <1>2, <1>4, <2>1, <2>2, <2>3 DEF MakeTrap, MemorizeIf, Laid, OnGrid
<1>5. ASSUME NEW k \in Kinds, NEW under \in {traps[g], <<>>}, Len(under) < MaxLayers,
             NEW stands, NoteSpot(g, <<New(k)>> \o under, stands), k # "player",
             UNCHANGED <<seen, timed_traps, removal>>,
             IF k = "decoy" THEN decoy = NoGrid /\ decoy' = g ELSE UNCHANGED decoy
      PROVE  \E l : Laid(g, l)
  <2> DEFINE new == <<New(k)>> \o under
  <2>1. under \in Lists
    BY <1>1
  <2>2. new \in Lists /\ new \in Revealed(new)
    BY <1>5, <2>1, LaidTypes DEF Revealed
  <2> HIDE DEF new
  <2>3. NoteSpot(g, new, stands)
    BY <1>5 DEF new
  <2>4. PICK l \in Revealed(new) :
           SetTraps(g, l) /\ (Memorize(g, l) \/ (g \notin seen /\ UNCHANGED known))
    BY <2>2, <2>3 DEF NoteSpot
  <2>5. l \in Lists
    BY <2>2, <2>4, RevealedTypes
  <2> QED
    BY <1>1, <1>5, <2>4, <2>5 DEF Laid, OnGrid, new
<1>6. CASE AddWeb(g)
  BY <1>1, <1>2, <1>3, <1>5, <1>6 DEF AddWeb
<1>7. ASSUME NEW type \in {"glyph", "decoy"}, Glyph(g, type) PROVE \E l : Laid(g, l)
  BY <1>2, <1>5, <1>7 DEF Glyph
<1> QED
  BY <1>4, <1>6, <1>7

LEMMA DisableEffect ==
    ASSUME TypeInv, NEW g \in Grids, Disable(g) PROVE \E l : Timed(g, l)
<1> DEFINE old == traps[g]
           l == [i \in DOMAIN old |-> [old[i] EXCEPT !.timeout = DisableTime]]
<1>1. old \in Lists /\ removal \in {"removed", "missed", "endless"} /\ seen \subseteq Grids
      /\ timed_traps \in 0 .. MaxTimed /\ MaxTimed \in Nat
  BY ConstantsAssumption DEF TypeInv
<1>2. Len(old) > 0
  BY <1>1, ListTypes DEF Disable, Disarmable, Visible
<1>3. /\ DOMAIN l = DOMAIN old
      /\ \A i \in DOMAIN old : l[i] \in Trap /\ l[i].kind = old[i].kind
  BY <1>1, ListTypes, TrapTypes
<1>4. l \in Lists
  <2>1. l = [i \in 1 .. Len(old) |-> l[i]]
    BY <1>1, ListTypes
  <2>2. Len(old) \in Nat /\ \A i \in 1 .. Len(old) : l[i] \in Trap
    BY <1>1, <1>3, ListTypes
  <2> HIDE DEF l
  <2>3. l \in Seq(Trap)
    BY <2>1, <2>2
  <2> QED
    BY <1>1, <1>3, <2>3, ListTypes, LenProperties DEF Lists
<1>5. SetTraps(g, l) /\ MemorizeIf(g \in seen, g, l)
  BY DEF Disable
<1> HIDE DEF l
<1>6. timed_traps' \in 0 .. MaxTimed /\ timed_traps' > 0
  BY <1>1, <1>2, ListTypes DEF Disable
<1> QED
  BY <1>1, <1>3, <1>4, <1>5, <1>6 DEF Disable, MemorizeIf, Timed, OnGrid

\* Every step but a sweep and a reload changes the list of one grid.
LEMMA Steps ==
    ASSUME TypeInv, Next
    PROVE  \/ Sweep \/ Reload
           \/ \E g \in Grids : \E l : Lessened(g, l) \/ Laid(g, l) \/ Timed(g, l)
  BY RemovingEffect, DecoyEffect, LayingEffect, DisableEffect DEF Next

-----------------------------------------------------------------------------
(* The invariants.                                                         *)

LEMMA RememberedTypes ==
    ASSUME NEW list \in Lists PROVE Remembered(list) \in Lists
  BY FewerNone DEF Remembered, Fewer

LEMMA SomeTimed == 1 \in 0 .. MaxTimed
<1>1. Cardinality(Grids) \in Nat /\ Cardinality(Grids) # 0
  BY ConstantsAssumption, FS_EmptySet, FS_CardinalityType
<1>2. MaxLayers * Cardinality(Grids) >= 1
  BY <1>1, TrapTypes
<1>3. MaxLayers * Cardinality(Grids) \in Nat
  BY <1>1, TrapTypes
<1> QED
  BY <1>2, <1>3, ConstantsAssumption

LEMMA TypeInit == Init => TypeInv
<1> SUFFICES ASSUME Init PROVE TypeInv
  OBVIOUS
<1>1. <<>> \in Lists
  BY TrapTypes DEF Lists
<1> QED
  BY <1>1, SomeTimed DEF Init, TypeInv

LEMMA TypeStep == TypeInv /\ [Next]_vars => TypeInv'
<1> SUFFICES ASSUME TypeInv, [Next]_vars PROVE TypeInv'
  OBVIOUS
<1>1. CASE UNCHANGED vars
  BY <1>1 DEF vars, TypeInv
<1>2. ASSUME NEW g \in Grids, NEW l, OnGrid(g, l)
      PROVE  /\ traps' \in [Grids -> Lists] /\ known' \in [Grids -> Lists]
             /\ seen' \subseteq Grids /\ removal' \in {"removed", "missed", "endless"}
  <2>1. l \in Lists /\ Remembered(l) \in Lists
    BY <1>2, RememberedTypes DEF OnGrid
  <2> QED
    BY <1>2, <2>1 DEF OnGrid, SetTraps, Memorize, TypeInv
<1>3. ASSUME NEW g \in Grids, NEW l, Lessened(g, l) \/ Laid(g, l) \/ Timed(g, l)
      PROVE  TypeInv'
  <2>1. OnGrid(g, l)
    BY <1>3 DEF Lessened, Laid, Timed
  <2>2. decoy' \in Grids \cup {NoGrid} /\ timed_traps' \in 0 .. MaxTimed
    BY <1>3 DEF Lessened, Laid, Timed, TypeInv
  <2> QED
    BY <1>2, <2>1, <2>2 DEF TypeInv
<1>4. CASE Sweep
  <2>1. traps' \in [Grids -> Lists]
    BY <1>4, TickedTypes DEF Sweep, TypeInv
  <2>2. \A g \in Grids : Remembered(traps'[g]) \in Lists
    BY <2>1, RememberedTypes
  <2>3. known' \in [Grids -> Lists]
    BY <1>4, <2>2 DEF Sweep, TypeInv
  <2>4. timed_traps' \in 0 .. MaxTimed
    BY <1>4, <2>1, TimedInCounts DEF Sweep
  <2> QED
    BY <1>4, <2>1, <2>3, <2>4 DEF Sweep, TypeInv
<1>5. CASE Reload
  <2>1. \A list \in Lists : Reverse(list) \in Lists
    BY FewerReverse DEF Fewer
  <2>2. traps' \in [Grids -> Lists] /\ known' \in [Grids -> Lists]
    BY <1>5, <2>1 DEF Reload, TypeInv
  <2>3. decoy' \in Grids \cup {NoGrid}
    BY <1>5 DEF Reload
  <2>4. timed_traps' \in 0 .. MaxTimed
    BY <1>5, SomeTimed DEF Reload
  <2> QED
    BY <1>5, <2>2, <2>3, <2>4 DEF Reload, TypeInv
<1> QED
  BY <1>1, <1>3, <1>4, <1>5, Steps

LEMMA TypeAlways == Spec => []TypeInv
  BY TypeInit, TypeStep, PTL DEF Spec

\* Whatever is laid, removed, noticed and counted, each list holds traps and the
\* count of the timers stays within what the grids can hold.
THEOREM TypeCorrect == Spec => []TypeOK
<1>1. ASSUME TypeInv PROVE TypeOK
  <2>1. \A g \in Grids : traps[g] \in Lists /\ known[g] \in Lists
    BY <1>1 DEF TypeInv
  <2>2. \A g \in Grids : \A t \in ToSet(traps[g]) \cup ToSet(known[g]) : t \in Trap
    BY <2>1, ListTypes
  <2> QED
    BY <1>1, <2>2 DEF TypeInv, TypeOK
<1> QED
  BY <1>1, TypeAlways, PTL

AtMostOne(list, kind) ==
    \A i, j \in DOMAIN list : list[i].kind = kind /\ list[j].kind = kind => i = j
HasOne(list, kind) == \E i \in DOMAIN list : list[i].kind = kind

LEMMA NoneOf ==
    <<>> \in Lists /\ \A kind : AtMostOne(<<>>, kind) /\ ~HasOne(<<>>, kind)
  BY TrapTypes DEF Lists, AtMostOne, HasOne

LEMMA FewerKeeps ==
    ASSUME NEW new, NEW old, Fewer(new, old), NEW kind
    PROVE  /\ AtMostOne(old, kind) => AtMostOne(new, kind)
           /\ HasOne(new, kind) => HasOne(old, kind)
  BY DEF Fewer, AtMostOne, HasOne

LEMMA LaidKeeps ==
    ASSUME NEW under \in Lists, Len(under) < MaxLayers, NEW k \in Kinds,
           NEW l \in Revealed(<<New(k)>> \o under), NEW kind
    PROVE  /\ k # kind /\ AtMostOne(under, kind) => AtMostOne(l, kind)
           /\ k = kind /\ ~HasOne(under, kind) => AtMostOne(l, kind)
           /\ k # kind /\ HasOne(l, kind) => HasOne(under, kind)
<1>1. /\ DOMAIN l = 1 .. Len(under) + 1 /\ l[1].kind = k
      /\ \A i \in DOMAIN under : l[i + 1].kind = under[i].kind
  BY LaidTypes
<1>2. ASSUME NEW i \in DOMAIN l, i # 1
      PROVE  i - 1 \in DOMAIN under /\ l[i].kind = under[i - 1].kind
  <2>1. i - 1 \in DOMAIN under /\ (i - 1) + 1 = i
    BY <1>1, <1>2, ListTypes
  <2> QED
    BY <1>1, <2>1
<1>3. \A i, j \in DOMAIN l : i - 1 = j - 1 => i = j
  BY <1>1, ListTypes
<1>4. ASSUME k # kind, AtMostOne(under, kind), NEW i \in DOMAIN l, NEW j \in DOMAIN l,
             l[i].kind = kind, l[j].kind = kind
      PROVE  i = j
  <2>1. i # 1 /\ j # 1
    BY <1>1, <1>4
  <2> QED
    BY <1>2, <1>3, <1>4, <2>1 DEF AtMostOne
<1>5. ASSUME ~HasOne(under, kind), NEW i \in DOMAIN l, NEW j \in DOMAIN l,
             l[i].kind = kind, l[j].kind = kind
      PROVE  i = j
  <2>1. i = 1 /\ j = 1
    BY <1>2, <1>5 DEF HasOne
  <2> QED
    BY <2>1
<1>6. ASSUME k # kind, HasOne(l, kind) PROVE HasOne(under, kind)
  <2>1. PICK i \in DOMAIN l : l[i].kind = kind
    BY <1>6 DEF HasOne
  <2>2. i # 1
    BY <1>1, <1>6, <2>1
  <2> QED
    BY <1>2, <2>1, <2>2 DEF HasOne
<1>7. k # kind /\ AtMostOne(under, kind) => AtMostOne(l, kind)
  BY <1>4 DEF AtMostOne
<1>8. ~HasOne(under, kind) => AtMostOne(l, kind)
  BY <1>5 DEF AtMostOne
<1> QED
  BY <1>6, <1>7, <1>8

\* A set whose members are all the same.
LEMMA OneMember ==
    ASSUME NEW S, \A x, y \in S : x = y
    PROVE  Cardinality(S) <= 1 /\ (S # {} => Cardinality(S) = 1)
<1>1. CASE S = {}
  BY <1>1, FS_EmptySet
<1>2. CASE S # {}
  <2>1. PICK x \in S : S = {x}
    BY <1>2
  <2>2. Cardinality(S) = 1
    BY <2>1, FS_Singleton
  <2> QED
    BY <1>2, <2>2
<1> QED
  BY <1>1, <1>2

\* A player trap is laid on a grid without traps only, and everything else that is
\* done to a list leaves no more of them than there were.
PlayerInv == \A g \in Grids : AtMostOne(traps[g], "player")

LEMMA PlayerStep == TypeInv /\ PlayerInv /\ [Next]_vars => PlayerInv'
<1> SUFFICES ASSUME TypeInv, PlayerInv, [Next]_vars PROVE PlayerInv'
  OBVIOUS
<1>0. \A g \in Grids : traps[g] \in Lists
  BY DEF TypeInv
<1>1. CASE UNCHANGED vars
  BY <1>1 DEF vars, PlayerInv
<1>2. ASSUME NEW g \in Grids, NEW l, SetTraps(g, l), AtMostOne(l, "player")
      PROVE  PlayerInv'
  BY <1>2 DEF PlayerInv, SetTraps, TypeInv
<1>3. ASSUME NEW g \in Grids, NEW l, Lessened(g, l) PROVE PlayerInv'
  BY <1>2, <1>3, FewerKeeps DEF Lessened, OnGrid, PlayerInv
<1>4. ASSUME NEW g \in Grids, NEW l, Laid(g, l) PROVE PlayerInv'
  <2>1. PICK k \in Kinds, under \in {traps[g], <<>>} :
           /\ Len(under) < MaxLayers /\ l \in Revealed(<<New(k)>> \o under)
           /\ k = "player" => under = <<>>
    BY <1>4 DEF Laid
  <2>2. under \in Lists /\ AtMostOne(under, "player")
    <3>1. CASE under = traps[g]
      BY <1>0, <3>1 DEF PlayerInv
    <3>2. CASE under = <<>>
      BY <3>2, NoneOf
    <3> QED
      BY <2>1, <3>1, <3>2
  <2>3. AtMostOne(l, "player")
    BY <2>1, <2>2, LaidKeeps, NoneOf
  <2> QED
    BY <1>2, <1>4, <2>3 DEF Laid, OnGrid
<1>5. ASSUME NEW g \in Grids, NEW l, Timed(g, l) PROVE PlayerInv'
  <2>1. AtMostOne(l, "player")
    BY <1>5 DEF Timed, AtMostOne, PlayerInv
  <2> QED
    BY <1>2, <1>5, <2>1 DEF Timed, OnGrid
<1>6. CASE Sweep
  BY <1>0, <1>6, FewerTicked, FewerKeeps DEF Sweep, PlayerInv
<1>7. CASE Reload
  BY <1>0, <1>7, FewerReverse, FewerKeeps DEF Reload, PlayerInv
<1> QED
  BY <1>1, <1>3, <1>4, <1>5, <1>6, <1>7, Steps

\* No sequence of layings, removals, noticings and reloads puts two traps that go off
\* on one grid, so hit_trap() never holds a trap that its own effect may free.
THEOREM OnePlayerTrapAlways == Spec => []OnePlayerTrap
<1>1. Init => PlayerInv
  BY DEF Init, PlayerInv, AtMostOne
<1>2. ASSUME PlayerInv PROVE OnePlayerTrap
  <2> SUFFICES ASSUME NEW g \in Grids
               PROVE  Cardinality({i \in DOMAIN traps[g] : traps[g][i].kind = "player"}) <= 1
    BY DEF OnePlayerTrap
  <2> DEFINE S == {i \in DOMAIN traps[g] : traps[g][i].kind = "player"}
  <2>1. \A x, y \in S : x = y
    BY <1>2 DEF PlayerInv, AtMostOne
  <2> HIDE DEF S
  <2>2. Cardinality(S) <= 1
    BY <2>1, OneMember
  <2> QED
    BY <2>2 DEF S
<1> QED
  BY <1>1, <1>2, TypeAlways, PlayerStep, PTL DEF Spec

\* A decoy is laid when chunk->decoy says that there is none, and no decoy goes but by
\* the way that empties chunk->decoy.
DecoyInv ==
    \A g \in Grids : /\ AtMostOne(traps[g], "decoy")
                     /\ HasOne(traps[g], "decoy") => decoy = g

LEMMA DecoyStep == TypeInv /\ DecoyInv /\ [Next]_vars => DecoyInv'
<1> SUFFICES ASSUME TypeInv, DecoyInv, [Next]_vars PROVE DecoyInv'
  OBVIOUS
<1>0. \A g \in Grids : traps[g] \in Lists
  BY DEF TypeInv
<1>1. CASE UNCHANGED vars
  BY <1>1 DEF vars, DecoyInv
<1>2. ASSUME NEW g \in Grids, NEW l, SetTraps(g, l), AtMostOne(l, "decoy"),
             HasOne(l, "decoy") => decoy' = g,
             \A h \in Grids \ {g} : HasOne(traps[h], "decoy") => decoy' = h
      PROVE  DecoyInv'
  BY <1>2 DEF DecoyInv, SetTraps, TypeInv
<1>3. ASSUME NEW g \in Grids, NEW l, Lessened(g, l) PROVE DecoyInv'
  <2>1. /\ AtMostOne(l, "decoy") /\ (HasOne(l, "decoy") => decoy = g)
        /\ SetTraps(g, l)
    BY <1>3, FewerKeeps DEF Lessened, OnGrid, DecoyInv
  <2>2. CASE UNCHANGED decoy
    BY <1>2, <2>1, <2>2 DEF DecoyInv
  <2>3. CASE decoy = g /\ \A i \in DOMAIN l : l[i].kind # "decoy"
    <3>1. ~HasOne(l, "decoy") /\ \A h \in Grids \ {g} : ~HasOne(traps[h], "decoy")
      BY <2>3 DEF HasOne, DecoyInv
    <3> QED
      BY <1>2, <2>1, <3>1
  <2> QED
    BY <1>3, <2>2, <2>3 DEF Lessened
<1>4. ASSUME NEW g \in Grids, NEW l, Laid(g, l) PROVE DecoyInv'
  <2>1. PICK k \in Kinds, under \in {traps[g], <<>>} :
           /\ Len(under) < MaxLayers /\ l \in Revealed(<<New(k)>> \o under)
           /\ IF k = "decoy" THEN decoy = NoGrid /\ decoy' = g ELSE UNCHANGED decoy
    BY <1>4 DEF Laid
  <2>2. under \in Lists /\ AtMostOne(under, "decoy") /\ (HasOne(under, "decoy") => decoy = g)
    <3>1. CASE under = traps[g]
      BY <1>0, <3>1 DEF DecoyInv
    <3>2. CASE under = <<>>
      BY <3>2, NoneOf
    <3> QED
      BY <2>1, <3>1, <3>2
  <2>3. SetTraps(g, l)
    BY <1>4 DEF Laid, OnGrid
  <2>4. CASE k = "decoy"
    <3>1. ~HasOne(under, "decoy") /\ \A h \in Grids : ~HasOne(traps[h], "decoy")
      BY <2>1, <2>2, <2>4, ConstantsAssumption DEF DecoyInv
    <3>2. AtMostOne(l, "decoy")
      BY <2>1, <2>2, <2>4, <3>1, LaidKeeps
    <3> QED
      BY <1>2, <2>1, <2>3, <2>4, <3>1, <3>2
  <2>5. CASE k # "decoy"
    <3>1. AtMostOne(l, "decoy") /\ (HasOne(l, "decoy") => HasOne(under, "decoy"))
      BY <2>1, <2>2, <2>5, LaidKeeps
    <3> QED
      BY <1>2, <2>1, <2>2, <2>3, <2>5, <3>1 DEF DecoyInv
  <2> QED
    BY <2>4, <2>5
<1>5. ASSUME NEW g \in Grids, NEW l, Timed(g, l) PROVE DecoyInv'
  <2>1. AtMostOne(l, "decoy") /\ (HasOne(l, "decoy") => HasOne(traps[g], "decoy"))
    BY <1>5 DEF Timed, AtMostOne, HasOne, DecoyInv
  <2> QED
    BY <1>2, <1>5, <2>1 DEF Timed, OnGrid, DecoyInv
<1>6. CASE Sweep
  BY <1>0, <1>6, FewerTicked, FewerKeeps DEF Sweep, DecoyInv
<1>7. CASE Reload
  <2> SUFFICES ASSUME NEW g \in Grids
               PROVE  /\ AtMostOne(traps'[g], "decoy")
                      /\ HasOne(traps'[g], "decoy") => decoy' = g
    BY DEF DecoyInv
  <2>1. AtMostOne(traps'[g], "decoy") /\ (HasOne(traps'[g], "decoy") => HasOne(traps[g], "decoy"))
    BY <1>0, <1>7, FewerReverse, FewerKeeps DEF Reload, DecoyInv
  <2>2. \A h \in Grids : Has(traps[h], "decoy") <=> HasOne(traps[h], "decoy")
    BY <1>0, ListTypes DEF Has, HasOne
  <2>3. ASSUME HasOne(traps[g], "decoy") PROVE decoy' = g
    <3>1. decoy' \in {h \in Grids : Has(traps[h], "decoy")}
      BY <1>7, <2>2, <2>3 DEF Reload
    <3> QED
      BY <2>2, <2>3, <3>1 DEF DecoyInv
  <2> QED
    BY <2>1, <2>3
<1> QED
  BY <1>1, <1>3, <1>4, <1>5, <1>6, <1>7, Steps

\* "Only one decoy at a time": monsters look for it where chunk->decoy says, and there
\* it is, through every saving and loading of the level.
THEOREM OneDecoyAlways == Spec => []OneDecoyTracked
<1>1. Init => DecoyInv
  BY DEF Init, DecoyInv, AtMostOne, HasOne
<1>2. ASSUME DecoyInv PROVE OneDecoyTracked
  <2> DEFINE decoys(g) == {i \in DOMAIN traps[g] : traps[g][i].kind = "decoy"}
  <2> SUFFICES ASSUME NEW g \in Grids, decoys(g) # {}
               PROVE  decoy = g /\ Cardinality(decoys(g)) = 1
    BY DEF OneDecoyTracked
  <2>1. decoy = g /\ \A x, y \in decoys(g) : x = y
    BY <1>2 DEF DecoyInv, AtMostOne, HasOne
  <2> HIDE DEF decoys
  <2> QED
    BY <2>1, OneMember
<1> QED
  BY <1>1, <1>2, TypeAlways, DecoyStep, PTL DEF Spec

-----------------------------------------------------------------------------
\* A timer starts with the bound above 0, and only the recount and the loading, which
\* sets it to 1, lower the bound.
TimerInv ==
    \A g \in Grids : \A i \in DOMAIN traps[g] : traps[g][i].timeout > 0 => timed_traps > 0

LEMMA TimerStep == TypeInv /\ TimerInv /\ [Next]_vars => TimerInv'
<1> SUFFICES ASSUME TypeInv, TimerInv, [Next]_vars PROVE TimerInv'
  OBVIOUS
<1>0. traps \in [Grids -> Lists] /\ \A g \in Grids : traps[g] \in Lists
  BY DEF TypeInv
<1>1. CASE UNCHANGED vars
  BY <1>1 DEF vars, TimerInv
<1>2. ASSUME NEW g \in Grids, NEW l, SetTraps(g, l), UNCHANGED timed_traps,
             \A i \in DOMAIN l : l[i].timeout > 0 => timed_traps > 0
      PROVE  TimerInv'
  BY <1>2 DEF TimerInv, SetTraps, TypeInv
<1>3. ASSUME NEW g \in Grids, NEW l, Lessened(g, l) PROVE TimerInv'
  BY <1>2, <1>3 DEF Lessened, OnGrid, Fewer, TimerInv
<1>4. ASSUME NEW g \in Grids, NEW l, Laid(g, l) PROVE TimerInv'
  <2>1. PICK k \in Kinds, under \in {traps[g], <<>>} :
           Len(under) < MaxLayers /\ l \in Revealed(<<New(k)>> \o under)
    BY <1>4 DEF Laid
  <2>2. under \in Lists /\ \A i \in DOMAIN under : under[i].timeout > 0 => timed_traps > 0
    <3>1. CASE under = traps[g]
      BY <1>0, <3>1 DEF TimerInv
    <3>2. CASE under = <<>>
      BY <3>2, NoneOf
    <3> QED
      BY <2>1, <3>1, <3>2
  <2>3. /\ DOMAIN l = 1 .. Len(under) + 1 /\ l[1].timeout = 0
        /\ \A i \in DOMAIN under : l[i + 1].timeout = under[i].timeout
    BY <2>1, <2>2, LaidTypes
  <2>4. ASSUME NEW i \in DOMAIN l, l[i].timeout > 0 PROVE timed_traps > 0
    <3>1. i - 1 \in DOMAIN under /\ (i - 1) + 1 = i
      BY <2>2, <2>3, <2>4, ListTypes
    <3> QED
      BY <2>2, <2>3, <2>4, <3>1
  <2> QED
    BY <1>2, <1>4, <2>4 DEF Laid, OnGrid
<1>5. ASSUME NEW g \in Grids, NEW l, Timed(g, l) PROVE TimerInv'
  BY <1>5 DEF Timed, TimerInv
<1>6. CASE Sweep
  <2>1. traps' \in [Grids -> Lists]
    BY <1>0, <1>6, TickedTypes DEF Sweep
  <2> QED
    BY <1>6, <2>1, TimedInCounts DEF Sweep, TimerInv
<1>7. CASE Reload
  BY <1>7 DEF Reload, TimerInv
<1> QED
  BY <1>1, <1>3, <1>4, <1>5, <1>6, <1>7, Steps

\* process_world() never skips its sweep while a disabled trap waits for it.
THEOREM NoTimerEverSkipped == Spec => []NoTimerSkipped
<1>1. Init => TimerInv
  BY DEF Init, TimerInv
<1>2. ASSUME TypeInv, TimerInv PROVE NoTimerSkipped
  <2>1. \A g \in Grids : traps[g] \in Lists
    BY <1>2 DEF TypeInv
  <2> QED
    BY <1>2, <2>1, ListTypes DEF TimerInv, NoTimerSkipped
<1> QED
  BY <1>1, <1>2, TypeAlways, TimerStep, PTL DEF Spec

-----------------------------------------------------------------------------
\* What a player can tell of two lists.
SameLook(a, b) ==
    /\ DOMAIN a = DOMAIN b
    /\ \A i \in DOMAIN a : /\ a[i].kind = b[i].kind /\ a[i].visible = b[i].visible
                           /\ (a[i].timeout > 0) = (b[i].timeout > 0)

Looks(t) == [kind |-> t.kind, visible |-> t.visible, disabled |-> t.timeout > 0]

LEMMA LooksEqual ==
    ASSUME NEW t \in Trap, NEW u \in Trap
    PROVE  Looks(t) = Looks(u) <=> /\ t.kind = u.kind /\ t.visible = u.visible
                                   /\ (t.timeout > 0) = (u.timeout > 0)
<1>1. /\ Looks(t).kind = t.kind /\ Looks(t).visible = t.visible
      /\ Looks(t).disabled = (t.timeout > 0)
  BY Zenon DEF Looks
<1>2. /\ Looks(u).kind = u.kind /\ Looks(u).visible = u.visible
      /\ Looks(u).disabled = (u.timeout > 0)
  BY Zenon DEF Looks
<1>3. ASSUME t.kind = u.kind, t.visible = u.visible, (t.timeout > 0) = (u.timeout > 0)
      PROVE  Looks(t) = Looks(u)
  BY <1>3, Zenon DEF Looks
<1> QED
  BY <1>1, <1>2, <1>3, Zenon

LEMMA ShownSame ==
    ASSUME NEW a \in Lists, NEW b \in Lists
    PROVE  Shown(a) = Shown(b) <=> SameLook(a, b)
<1>1. /\ Shown(a) = [i \in DOMAIN a |-> Looks(a[i])]
      /\ Shown(b) = [i \in DOMAIN b |-> Looks(b[i])]
  BY Zenon DEF Shown, Looks
<1>2. \A i \in DOMAIN a : a[i] \in Trap
  BY ListTypes
<1>3. \A i \in DOMAIN b : b[i] \in Trap
  BY ListTypes
<1>4. ASSUME Shown(a) = Shown(b) PROVE SameLook(a, b)
  <2>1. DOMAIN a = DOMAIN b
    BY <1>1, <1>4, Zenon
  <2>2. \A i \in DOMAIN a : Looks(a[i]) = Looks(b[i])
    BY <1>1, <1>4, <2>1, Zenon
  <2> QED
    BY <1>2, <1>3, <2>1, <2>2, LooksEqual, Zenon DEF SameLook
<1>5. ASSUME SameLook(a, b) PROVE Shown(a) = Shown(b)
  <2>1. DOMAIN a = DOMAIN b /\ \A i \in DOMAIN a : Looks(a[i]) = Looks(b[i])
    BY <1>2, <1>3, <1>5, LooksEqual, Zenon DEF SameLook
  <2> QED
    BY <1>1, <2>1, Zenon
<1> QED
  BY <1>4, <1>5, Zenon

LEMMA VisibleIn ==
    ASSUME NEW list \in Lists
    PROVE  Visible(list) <=> \E i \in DOMAIN list : list[i].visible
  BY ListTypes, Zenon DEF Visible

\* A sweep that no timer ends in leaves the grid as it looks.
LEMMA TickedLook ==
    ASSUME NEW list \in Lists, ~Expires(list)
    PROVE  Shown(Remembered(Ticked(list))) = Shown(Remembered(list))
<1> DEFINE new == Ticked(list)
<1>1. /\ new \in Lists /\ DOMAIN new = DOMAIN list
      /\ \A i \in DOMAIN list : new[i].kind = list[i].kind /\ new[i].visible = list[i].visible
  BY TickedTypes, Zenon
<1>2. ASSUME NEW i \in DOMAIN list PROVE (new[i].timeout > 0) = (list[i].timeout > 0)
  <2>1. list[i].timeout \in Nat /\ list[i].timeout # 1
    BY TickedTypes, ListTypes DEF Expires
  <2>2. new[i].timeout = IF list[i].timeout > 0 THEN list[i].timeout - 1 ELSE 0
    BY TickedTypes
  <2> HIDE DEF new
  <2> QED
    BY <2>1, <2>2
<1> HIDE DEF new
<1>3. SameLook(new, list)
  BY <1>1, <1>2, Zenon DEF SameLook
<1>4. Visible(new) <=> Visible(list)
  BY <1>1, VisibleIn, Zenon
<1>5. Shown(new) = Shown(list)
  BY <1>1, <1>3, ShownSame
<1> QED
  BY <1>4, <1>5, Zenon DEF Remembered, new

\* Loading turns what was remembered round together with what is there.
LEMMA ReversedLook ==
    ASSUME NEW a \in Lists, NEW b \in Lists, Shown(a) = Shown(Remembered(b))
    PROVE  Shown(Reverse(a)) = Shown(Remembered(Reverse(b)))
<1> DEFINE from(i, list) == (Len(list) - i) + 1
<1>1. ASSUME NEW list \in Lists
      PROVE  /\ Reverse(list) \in Lists /\ DOMAIN Reverse(list) = DOMAIN list
             /\ \A i \in DOMAIN list : /\ from(i, list) \in DOMAIN list
                                       /\ from(from(i, list), list) = i
                                       /\ Reverse(list)[i] = list[from(i, list)]
  BY ListTypes DEF Reverse, Lists
<1>2. Visible(Reverse(b)) <=> Visible(b)
  <2>1. \A i \in DOMAIN b : Reverse(b)[from(i, b)] = b[i]
    BY <1>1
  <2> HIDE DEF from
  <2> QED
    BY <1>1, <2>1, VisibleIn, Zenon
<1> HIDE DEF from
<1>3. ASSUME NEW c \in Lists, SameLook(a, c) PROVE Shown(Reverse(a)) = Shown(Reverse(c))
  <2>1. Len(a) = Len(c) /\ DOMAIN a = DOMAIN c
    BY <1>3, ListTypes DEF SameLook
  <2>2. \A i \in DOMAIN a : from(i, a) = from(i, c)
    BY <2>1 DEF from
  <2>3. SameLook(Reverse(a), Reverse(c))
    <3>1. DOMAIN Reverse(a) = DOMAIN a /\ DOMAIN Reverse(c) = DOMAIN a
      BY <1>1, <2>1
    <3>2. ASSUME NEW i \in DOMAIN a
          PROVE  \E j \in DOMAIN a : Reverse(a)[i] = a[j] /\ Reverse(c)[i] = c[j]
      BY <1>1, <2>1, <2>2
    <3>3. ASSUME NEW i \in DOMAIN Reverse(a)
          PROVE  /\ Reverse(a)[i].kind = Reverse(c)[i].kind
                 /\ Reverse(a)[i].visible = Reverse(c)[i].visible
                 /\ (Reverse(a)[i].timeout > 0) = (Reverse(c)[i].timeout > 0)
      <4>1. PICK j \in DOMAIN a : Reverse(a)[i] = a[j] /\ Reverse(c)[i] = c[j]
        BY <3>1, <3>2
      <4>2. /\ a[j].kind = c[j].kind /\ a[j].visible = c[j].visible
            /\ (a[j].timeout > 0) = (c[j].timeout > 0)
        BY <1>3, Zenon DEF SameLook
      <4> QED
        BY <4>1, <4>2, Zenon
    <3> QED
      BY <3>1, <3>3, Zenon DEF SameLook
  <2> QED
    BY <1>1, <2>3, ShownSame
<1>4. <<>> \in Lists /\ Reverse(<<>>) = <<>>
  <2>1. Reverse(<<>>) \in Seq(Trap) /\ Len(Reverse(<<>>)) = 0
    BY NoneOf, <1>1, ListTypes
  <2> QED
    BY <2>1, NoneOf
<1>5. CASE Visible(b)
  BY <1>2, <1>3, <1>5, ShownSame DEF Remembered
<1>6. CASE ~Visible(b)
  BY <1>2, <1>3, <1>4, <1>6, ShownSame DEF Remembered
<1> QED
  BY <1>5, <1>6

LEMMA KnownStep == TypeInv /\ KnownInView /\ [Next]_vars => KnownInView'
<1> SUFFICES ASSUME TypeInv, KnownInView, [Next]_vars PROVE KnownInView'
  OBVIOUS
<1>0. /\ \A g \in Grids : traps[g] \in Lists /\ known[g] \in Lists
      /\ seen \subseteq Grids
  BY DEF TypeInv
<1>1. CASE UNCHANGED vars
  BY <1>1 DEF vars, KnownInView
<1>2. ASSUME NEW g \in Grids, NEW l, OnGrid(g, l) PROVE KnownInView'
  <2> SUFFICES ASSUME NEW h \in seen' PROVE Shown(known'[h]) = Shown(Remembered(traps'[h]))
    BY DEF KnownInView
  <2>1. /\ h \in Grids /\ (h # g => h \in seen)
        /\ \/ Memorize(g, l)
           \/ known' = known /\ (g \in seen' => g \in seen /\ l = traps[g])
        /\ traps' = [traps EXCEPT ![g] = l]
    BY <1>2 DEF OnGrid, SetTraps
  <2>2. traps'[h] = IF h = g THEN l ELSE traps[h]
    BY <2>1 DEF TypeInv
  <2>3. CASE Memorize(g, l)
    <3>1. known'[h] = IF h = g THEN Remembered(l) ELSE known[h]
      BY <2>1, <2>3 DEF TypeInv, Memorize
    <3> QED
      BY <2>1, <2>2, <3>1 DEF KnownInView
  <2>4. CASE known' = known /\ (g \in seen' => g \in seen /\ l = traps[g])
    BY <2>1, <2>2, <2>4 DEF KnownInView
  <2> QED
    BY <2>1, <2>3, <2>4
<1>3. CASE Sweep
  <2> SUFFICES ASSUME NEW g \in seen PROVE Shown(known'[g]) = Shown(Remembered(traps'[g]))
    BY <1>3 DEF Sweep, KnownInView
  <2>1. traps'[g] = Ticked(traps[g])
    BY <1>0, <1>3 DEF Sweep
  <2>2. known'[g] = IF Expires(traps[g]) THEN Remembered(traps'[g]) ELSE known[g]
    BY <1>0, <1>3 DEF Sweep
  <2>3. CASE Expires(traps[g])
    BY <2>2, <2>3
  <2>4. CASE ~Expires(traps[g])
    BY <1>0, <2>1, <2>2, <2>4, TickedLook DEF KnownInView
  <2> QED
    BY <2>3, <2>4
<1>4. CASE Reload
  <2> SUFFICES ASSUME NEW g \in seen PROVE Shown(known'[g]) = Shown(Remembered(traps'[g]))
    BY <1>4 DEF Reload, KnownInView
  <2>1. traps'[g] = Reverse(traps[g]) /\ known'[g] = Reverse(known[g])
    BY <1>0, <1>4 DEF Reload
  <2> QED
    BY <1>0, <2>1, ReversedLook DEF KnownInView
<1> QED
  BY <1>1, <1>2, <1>3, <1>4, Steps DEF Lessened, Laid, Timed

\* Of a grid in view the player knows the traps as they are, whoever lays, removes,
\* reveals or disables them, whatever timer runs out, before a reload and after it.
THEOREM KnownInViewAlways == Spec => []KnownInView
<1>1. Init => KnownInView
  <2> SUFFICES ASSUME Init, NEW g \in seen PROVE Shown(known[g]) = Shown(Remembered(traps[g]))
    BY DEF KnownInView
  <2>1. traps[g] = <<>> /\ known[g] = <<>>
    BY DEF Init
  <2> QED
    BY <2>1 DEF Remembered
<1> QED
  BY <1>1, TypeAlways, KnownStep, PTL DEF Spec
=============================================================================
