-------------------------- MODULE MonsterListProofs --------------------------
(***************************************************************************)
(* Proofs about MonsterList, for any monsters and any races, lists of any  *)
(* length and groups of any size.                                          *)
(*                                                                         *)
(* What the records of the monsters say of the groups is a pair of         *)
(* relations between indices and groups, Joined and Led; what the groups   *)
(* list is compared with it by Kept.  Each function of mon-group.c is      *)
(* shown to change both sides alike, but for the monster that is being     *)
(* taken out, whose record still says what its groups do not.  The loops   *)
(* of monster_group_split(), compact_monsters() and monster_group_assign() *)
(* go by stages (NatRecursion): what holds after each turn.                *)
(***************************************************************************)
EXTENDS MonsterList, NatRecursion, SequenceTheorems, FiniteSetTheorems

-----------------------------------------------------------------------------
(* Levels.                                                                 *)

Places == 0 .. LevelMax - 1
Slots == 1 .. LevelMax - 1
Infos == [index : 0 .. MaxGroups, role : Roles]
Recs == [midx : Places, square : Places, object : Places, info : [1 .. 2 -> Infos]]
Groups == [leader : Places, members : Seq(Slots)]
Levels == [slot : [Indices -> Monsters \cup {Nobody}], max : Indices,
           rec : [Monsters -> Recs], group : [GroupIndices -> Groups],
           target : Places, health : Arena .. LevelMax - 1, quit : BOOLEAN,
           short : 0 .. LevelMax]

Info(l, m, w) == l.rec[m].info[w]
Leader(g) == [index |-> g, role |-> "leader"]

\* The list and the records agree, and only a monster on the list has a record.
Indexed(l) ==
    /\ \A i \in Indices : l.slot[i] # Nobody =>
          LET r == l.rec[l.slot[i]] IN r.midx = i /\ r.square = i /\ r.object = i
    /\ \A m \in Monsters \ Alive(l) : l.rec[m] = NoRecord

Below(l) == \A i \in Indices : l.slot[i] # Nobody => i < l.max

\* A monster has a group, and another one of its summons only to lead it.
WellGrouped(l) ==
    \A m \in Alive(l) :
        /\ Info(l, m, 1).index # 0 /\ Info(l, m, 2).index # Info(l, m, 1).index
        /\ Info(l, m, 2).index # 0 => Info(l, m, 2) = Leader(Info(l, m, 2).index)

\* What the records say: who is in which group, and who leads it.
Joined(l) == {p \in Indices \X GroupIndices :
                 /\ l.slot[p[1]] # Nobody
                 /\ \E w \in 1 .. 2 : Info(l, l.slot[p[1]], w).index = p[2]}
Led(l) == {p \in Indices \X GroupIndices :
              /\ l.slot[p[1]] # Nobody
              /\ \E w \in 1 .. 2 : Info(l, l.slot[p[1]], w) = Leader(p[2])}

\* The groups list who has joined, each once, and are led by who leads.
KeptGroup(group, g, joined, led) ==
    /\ IsInjective(group.members)
    /\ \A i \in Indices : i \in ToSet(group.members) <=> <<i, g>> \in joined
    /\ \A i \in Indices : <<i, g>> \in led <=> i = group.leader
    /\ group.members = <<>> => group = NoGroup
    /\ group.members # <<>> => group.leader # 0
KeptIn(G, groups, joined, led) == \A g \in G : KeptGroup(groups[g], g, joined, led)
Kept(groups, joined, led) == KeptIn(GroupIndices, groups, joined, led)

\* If the numbers of the groups have run out, there were this many monsters.
Enough(l) == l.short # 0 => 2 * l.short >= LevelMax

\* A sound level, but for the claims of the records in odd.
Sound(l, odd) ==
    /\ l \in Levels /\ Indexed(l) /\ WellGrouped(l) /\ ~l.quit
    /\ Kept(l.group, Joined(l) \ odd, Led(l) \ odd) /\ Enough(l)

Watched == [target : Monsters \cup {Nobody}, health : Monsters \cup {Nobody}]

\* The inductive invariant. Its first line holds of the level, whatever
\* happened; the others say to what the indices that are held refer.
ListInv ==
    /\ Sound(level, {}) /\ Below(level)
    /\ bounds \in Bounds /\ Cardinality(Alive(level)) <= bounds.alive
    /\ duel \in Monsters \cup {Nobody} /\ watched \in Watched
    /\ level.target # 0 => level.slot[level.target] = watched.target /\ watched.target # Nobody
    /\ level.health > 0 => level.slot[level.health] = watched.health /\ watched.health # Nobody
    /\ duel # Nobody => level.slot[1] = duel

-----------------------------------------------------------------------------
(* Sets and sequences.                                                     *)

\* The ranges of the constants.
LEMMA Sizes ==
    /\ Nobody \notin Monsters
    /\ LevelMax \in Nat /\ LevelMax > 1
    /\ MaxGroups \in Nat /\ MaxGroups > 0 /\ MaxGroups = 2 * LevelMax
    /\ Places = 0 .. LevelMax - 1 /\ Indices = 1 .. LevelMax
    /\ GroupIndices = 1 .. MaxGroups
    /\ Slots = Indices \ {LevelMax} /\ Slots = Places \ {0}
    /\ 0 \in Places /\ \A p \in Places : p \in Int /\ 0 <= p /\ p < LevelMax
    /\ \A i \in Indices : i \in Int /\ 1 <= i /\ i <= LevelMax
    /\ \A g \in GroupIndices : g \in Int /\ 1 <= g /\ g <= MaxGroups
  BY ListAssumption DEF Places, Indices, GroupIndices, Slots, MaxGroups

LEMMA LeastOf ==
    ASSUME NEW S \in SUBSET Nat, S # {}
    PROVE  Min(S) \in S /\ \A s \in S : Min(S) <= s
<1>1. \E m \in S : \A s \in S : m <= s
  BY LeastNatural
<1> QED
  BY <1>1 DEF Min

LEMMA GreatestOf ==
    ASSUME NEW n \in Nat, NEW S \in SUBSET (1 .. n), S # {}
    PROVE  Max(S) \in S
<1> DEFINE T == {n - s : s \in S}
<1>1. T \in SUBSET Nat /\ T # {}
  <2>1. \A s \in S : s \in Int /\ n - s \in Nat
    OBVIOUS
  <2>2. T \subseteq Nat
    BY <2>1
  <2>3. PICK s \in S : TRUE
    OBVIOUS
  <2>4. n - s \in T
    OBVIOUS
  <2> QED
    BY <2>2, <2>4
<1>2. PICK m \in T : \A t \in T : m <= t
  BY <1>1, LeastNatural
<1>3. PICK s \in S : m = n - s
  BY <1>2
<1>4. \A y \in S : s >= y
  <2> SUFFICES ASSUME NEW y \in S PROVE s >= y
    OBVIOUS
  <2>1. n - s <= n - y
    BY <1>2, <1>3
  <2>2. n \in Int /\ s \in Int /\ y \in Int
    OBVIOUS
  <2> QED
    BY <2>1, <2>2
<1>5. \E x \in S : \A y \in S : x >= y
  BY <1>4
<1> QED
  BY <1>5 DEF Max

\* Lists of members: one more in front, one less, and one by another name.
LEMMA OneMember ==
    ASSUME NEW i
    PROVE  /\ <<i>> \in Seq({i}) /\ ToSet(<<i>>) = {i} /\ IsInjective(<<i>>) /\ <<i>> # <<>>
           /\ Len(<<i>>) = 1
  BY DEF ToSet, IsInjective

LEMMA NoMember == ToSet(<<>>) = {} /\ IsInjective(<<>>)
  BY DEF ToSet, IsInjective

\* A list and the set of what it lists.
LEMMA MembersOf ==
    ASSUME NEW S, NEW ms \in Seq(S)
    PROVE  /\ Len(ms) \in Nat /\ DOMAIN ms = 1 .. Len(ms) /\ ToSet(ms) \subseteq S
           /\ \A k \in 1 .. Len(ms) : ms[k] \in ToSet(ms) /\ ms[k] \in S
           /\ \A i \in ToSet(ms) : \E k \in 1 .. Len(ms) : ms[k] = i
           /\ ms # <<>> <=> ToSet(ms) # {}
           /\ ms = <<>> <=> Len(ms) = 0
<1>1. Len(ms) \in Nat /\ DOMAIN ms = 1 .. Len(ms) /\ \A k \in 1 .. Len(ms) : ms[k] \in S
  BY LenProperties, ElementOfSeq
<1>2. ms = <<>> <=> Len(ms) = 0
  BY EmptySeq
<1> QED
  BY <1>1, <1>2 DEF ToSet

LEMMA MemberAdded ==
    ASSUME NEW S, NEW ms \in Seq(S), NEW i \in S
    PROVE  /\ <<i>> \o ms \in Seq(S) /\ <<i>> \o ms # <<>>
           /\ ToSet(<<i>> \o ms) = {i} \cup ToSet(ms)
           /\ IsInjective(ms) /\ i \notin ToSet(ms) => IsInjective(<<i>> \o ms)
           /\ Head(<<i>> \o ms) = i
<1> DEFINE n == Len(ms)
           s == <<i>> \o ms
<1>1. <<i>> \in Seq(S) /\ Len(<<i>>) = 1 /\ <<i>>[1] = i
  OBVIOUS
<1>2. /\ n \in Nat /\ DOMAIN ms = 1 .. n
      /\ \A k \in 1 .. n : ms[k] \in ToSet(ms)
      /\ \A j \in ToSet(ms) : \E k \in 1 .. n : ms[k] = j
  BY MembersOf
<1>3. /\ s \in Seq(S) /\ Len(s) = 1 + n
      /\ \A k \in 1 .. 1 + n : s[k] = IF k <= 1 THEN <<i>>[k] ELSE ms[k - 1]
  BY <1>1, ConcatProperties
<1>4. DOMAIN s = 1 .. 1 + n
  BY <1>3, LenProperties
<1> HIDE DEF s, n
<1>5. s[1] = i /\ \A k \in 2 .. 1 + n : s[k] = ms[k - 1]
  BY <1>1, <1>2, <1>3
<1>6. ToSet(s) = {i} \cup ToSet(ms)
  <2>1. ASSUME NEW k \in 1 .. 1 + n PROVE s[k] \in {i} \cup ToSet(ms)
    <3>1. CASE k = 1
      BY <1>5, <3>1
    <3>2. CASE k # 1
      <4>1. k \in 2 .. 1 + n /\ k - 1 \in 1 .. n
        BY <1>2, <3>2
      <4> QED
        BY <1>2, <1>5, <4>1
    <3> QED
      BY <3>1, <3>2
  <2>2. i \in ToSet(s)
    <3>1. 1 \in DOMAIN s
      BY <1>2, <1>4
    <3> QED
      BY <1>5, <3>1 DEF ToSet
  <2>3. ASSUME NEW j \in ToSet(ms) PROVE j \in ToSet(s)
    <3>1. PICK k \in 1 .. n : ms[k] = j
      BY <1>2
    <3>2. k + 1 \in 2 .. 1 + n /\ k + 1 \in DOMAIN s /\ (k + 1) - 1 = k
      BY <1>2, <1>4
    <3>3. s[k + 1] = j
      BY <1>5, <3>1, <3>2
    <3> QED
      BY <3>2, <3>3 DEF ToSet
  <2> QED
    BY <1>4, <2>1, <2>2, <2>3 DEF ToSet
<1>7. ASSUME IsInjective(ms), i \notin ToSet(ms) PROVE IsInjective(s)
  <2>1. ASSUME NEW a \in 1 .. 1 + n, NEW b \in 1 .. 1 + n, s[a] = s[b], a < b PROVE FALSE
    <3>1. b \in 2 .. 1 + n /\ b - 1 \in 1 .. n
      BY <1>2, <2>1
    <3>2. s[b] = ms[b - 1] /\ ms[b - 1] \in ToSet(ms)
      BY <1>2, <1>5, <3>1
    <3>3. a # 1
      BY <1>5, <1>7, <2>1, <3>2
    <3>4. a \in 2 .. 1 + n /\ a - 1 \in 1 .. n
      BY <1>2, <3>3
    <3>5. ms[a - 1] = ms[b - 1] /\ a - 1 # b - 1
      BY <1>5, <2>1, <3>2, <3>4
    <3> QED
      BY <1>2, <1>7, <3>1, <3>4, <3>5 DEF IsInjective
  <2>2. \A a, b \in 1 .. 1 + n : a < b \/ b < a \/ a = b
    BY <1>2
  <2> QED
    BY <1>4, <2>1, <2>2, Zenon DEF IsInjective
<1>8. s # <<>> /\ Head(s) = i
  <2>1. s # <<>>
    BY <1>3, <1>2, EmptySeq
  <2>2. Head(s) = s[1]
    BY <1>3, <2>1
  <2> QED
    BY <1>5, <2>1, <2>2
<1> QED
  BY <1>3, <1>6, <1>7, <1>8 DEF s

Without(ms, i) == RemoveAt(ms, CHOOSE k \in DOMAIN ms : ms[k] = i)

LEMMA MemberRemoved ==
    ASSUME NEW S, NEW ms \in Seq(S), IsInjective(ms), NEW i \in ToSet(ms)
    PROVE  /\ Without(ms, i) \in Seq(S) /\ IsInjective(Without(ms, i))
           /\ ToSet(Without(ms, i)) = ToSet(ms) \ {i}
           /\ Len(ms) # 1 => Without(ms, i) # <<>>
           /\ Len(ms) = 1 => ToSet(ms) = {i}
<1> DEFINE n == Len(ms)
           p == CHOOSE k \in DOMAIN ms : ms[k] = i
           s == Without(ms, i)
           a == SubSeq(ms, 1, p - 1)
           b == SubSeq(ms, p + 1, n)
<1>1. /\ n \in Nat /\ DOMAIN ms = 1 .. n
      /\ \A k \in 1 .. n : ms[k] \in ToSet(ms) /\ ms[k] \in S
      /\ \A j \in ToSet(ms) : \E k \in 1 .. n : ms[k] = j
  BY MembersOf
<1>2. p \in 1 .. n /\ ms[p] = i
  BY <1>1
<1>3. \A k \in 1 .. n : ms[k] = i => k = p
  BY <1>1, <1>2 DEF IsInjective
<1>4. s = a \o b
  BY DEF Without, RemoveAt
<1> HIDE DEF p, n
<1>5. p \in Int /\ 1 <= p /\ p <= n /\ n \in Int
  BY <1>1, <1>2
<1>6. a \in Seq(S) /\ Len(a) = p - 1 /\ \A k \in 1 .. p - 1 : a[k] = ms[k]
  <2>1. \A k \in 1 .. p - 1 : ms[k] \in S
    BY <1>1, <1>5
  <2>2. 1 \in Int /\ p - 1 \in Int
    BY <1>5
  <2>3. /\ a \in Seq(S) /\ Len(a) = IF 1 <= p - 1 THEN (p - 1) - 1 + 1 ELSE 0
        /\ \A k \in 1 .. (p - 1) - 1 + 1 : a[k] = ms[1 + k - 1]
    BY <2>1, <2>2, SubSeqProperties
  <2>4. Len(a) = p - 1
    BY <1>5, <2>3
  <2>5. ASSUME NEW k \in 1 .. p - 1 PROVE a[k] = ms[k]
    <3>1. 1 + k - 1 = k /\ k \in 1 .. (p - 1) - 1 + 1
      BY <1>5
    <3> QED
      BY <2>3, <3>1
  <2> QED
    BY <2>3, <2>4, <2>5
<1>7. b \in Seq(S) /\ Len(b) = n - p /\ \A k \in 1 .. n - p : b[k] = ms[p + k]
  <2>1. \A k \in p + 1 .. n : ms[k] \in S
    BY <1>1, <1>5
  <2>2. p + 1 \in Int /\ n \in Int
    BY <1>5
  <2>3. /\ b \in Seq(S) /\ Len(b) = IF p + 1 <= n THEN n - (p + 1) + 1 ELSE 0
        /\ \A k \in 1 .. n - (p + 1) + 1 : b[k] = ms[(p + 1) + k - 1]
    BY <2>1, <2>2, SubSeqProperties
  <2>4. Len(b) = n - p
    BY <1>5, <2>3
  <2>5. ASSUME NEW k \in 1 .. n - p PROVE b[k] = ms[p + k]
    <3>1. (p + 1) + k - 1 = p + k /\ k \in 1 .. n - (p + 1) + 1
      BY <1>5
    <3> QED
      BY <2>3, <3>1
  <2> QED
    BY <2>3, <2>4, <2>5
<1> HIDE DEF a, b
<1>8. /\ s \in Seq(S) /\ Len(s) = Len(a) + Len(b)
      /\ \A k \in 1 .. Len(a) + Len(b) : s[k] = IF k <= Len(a) THEN a[k] ELSE b[k - Len(a)]
  BY <1>4, <1>6, <1>7, ConcatProperties
<1>9. s \in Seq(S) /\ Len(s) = n - 1 /\ DOMAIN s = 1 .. n - 1
  <2>1. Len(s) = n - 1
    BY <1>5, <1>6, <1>7, <1>8
  <2> QED
    BY <1>8, <2>1, LenProperties
<1> HIDE DEF s
<1>10. \A k \in 1 .. n - 1 : s[k] = ms[IF k < p THEN k ELSE k + 1]
  <2> SUFFICES ASSUME NEW k \in 1 .. n - 1 PROVE s[k] = ms[IF k < p THEN k ELSE k + 1]
    OBVIOUS
  <2>1. k \in 1 .. Len(a) + Len(b)
    BY <1>5, <1>6, <1>7
  <2>2. CASE k < p
    <3>1. k <= Len(a) /\ k \in 1 .. p - 1
      BY <1>5, <1>6, <2>2
    <3> QED
      BY <1>6, <1>8, <2>1, <2>2, <3>1
  <2>3. CASE ~(k < p)
    <3>1. ~(k <= Len(a)) /\ k - Len(a) \in 1 .. n - p /\ p + (k - Len(a)) = k + 1
      BY <1>5, <1>6, <2>3
    <3> QED
      BY <1>7, <1>8, <2>1, <2>3, <3>1
  <2> QED
    BY <2>2, <2>3
<1> DEFINE At(k) == IF k < p THEN k ELSE k + 1
<1>11. \A k \in 1 .. n - 1 : At(k) \in 1 .. n /\ At(k) # p
  BY <1>5
<1>12. \A k, j \in 1 .. n - 1 : At(k) = At(j) => k = j
  BY <1>5
<1>13. \A q \in 1 .. n : q # p => \E k \in 1 .. n - 1 : At(k) = q
  <2> SUFFICES ASSUME NEW q \in 1 .. n, q # p PROVE \E k \in 1 .. n - 1 : At(k) = q
    OBVIOUS
  <2>1. CASE q < p
    <3>1. q \in 1 .. n - 1 /\ At(q) = q
      BY <1>5, <2>1
    <3> QED
      BY <3>1
  <2>2. CASE ~(q < p)
    <3>1. q - 1 \in 1 .. n - 1 /\ At(q - 1) = q
      BY <1>5, <2>2
    <3> QED
      BY <3>1
  <2> QED
    BY <2>1, <2>2
<1>14. \A k \in 1 .. n - 1 : s[k] = ms[At(k)]
  BY <1>10
<1> HIDE DEF At
<1>15. IsInjective(s)
  BY <1>1, <1>9, <1>11, <1>12, <1>14 DEF IsInjective
<1>16. ToSet(s) = ToSet(ms) \ {i}
  <2>1. ASSUME NEW k \in 1 .. n - 1 PROVE s[k] \in ToSet(ms) \ {i}
    BY <1>1, <1>3, <1>11, <1>14
  <2>2. ASSUME NEW j \in ToSet(ms) \ {i} PROVE \E k \in 1 .. n - 1 : s[k] = j
    <3>1. PICK q \in 1 .. n : ms[q] = j
      BY <1>1
    <3>2. PICK k \in 1 .. n - 1 : At(k) = q
      BY <1>2, <1>13, <3>1
    <3> QED
      BY <1>14, <3>1, <3>2
  <2> QED
    BY <1>9, <2>1, <2>2 DEF ToSet
<1>17. n # 1 => s # <<>>
  <2>1. n # 1 => Len(s) # 0
    BY <1>5, <1>9
  <2> QED
    BY <1>9, <2>1, EmptySeq
<1>18. n = 1 => ToSet(ms) = {i}
  <2>1. ASSUME n = 1 PROVE \A j \in ToSet(ms) : j = i
    BY <1>1, <1>2, <2>1
  <2> QED
    BY <2>1
<1> QED
  BY <1>9, <1>15, <1>16, <1>17, <1>18 DEF s, n

-----------------------------------------------------------------------------
(* What is done to one group, and what the groups keep then.               *)

LEMMA GroupTypes ==
    /\ NoGroup \in Groups /\ NoGroup.leader = 0 /\ NoGroup.members = <<>>
    /\ \A i \in Places : \A ms \in Seq(Slots) :
          [leader |-> i, members |-> ms] \in Groups
    /\ \A group \in Groups :
          /\ group.leader \in Places /\ group.members \in Seq(Slots)
          /\ group = [leader |-> group.leader, members |-> group.members]
          /\ ToSet(group.members) \subseteq Slots
          /\ \A ms : [group EXCEPT !.members = ms] = [leader |-> group.leader, members |-> ms]
          /\ \A k : [group EXCEPT !.leader = k] = [leader |-> k, members |-> group.members]
<1>1. <<>> \in Seq(Slots)
  BY EmptySeq
<1>2. \A group \in Groups :
          /\ group.leader \in Places /\ group.members \in Seq(Slots)
          /\ group = [leader |-> group.leader, members |-> group.members]
  BY DEF Groups
<1>3. \A group \in Groups : ToSet(group.members) \subseteq Slots
  BY <1>2, MembersOf
<1>4. \A group \in Groups :
         /\ \A ms : [group EXCEPT !.members = ms] = [leader |-> group.leader, members |-> ms]
         /\ \A k : [group EXCEPT !.leader = k] = [leader |-> k, members |-> group.members]
  BY DEF Groups
<1>5. NoGroup \in Groups /\ NoGroup.leader = 0 /\ NoGroup.members = <<>>
  BY <1>1, Sizes DEF Groups, NoGroup
<1>6. \A i \in Places : \A ms \in Seq(Slots) : [leader |-> i, members |-> ms] \in Groups
  BY DEF Groups
<1> QED
  BY <1>2, <1>3, <1>4, <1>5, <1>6

LEMMA MemberRenamed ==
    ASSUME NEW group \in Groups, IsInjective(group.members),
           NEW i \in ToSet(group.members), NEW j \in Slots, j \notin ToSet(group.members)
    PROVE  /\ Renamed(group, i, j).members \in Seq(Slots)
           /\ IsInjective(Renamed(group, i, j).members)
           /\ Renamed(group, i, j).members # <<>>
           /\ \A x : x \in ToSet(Renamed(group, i, j).members) <=>
                       x = j \/ (x # i /\ x \in ToSet(group.members))
<1> DEFINE old == group.members
           n == Len(old)
           ms == [k \in DOMAIN old |-> IF old[k] = i THEN j ELSE old[k]]
<1>0. old \in Seq(Slots)
  BY GroupTypes
<1>1. /\ n \in Nat /\ DOMAIN old = 1 .. n
      /\ \A k \in 1 .. n : old[k] \in ToSet(old) /\ old[k] \in Slots
      /\ \A x \in ToSet(old) : \E k \in 1 .. n : old[k] = x
  BY <1>0, MembersOf
<1>2. Renamed(group, i, j).members = ms
  BY DEF Renamed
<1>3. /\ DOMAIN ms = 1 .. n
      /\ \A k \in 1 .. n : ms[k] = IF old[k] = i THEN j ELSE old[k]
  BY <1>1
<1>4. ms \in Seq(Slots) /\ Len(ms) = n
  <2>1. \A k \in 1 .. n : ms[k] \in Slots
    BY <1>1, <1>3
  <2>2. ms = [k \in 1 .. n |-> ms[k]]
    BY <1>1
  <2> HIDE DEF ms, n
  <2> QED
    BY <1>1, <2>1, <2>2, IsASeq
<1> HIDE DEF ms, n
<1>5. \A a, b \in DOMAIN old : old[a] = old[b] => a = b
  BY DEF IsInjective
<1>6. IsInjective(ms)
  <2>1. \A k \in 1 .. n : old[k] # j
    BY <1>1
  <2>2. \A a, b \in 1 .. n : ms[a] = ms[b] => old[a] = old[b]
    BY <1>3, <2>1
  <2> QED
    BY <1>1, <1>3, <1>5, <2>2 DEF IsInjective
<1>7. ToSet(ms) = (ToSet(old) \ {i}) \cup {j}
  <2>1. ASSUME NEW k \in 1 .. n PROVE ms[k] \in (ToSet(old) \ {i}) \cup {j}
    BY <1>1, <1>3
  <2>2. ASSUME NEW x \in (ToSet(old) \ {i}) \cup {j} PROVE \E k \in 1 .. n : ms[k] = x
    <3>1. CASE x = j
      <4>1. PICK k \in 1 .. n : old[k] = i
        BY <1>1
      <4> QED
        BY <1>3, <3>1, <4>1
    <3>2. CASE x # j
      <4>1. PICK k \in 1 .. n : old[k] = x
        BY <1>1, <2>2, <3>2
      <4> QED
        BY <1>3, <2>2, <3>2, <4>1
    <3> QED
      BY <3>1, <3>2
  <2> QED
    BY <1>3, <2>1, <2>2 DEF ToSet
<1>8. ms # <<>>
  BY <1>4, <1>7, MembersOf
<1> QED
  BY <1>2, <1>4, <1>6, <1>7, <1>8 DEF old

\* One group is new; the others, and what the records say of them, are as before.
LEMMA GroupChanged ==
    ASSUME NEW groups \in [GroupIndices -> Groups], NEW joined, NEW led, NEW joined2, NEW led2,
           NEW G \in SUBSET GroupIndices, KeptIn(G, groups, joined, led),
           NEW g \in GroupIndices, NEW group \in Groups,
           \A h \in G \ {g} : \A i \in Indices :
               /\ <<i, h>> \in joined2 <=> <<i, h>> \in joined
               /\ <<i, h>> \in led2 <=> <<i, h>> \in led,
           KeptGroup(group, g, joined2, led2)
    PROVE  /\ [groups EXCEPT ![g] = group] \in [GroupIndices -> Groups]
           /\ KeptIn(G, [groups EXCEPT ![g] = group], joined2, led2)
<1> DEFINE new == [groups EXCEPT ![g] = group]
<1>1. /\ new \in [GroupIndices -> Groups] /\ new[g] = group
      /\ \A h \in GroupIndices \ {g} : new[h] = groups[h]
  OBVIOUS
<1> HIDE DEF new
<1>2. ASSUME NEW h \in G PROVE KeptGroup(new[h], h, joined2, led2)
  <2>1. CASE h = g
    BY <1>1, <2>1
  <2>2. CASE h # g
    <3>1. KeptGroup(groups[h], h, joined, led) /\ new[h] = groups[h]
      BY <1>1, <2>2 DEF KeptIn
    <3> QED
      BY <2>2, <3>1 DEF KeptGroup
  <2> QED
    BY <2>1, <2>2
<1> QED
  BY <1>1, <1>2 DEF KeptIn, new

\* A group of one, whose leader it is.
LEMMA StartedGroup ==
    ASSUME NEW i \in Slots, NEW g, NEW joined, NEW led,
           \A k \in Indices : /\ <<k, g>> \in joined <=> k = i
                              /\ <<k, g>> \in led <=> k = i
    PROVE  LET group == [leader |-> i, members |-> <<i>>]
           IN  group \in Groups /\ group # NoGroup /\ KeptGroup(group, g, joined, led)
<1> DEFINE group == [leader |-> i, members |-> <<i>>]
<1>1. i \in Places /\ i # 0 /\ <<i>> \in Seq(Slots)
  BY Sizes
<1>2. group.leader = i /\ group.members = <<i>>
  OBVIOUS
<1>3. group \in Groups /\ group # NoGroup
  BY <1>1, <1>2, GroupTypes
<1>4. ToSet(<<i>>) = {i} /\ IsInjective(<<i>>) /\ <<i>> # <<>>
  BY OneMember
<1> HIDE DEF group
<1>5. KeptGroup(group, g, joined, led)
  BY <1>1, <1>2, <1>4 DEF KeptGroup
<1> QED
  BY <1>3, <1>5 DEF group

\* Who is in group g: as before, one more, one less, or one by another index.
Alike(new, old, g) == \A k \in Indices : <<k, g>> \in new <=> <<k, g>> \in old
OneMore(new, old, g, i) == \A k \in Indices : <<k, g>> \in new <=> k = i \/ <<k, g>> \in old
OneLess(new, old, g, i) == \A k \in Indices : <<k, g>> \in new <=> k # i /\ <<k, g>> \in old
OnlyOne(new, g, i) == \A k \in Indices : <<k, g>> \in new <=> k = i
Moved(new, old, g, i, j) ==
    \A k \in Indices :
        <<k, g>> \in new <=> IF k = j THEN <<i, g>> \in old ELSE k # i /\ <<k, g>> \in old

WithMember(group, i) == [group EXCEPT !.members = <<i>> \o @]

\* One more in a group that there is.
LEMMA JoinedGroup ==
    ASSUME NEW group \in Groups, group # NoGroup, NEW i \in Slots, NEW g,
           NEW joined, NEW led, NEW joined2, NEW led2, KeptGroup(group, g, joined, led),
           <<i, g>> \notin joined,
           OneMore(joined2, joined, g, i), Alike(led2, led, g)
    PROVE  /\ WithMember(group, i) \in Groups /\ WithMember(group, i) # NoGroup
           /\ KeptGroup(WithMember(group, i), g, joined2, led2)
<1> DEFINE new == WithMember(group, i)
           ms == <<i>> \o group.members
<1>1. /\ group.leader \in Places /\ group.members \in Seq(Slots)
      /\ group = [leader |-> group.leader, members |-> group.members]
  BY GroupTypes
<1>2. new = [leader |-> group.leader, members |-> ms]
  BY GroupTypes DEF WithMember
<1>3. i \in Indices /\ i \notin ToSet(group.members) /\ IsInjective(group.members)
  BY Sizes DEF KeptGroup
<1>4. /\ ms \in Seq(Slots) /\ ms # <<>> /\ IsInjective(ms)
      /\ ToSet(ms) = {i} \cup ToSet(group.members)
  BY <1>1, <1>3, MemberAdded
<1> HIDE DEF ms, new
<1>5. new \in Groups /\ new.leader = group.leader /\ new.members = ms
  BY <1>1, <1>2, <1>4, GroupTypes
<1>6. new # NoGroup
  BY <1>4, <1>5, GroupTypes
<1>7. group.members # <<>> /\ group.leader # 0
  BY DEF KeptGroup
<1>8. \A k \in Indices : k \in ToSet(ms) <=> <<k, g>> \in joined2
  BY <1>4 DEF KeptGroup, OneMore
<1>9. \A k \in Indices : <<k, g>> \in led2 <=> k = group.leader
  BY DEF KeptGroup, Alike
<1>10. KeptGroup(new, g, joined2, led2)
  BY <1>4, <1>5, <1>7, <1>8, <1>9 DEF KeptGroup
<1> QED
  BY <1>5, <1>6, <1>10 DEF new

LessMember(group, i, heir) == [leader |-> heir, members |-> Without(group.members, i)]

\* One less, who does not lead it, or in whose place another of them does.
LEMMA LeftGroup ==
    ASSUME NEW group \in Groups, NEW i, NEW g, NEW heir \in Places \ {0},
           NEW joined, NEW led, NEW joined2, NEW led2, KeptGroup(group, g, joined, led),
           i \in ToSet(group.members), Len(group.members) # 1,
           OneLess(joined2, joined, g, i), OnlyOne(led2, g, heir)
    PROVE  /\ LessMember(group, i, heir) \in Groups
           /\ KeptGroup(LessMember(group, i, heir), g, joined2, led2)
<1> DEFINE ms == Without(group.members, i)
           new == LessMember(group, i, heir)
<1>1. group.members \in Seq(Slots) /\ IsInjective(group.members)
  BY GroupTypes DEF KeptGroup
<1>2. /\ ms \in Seq(Slots) /\ IsInjective(ms) /\ ms # <<>>
      /\ ToSet(ms) = ToSet(group.members) \ {i}
  BY <1>1, MemberRemoved
<1> HIDE DEF ms
<1>3. new \in Groups /\ new.leader = heir /\ new.members = ms
  BY <1>2, GroupTypes DEF LessMember, ms
<1> HIDE DEF new
<1>4. \A k \in Indices : k \in ToSet(ms) <=> <<k, g>> \in joined2
  BY <1>2 DEF KeptGroup, OneLess
<1>5. \A k \in Indices : <<k, g>> \in led2 <=> k = heir
  BY DEF OnlyOne
<1>6. KeptGroup(new, g, joined2, led2)
  BY <1>2, <1>3, <1>4, <1>5 DEF KeptGroup
<1> QED
  BY <1>3, <1>6 DEF new, ms

\* Nobody is left.
LEMMA EndedGroup ==
    ASSUME NEW g, NEW joined, NEW led,
           \A k \in Indices : <<k, g>> \notin joined /\ <<k, g>> \notin led
    PROVE  KeptGroup(NoGroup, g, joined, led)
<1>1. \A k \in Indices : k # 0
  BY Sizes
<1>2. NoGroup.leader = 0 /\ NoGroup.members = <<>>
  BY GroupTypes
<1>3. ToSet(<<>>) = {} /\ IsInjective(<<>>)
  BY NoMember
<1> QED
  BY <1>1, <1>2, <1>3 DEF KeptGroup

\* One has another index now.
LEMMA RenamedGroup ==
    ASSUME NEW group \in Groups, NEW i \in Indices, NEW j \in Slots, NEW g, i # j,
           NEW joined, NEW led, NEW joined2, NEW led2, KeptGroup(group, g, joined, led),
           <<i, g>> \in joined, <<j, g>> \notin joined, <<j, g>> \notin led,
           Moved(joined2, joined, g, i, j), Moved(led2, led, g, i, j)
    PROVE  /\ Renamed(group, i, j) \in Groups
           /\ KeptGroup(Renamed(group, i, j), g, joined2, led2)
<1> DEFINE new == Renamed(group, i, j)
           ms == new.members
<1>1. /\ group.members \in Seq(Slots) /\ IsInjective(group.members)
      /\ group.leader \in Places
  BY GroupTypes DEF KeptGroup
<1>2. j \in Indices /\ j \in Places /\ j # 0
  BY Sizes
<1>3. i \in ToSet(group.members) /\ j \notin ToSet(group.members)
  BY <1>2 DEF KeptGroup
<1>4. /\ ms \in Seq(Slots) /\ IsInjective(ms) /\ ms # <<>>
      /\ \A x : x \in ToSet(ms) <=> x = j \/ (x # i /\ x \in ToSet(group.members))
  BY <1>1, <1>3, MemberRenamed
<1>5. /\ new.leader = IF group.leader = i THEN j ELSE group.leader
      /\ new = [leader |-> new.leader, members |-> ms]
  BY DEF Renamed
<1> HIDE DEF new, ms
<1>6. new.leader \in Places
  BY <1>1, <1>2, <1>5
<1>7. new \in Groups /\ new.members = ms
  BY <1>4, <1>5, <1>6, GroupTypes
<1>8. \A k \in Indices : k \in ToSet(ms) <=> <<k, g>> \in joined2
  BY <1>2, <1>4 DEF KeptGroup, Moved
<1>9. group.members # <<>> /\ group.leader # 0
  BY <1>3, NoMember DEF KeptGroup
<1>10. \A k \in Indices : <<k, g>> \in led <=> k = group.leader
  BY DEF KeptGroup
<1>11. \A k \in Indices : <<k, g>> \in led2 <=> k = new.leader
  BY <1>2, <1>5, <1>10 DEF Moved
<1>12. new.leader # 0
  BY <1>2, <1>5, <1>9
<1>13. KeptGroup(new, g, joined2, led2)
  BY <1>4, <1>7, <1>8, <1>11, <1>12 DEF KeptGroup
<1> QED
  BY <1>7, <1>13 DEF new

-----------------------------------------------------------------------------
(* Levels by their parts.                                                  *)

LevelOf(slots, top, recs, groups, aim, bar, ended, lack) ==
    [slot |-> slots, max |-> top, rec |-> recs, group |-> groups,
     target |-> aim, health |-> bar, quit |-> ended, short |-> lack]

RecOf(i, j, k, info) == [midx |-> i, square |-> j, object |-> k, info |-> info]
WithInfo(r, w, x) == RecOf(r.midx, r.square, r.object, [r.info EXCEPT ![w] = x])
Other(w) == 3 - w

LEMMA LevelParts ==
    ASSUME NEW l \in Levels
    PROVE  /\ l.slot \in [Indices -> Monsters \cup {Nobody}] /\ l.max \in Indices
           /\ l.rec \in [Monsters -> Recs] /\ l.group \in [GroupIndices -> Groups]
           /\ l.target \in Places /\ l.health \in Arena .. LevelMax - 1 /\ l.quit \in BOOLEAN
           /\ l.short \in 0 .. LevelMax
           /\ l = LevelOf(l.slot, l.max, l.rec, l.group, l.target, l.health, l.quit, l.short)
  BY DEF Levels, LevelOf

LEMMA LevelFields ==
    ASSUME NEW slots, NEW top, NEW recs, NEW groups, NEW aim, NEW bar, NEW ended,
           NEW lack
    PROVE  LET l == LevelOf(slots, top, recs, groups, aim, bar, ended, lack)
           IN  /\ l.slot = slots /\ l.max = top /\ l.rec = recs /\ l.group = groups
               /\ l.target = aim /\ l.health = bar /\ l.quit = ended /\ l.short = lack
  BY DEF LevelOf

LEMMA LevelTyped ==
    ASSUME NEW slots \in [Indices -> Monsters \cup {Nobody}], NEW top \in Indices,
           NEW recs \in [Monsters -> Recs], NEW groups \in [GroupIndices -> Groups],
           NEW aim \in Places, NEW bar \in Arena .. LevelMax - 1, NEW ended \in BOOLEAN,
           NEW lack \in 0 .. LevelMax
    PROVE  LevelOf(slots, top, recs, groups, aim, bar, ended, lack) \in Levels
  BY DEF Levels, LevelOf

LEMMA InfoTypes ==
    /\ NoInfo \in Infos /\ NoInfo.index = 0 /\ NoInfo.role = "leader"
    /\ \A g \in 0 .. MaxGroups : /\ Leader(g) \in Infos /\ Leader(g).index = g
                                 /\ Leader(g).role = "leader"
    /\ \A x \in Infos : /\ x.index \in 0 .. MaxGroups /\ x.role \in Roles
                        /\ x.role = "leader" <=> x = Leader(x.index)
                        /\ \A g : x = Leader(g) => x.index = g /\ x.role = "leader"
    /\ \A g \in GroupIndices : g \in 0 .. MaxGroups
<1>1. 0 \in 0 .. MaxGroups /\ \A g \in GroupIndices : g \in 0 .. MaxGroups
  BY Sizes
<1> QED
  BY <1>1 DEF Infos, NoInfo, Leader, Roles

LEMMA RecTypes ==
    /\ NoRecord \in Recs
    /\ \A r \in Recs :
          /\ r.midx \in Places /\ r.square \in Places /\ r.object \in Places
          /\ r.info \in [1 .. 2 -> Infos] /\ r.info[1] \in Infos /\ r.info[2] \in Infos
<1>1. NoRecord \in Recs
  <2>1. <<NoInfo, NoInfo>> \in [1 .. 2 -> Infos]
    BY InfoTypes
  <2> QED
    BY <2>1, Sizes DEF Recs, NoRecord
<1> QED
  BY <1>1 DEF Recs

LEMMA OtherTypes ==
    ASSUME NEW r \in Recs, NEW w \in 1 .. 2, NEW x \in Infos
    PROVE  /\ WithInfo(r, w, x) \in Recs
           /\ WithInfo(r, w, x).midx = r.midx /\ WithInfo(r, w, x).square = r.square
           /\ WithInfo(r, w, x).object = r.object
           /\ WithInfo(r, w, x).info[w] = x
           /\ WithInfo(r, w, x).info[Other(w)] = r.info[Other(w)]
<1> DEFINE info == [r.info EXCEPT ![w] = x]
<1>1. Other(w) \in 1 .. 2 /\ Other(w) # w
  BY DEF Other
<1>2. info \in [1 .. 2 -> Infos] /\ info[w] = x /\ info[Other(w)] = r.info[Other(w)]
  BY <1>1, RecTypes
<1> HIDE DEF info
<1>3. RecOf(r.midx, r.square, r.object, info) \in Recs
  BY <1>2, RecTypes DEF RecOf, Recs
<1> QED
  BY <1>2, <1>3 DEF WithInfo, info, RecOf

\* Where a monster is.
LEMMA AliveAt ==
    ASSUME NEW l \in Levels, Indexed(l)
    PROVE  /\ \A m \in Alive(l) : /\ m \in Monsters /\ m # Nobody
                                  /\ l.rec[m].midx \in Slots /\ l.rec[m].midx \in Indices
                                  /\ l.slot[l.rec[m].midx] = m
           /\ \A i \in Indices : l.slot[i] # Nobody =>
                 l.slot[i] \in Alive(l) /\ l.rec[l.slot[i]].midx = i /\ i \in Slots
           /\ Alive(l) \subseteq Monsters
<1>1. l.slot \in [Indices -> Monsters \cup {Nobody}] /\ l.rec \in [Monsters -> Recs]
  BY LevelParts
<1>2. ASSUME NEW i \in Indices, l.slot[i] # Nobody
      PROVE  l.slot[i] \in Alive(l) /\ l.rec[l.slot[i]].midx = i /\ i \in Slots
  <2>1. l.slot[i] \in Monsters /\ l.slot[i] \in Alive(l) /\ l.rec[l.slot[i]].midx = i
    BY <1>1, <1>2 DEF Alive, Indexed
  <2>2. i \in Places
    BY <1>1, <2>1, RecTypes
  <2> QED
    BY <2>1, <2>2, Sizes
<1>3. ASSUME NEW m \in Alive(l)
      PROVE  /\ m \in Monsters /\ m # Nobody
             /\ l.rec[m].midx \in Slots /\ l.rec[m].midx \in Indices
             /\ l.slot[l.rec[m].midx] = m
  <2>1. PICK i \in Indices : l.slot[i] = m /\ m # Nobody
    BY DEF Alive
  <2>2. l.rec[m].midx = i /\ i \in Slots
    BY <1>2, <2>1
  <2>3. m \in Monsters
    BY <1>1, <2>1
  <2> QED
    BY <2>1, <2>2, <2>3
<1> QED
  BY <1>2, <1>3

\* The claims of the records, one by one.
LEMMA Claims ==
    ASSUME NEW l, NEW i \in Indices, NEW g \in GroupIndices
    PROVE  /\ <<i, g>> \in Joined(l) <=>
                 /\ l.slot[i] # Nobody
                 /\ Info(l, l.slot[i], 1).index = g \/ Info(l, l.slot[i], 2).index = g
           /\ <<i, g>> \in Led(l) <=>
                 /\ l.slot[i] # Nobody
                 /\ Info(l, l.slot[i], 1) = Leader(g) \/ Info(l, l.slot[i], 2) = Leader(g)
<1>1. <<i, g>> \in Indices \X GroupIndices /\ <<i, g>>[1] = i /\ <<i, g>>[2] = g
  OBVIOUS
<1>2. \A w : w \in 1 .. 2 <=> w = 1 \/ w = 2
  OBVIOUS
<1> QED
  BY <1>1, <1>2, Zenon DEF Joined, Led

LEMMA ClaimsOnly ==
    ASSUME NEW l PROVE Joined(l) \subseteq Indices \X GroupIndices /\ Led(l) \subseteq Indices \X GroupIndices
  BY DEF Joined, Led

\* A monster joins and leads groups by its record; one that leads a group is in it.
LEMMA LedJoined ==
    ASSUME NEW l \in Levels, Indexed(l), NEW i \in Indices, NEW g \in GroupIndices, <<i, g>> \in Led(l)
    PROVE  <<i, g>> \in Joined(l)
<1>1. l.slot[i] \in Monsters /\ l.slot[i] # Nobody
  BY Claims, AliveAt
<1>2. Info(l, l.slot[i], 1) \in Infos /\ Info(l, l.slot[i], 2) \in Infos
  BY <1>1, LevelParts, RecTypes DEF Info
<1> QED
  BY <1>1, <1>2, Claims, InfoTypes

\* What follows from another entry in the record of a monster.
LEMMA OtherInfo ==
    ASSUME NEW l \in Levels, Indexed(l), NEW m \in Alive(l), NEW w \in 1 .. 2, NEW x \in Infos,
           NEW k, k.slot = l.slot, k.rec = [l.rec EXCEPT ![m] = WithInfo(l.rec[m], w, x)]
    PROVE  /\ k.rec \in [Monsters -> Recs] /\ Indexed(k) /\ Alive(k) = Alive(l)
           /\ Info(k, m, w) = x /\ Info(k, m, Other(w)) = Info(l, m, Other(w))
           /\ k.rec[m].midx = l.rec[m].midx
           /\ \A n \in Monsters \ {m} : k.rec[n] = l.rec[n]
           /\ \A i \in Indices, g \in GroupIndices :
                 IF i = l.rec[m].midx
                 THEN /\ <<i, g>> \in Joined(k) <=> x.index = g \/ Info(l, m, Other(w)).index = g
                      /\ <<i, g>> \in Led(k) <=> x = Leader(g) \/ Info(l, m, Other(w)) = Leader(g)
                 ELSE /\ <<i, g>> \in Joined(k) <=> <<i, g>> \in Joined(l)
                      /\ <<i, g>> \in Led(k) <=> <<i, g>> \in Led(l)
<1> DEFINE r == WithInfo(l.rec[m], w, x)
<1>1. /\ l.rec \in [Monsters -> Recs] /\ m \in Monsters /\ m # Nobody
      /\ l.rec[m].midx \in Indices /\ l.slot[l.rec[m].midx] = m
  BY LevelParts, AliveAt
<1>2. /\ r \in Recs /\ r.midx = l.rec[m].midx /\ r.square = l.rec[m].square
      /\ r.object = l.rec[m].object /\ r.info[w] = x
      /\ r.info[Other(w)] = l.rec[m].info[Other(w)]
  <2>1. l.rec[m] \in Recs
    BY <1>1
  <2> QED
    BY <2>1, OtherTypes
<1> HIDE DEF r
<1>3. /\ k.rec \in [Monsters -> Recs] /\ k.rec[m] = r
      /\ \A n \in Monsters \ {m} : k.rec[n] = l.rec[n]
  BY <1>1, <1>2 DEF r
<1>4. Alive(k) = Alive(l)
  BY DEF Alive
<1>5. Indexed(k)
  <2>1. ASSUME NEW i \in Indices, k.slot[i] # Nobody
        PROVE  k.rec[k.slot[i]].midx = i /\ k.rec[k.slot[i]].square = i /\ k.rec[k.slot[i]].object = i
    <3>1. /\ l.slot[i] \in Monsters /\ l.rec[l.slot[i]].midx = i
          /\ l.rec[l.slot[i]].square = i /\ l.rec[l.slot[i]].object = i
      BY <2>1, AliveAt DEF Indexed
    <3> QED
      BY <1>2, <1>3, <3>1
  <2>2. ASSUME NEW n \in Monsters \ Alive(k) PROVE k.rec[n] = NoRecord
    BY <1>3, <1>4, <2>2 DEF Indexed
  <2> QED
    BY <2>1, <2>2 DEF Indexed
<1>6. Info(k, m, w) = x /\ Info(k, m, Other(w)) = Info(l, m, Other(w))
  BY <1>2, <1>3 DEF Info
<1>7. ASSUME NEW i \in Indices, NEW g \in GroupIndices, i = l.rec[m].midx
      PROVE  /\ <<i, g>> \in Joined(k) <=> x.index = g \/ Info(l, m, Other(w)).index = g
             /\ <<i, g>> \in Led(k) <=> x = Leader(g) \/ Info(l, m, Other(w)) = Leader(g)
  <2>1. k.slot[i] = m
    BY <1>1, <1>7
  <2>2. (w = 1 /\ Other(w) = 2) \/ (w = 2 /\ Other(w) = 1)
    BY DEF Other
  <2>3. /\ <<i, g>> \in Joined(k) <=> Info(k, m, 1).index = g \/ Info(k, m, 2).index = g
        /\ <<i, g>> \in Led(k) <=> Info(k, m, 1) = Leader(g) \/ Info(k, m, 2) = Leader(g)
    BY <1>1, <2>1, Claims
  <2> QED
    BY <1>6, <2>2, <2>3
<1>8. ASSUME NEW i \in Indices, NEW g \in GroupIndices, i # l.rec[m].midx
      PROVE  /\ <<i, g>> \in Joined(k) <=> <<i, g>> \in Joined(l)
             /\ <<i, g>> \in Led(k) <=> <<i, g>> \in Led(l)
  <2>1. CASE l.slot[i] = Nobody
    BY <2>1, Claims
  <2>2. CASE l.slot[i] # Nobody
    <3>1. l.slot[i] \in Monsters \ {m}
      BY <1>8, <2>2, AliveAt
    <3>2. /\ Info(k, l.slot[i], 1) = Info(l, l.slot[i], 1)
          /\ Info(k, l.slot[i], 2) = Info(l, l.slot[i], 2)
      BY <1>3, <3>1 DEF Info
    <3> QED
      BY <3>2, Claims
  <2> QED
    BY <2>1, <2>2
<1> QED
  BY <1>2, <1>3, <1>4, <1>5, <1>6, <1>7, <1>8

\* The claims are all that counts.
LEMMA SameClaims ==
    ASSUME NEW G \in SUBSET GroupIndices, NEW groups, NEW joined, NEW led, NEW joined2, NEW led2,
           KeptIn(G, groups, joined, led),
           \A i \in Indices, g \in G :
               /\ <<i, g>> \in joined2 <=> <<i, g>> \in joined
               /\ <<i, g>> \in led2 <=> <<i, g>> \in led
    PROVE  KeptIn(G, groups, joined2, led2)
<1>1. ASSUME NEW g \in G PROVE KeptGroup(groups[g], g, joined2, led2)
  <2>1. KeptGroup(groups[g], g, joined, led)
    BY DEF KeptIn
  <2> QED
    BY <2>1 DEF KeptGroup
<1> QED
  BY <1>1 DEF KeptIn

\* monster_groups_verify() finds nothing wrong.
LEMMA NothingWrong ==
    ASSUME NEW l \in Levels, Indexed(l), WellGrouped(l), NEW odd,
           Kept(l.group, Joined(l) \ odd, Led(l) \ odd)
    PROVE  Verified(l)
<1> SUFFICES ASSUME NEW g \in GroupIndices, NEW i \in ToSet(l.group[g].members)
             PROVE  /\ l.slot[i] # Nobody
                    /\ LET info == l.rec[l.slot[i]].info
                       IN  \/ info[Primary].index = g
                           \/ info[Second] = [index |-> g, role |-> "leader"]
  BY DEF Verified
<1>1. KeptGroup(l.group[g], g, Joined(l) \ odd, Led(l) \ odd) /\ l.group[g] \in Groups
  BY LevelParts DEF Kept, KeptIn
<1>2. i \in Indices
  <2>1. i \in Slots
    BY <1>1, GroupTypes
  <2> QED
    BY <2>1, Sizes
<1>3. <<i, g>> \in Joined(l)
  BY <1>1, <1>2 DEF KeptGroup
<1>4. /\ l.slot[i] # Nobody
      /\ Info(l, l.slot[i], 1).index = g \/ Info(l, l.slot[i], 2).index = g
  BY <1>2, <1>3, Claims
<1>5. l.slot[i] \in Alive(l) /\ g # 0
  BY <1>2, <1>4, AliveAt, Sizes
<1>6. Info(l, l.slot[i], 2).index = g => Info(l, l.slot[i], 2) = Leader(g)
  BY <1>5 DEF WellGrouped
<1> QED
  BY <1>4, <1>6 DEF Info, Leader, Primary, Second

-----------------------------------------------------------------------------
(* A group index is free.                                                  *)

\* A group that there is has a leader, whose record says so.
LEMMA LedBySome ==
    ASSUME NEW l \in Levels, Indexed(l), NEW odd, NEW g \in GroupIndices,
           KeptGroup(l.group[g], g, Joined(l) \ odd, Led(l) \ odd), l.group[g] # NoGroup
    PROVE  \E n \in Alive(l), v \in 1 .. 2 :
               Info(l, n, v) = Leader(g) /\ <<l.rec[n].midx, g>> \notin odd
<1> DEFINE i == l.group[g].leader
<1>1. l.group[g] \in Groups /\ i \in Places /\ i # 0
  BY LevelParts, GroupTypes DEF KeptGroup
<1>2. i \in Indices
  BY <1>1, Sizes
<1>3. <<i, g>> \in Led(l) /\ <<i, g>> \notin odd
  BY <1>2 DEF KeptGroup
<1>4. /\ l.slot[i] # Nobody
      /\ Info(l, l.slot[i], 1) = Leader(g) \/ Info(l, l.slot[i], 2) = Leader(g)
  BY <1>2, <1>3, Claims
<1>5. l.slot[i] \in Alive(l) /\ l.rec[l.slot[i]].midx = i
  BY <1>2, <1>4, AliveAt
<1>6. 1 \in 1 .. 2 /\ 2 \in 1 .. 2
  OBVIOUS
<1> QED
  BY <1>3, <1>4, <1>5, <1>6

Pairs(l) == Alive(l) \X (1 .. 2)

LEMMA AllSlots == IsFiniteSet(Slots) /\ Cardinality(Slots) = LevelMax - 1
<1>1. 1 \in Int /\ LevelMax - 1 \in Int /\ ~(1 > LevelMax - 1)
  BY Sizes
<1>2. /\ IsFiniteSet(1 .. LevelMax - 1)
      /\ Cardinality(1 .. LevelMax - 1) =
            IF 1 > LevelMax - 1 THEN 0 ELSE (LevelMax - 1) - 1 + 1
  BY <1>1, FS_Interval, Zenon
<1> QED
  BY <1>1, <1>2, Sizes DEF Slots

\* There are two pairs for every monster, and so at most that many groups with a leader.
LEMMA FewPairs ==
    ASSUME NEW l \in Levels, Indexed(l)
    PROVE  /\ IsFiniteSet(Alive(l)) /\ Cardinality(Alive(l)) \in Nat
           /\ Cardinality(Alive(l)) < LevelMax
           /\ IsFiniteSet(Pairs(l)) /\ Cardinality(Pairs(l)) = 2 * Cardinality(Alive(l))
<1> DEFINE f == [m \in Alive(l) |-> l.rec[m].midx]
<1>1. f \in [Alive(l) -> Slots] /\ DOMAIN f = Alive(l) /\ \A m \in Alive(l) : f[m] = l.rec[m].midx
  BY AliveAt
<1> HIDE DEF f
<1>2. \A m, n \in Alive(l) : f[m] = f[n] => m = n
  BY <1>1, AliveAt
<1>3. f \in Injection(Alive(l), Slots)
  BY <1>1, <1>2 DEF Injection, IsInjective
<1>4. IsFiniteSet(Slots) /\ Cardinality(Slots) = LevelMax - 1
  BY AllSlots
<1>5. /\ IsFiniteSet(Alive(l)) /\ Cardinality(Alive(l)) \in Nat
      /\ Cardinality(Alive(l)) < LevelMax
  <2>1. /\ IsFiniteSet(Alive(l)) /\ Cardinality(Alive(l)) \in Nat
        /\ Cardinality(Alive(l)) <= Cardinality(Slots)
    BY <1>3, <1>4, FS_Injection, FS_CardinalityType
  <2> QED
    BY <1>4, <2>1, Sizes
<1>6. IsFiniteSet(1 .. 2) /\ Cardinality(1 .. 2) = 2
  <2>1. 1 \in Int /\ 2 \in Int
    OBVIOUS
  <2>2. IsFiniteSet(1 .. 2) /\ Cardinality(1 .. 2) = IF 1 > 2 THEN 0 ELSE 2 - 1 + 1
    BY <2>1, FS_Interval, Zenon
  <2> QED
    BY <2>2
<1>7. IsFiniteSet(Pairs(l)) /\ Cardinality(Pairs(l)) = Cardinality(Alive(l)) * Cardinality(1 .. 2)
  <2> DEFINE P == 1 .. 2
  <2>1. IsFiniteSet(P)
    BY <1>6
  <2> HIDE DEF P
  <2>2. IsFiniteSet(Alive(l) \X P) /\ Cardinality(Alive(l) \X P) = Cardinality(Alive(l)) * Cardinality(P)
    BY <1>5, <2>1, FS_Product
  <2> QED
    BY <2>2 DEF P, Pairs
<1> QED
  BY <1>5, <1>6, <1>7

\* Groups that pairs of Q lead are no more than those.
LEMMA FewLed ==
    ASSUME NEW l, NEW Q, IsFiniteSet(Q), NEW S, IsFiniteSet(S),
           \A g \in S : \E q \in Q : Info(l, q[1], q[2]).index = g
    PROVE  ~(Cardinality(Q) < Cardinality(S))
<1> SUFFICES ASSUME Cardinality(Q) < Cardinality(S) PROVE FALSE
  OBVIOUS
<1> DEFINE f == [g \in S |-> CHOOSE q \in Q : Info(l, q[1], q[2]).index = g]
<1>1. \A g \in S : f[g] \in Q /\ Info(l, f[g][1], f[g][2]).index = g
  OBVIOUS
<1>2. f \in [S -> Q]
  BY <1>1
<1> HIDE DEF f
<1>3. \E x, y \in S : x # y /\ f[x] = f[y]
  BY <1>2, FS_PigeonHole
<1> QED
  BY <1>1, <1>3

\* There are more groups than pairs that can lead one.  The least that is free is one
\* of the code's as long as there are fewer such pairs than groups of the code.
LEMMA SomeFree ==
    ASSUME NEW l \in Levels, NEW Q, IsFiniteSet(Q), Cardinality(Q) < MaxGroups,
           \A g \in GroupIndices : l.group[g] # NoGroup =>
               \E q \in Q : Info(l, q[1], q[2]).index = g
    PROVE  /\ monster_group_index_new(l) \in GroupIndices
           /\ l.group[monster_group_index_new(l)] = NoGroup
           /\ monster_group_index_new(l) < LevelMax \/ ~(Cardinality(Q) < LevelMax - 1)
<1> DEFINE Free == {g \in GroupIndices : l.group[g] = NoGroup}
<1>1. Free # {}
  <2> SUFFICES ASSUME Free = {} PROVE FALSE
    OBVIOUS
  <2>1. IsFiniteSet(GroupIndices) /\ Cardinality(GroupIndices) = MaxGroups
    BY Sizes, FS_Interval
  <2>2. \A g \in GroupIndices : \E q \in Q : Info(l, q[1], q[2]).index = g
    OBVIOUS
  <2> QED
    BY <2>1, <2>2, FewLed
<1>2. Free \in SUBSET Nat
  BY Sizes
<1>3. Min(Free) \in Free /\ \A g \in Free : Min(Free) <= g
  BY <1>1, <1>2, LeastOf
<1>4. monster_group_index_new(l) = Min(Free)
  BY DEF monster_group_index_new
<1>5. Min(Free) < LevelMax \/ ~(Cardinality(Q) < LevelMax - 1)
  <2> SUFFICES ASSUME ~(Min(Free) < LevelMax)
               PROVE  ~(Cardinality(Q) < Cardinality(Slots))
    BY AllSlots
  <2>1. \A g \in Slots : g \in GroupIndices /\ l.group[g] # NoGroup
    <3> SUFFICES ASSUME NEW g \in Slots PROVE g \in GroupIndices /\ l.group[g] # NoGroup
      OBVIOUS
    <3>1. g \in Int /\ 1 <= g /\ g < LevelMax /\ g \in GroupIndices
      BY Sizes DEF Slots
    <3>2. Min(Free) \in Int
      <4>1. Min(Free) \in Nat
        BY <1>2, <1>3, Zenon
      <4> QED
        BY <4>1
    <3>3. g \notin Free
      BY <1>3, <3>1, <3>2, Sizes
    <3> QED
      BY <3>1, <3>3
  <2>2. \A g \in Slots : \E q \in Q : Info(l, q[1], q[2]).index = g
    BY <2>1
  <2> QED
    BY <2>2, AllSlots, FewLed
<1> QED
  BY <1>3, <1>4, <1>5

\* The next group is one of the code's, or the monsters are half of those that fit.
Numbered(l) ==
    monster_group_index_new(l) < LevelMax \/ 2 * cave_monster_count(l) >= LevelMax

\* One is free for a monster whose record says of some other group, or of none.
LEMMA FreeGroup ==
    ASSUME NEW l \in Levels, Indexed(l), NEW m \in Alive(l), NEW w \in 1 .. 2,
           \A g \in GroupIndices : l.group[g] # NoGroup =>
               \E n \in Alive(l), v \in 1 .. 2 : <<n, v>> # <<m, w>> /\ Info(l, n, v).index = g
    PROVE  /\ monster_group_index_new(l) \in GroupIndices
           /\ l.group[monster_group_index_new(l)] = NoGroup
           /\ Numbered(l)
<1> DEFINE Q == Pairs(l) \ {<<m, w>>}
           C == Cardinality(Alive(l))
<1>1. /\ IsFiniteSet(Pairs(l)) /\ Cardinality(Pairs(l)) = 2 * C
      /\ C \in Nat /\ C < LevelMax
  BY FewPairs
<1>2. <<m, w>> \in Pairs(l)
  BY DEF Pairs
<1>3. IsFiniteSet(Q) /\ Cardinality(Q) = Cardinality(Pairs(l)) - 1
  BY <1>1, <1>2, FS_RemoveElement
<1>4. \A g \in GroupIndices : l.group[g] # NoGroup =>
         \E q \in Q : Info(l, q[1], q[2]).index = g
  <2> SUFFICES ASSUME NEW g \in GroupIndices, l.group[g] # NoGroup
               PROVE  \E q \in Q : Info(l, q[1], q[2]).index = g
    OBVIOUS
  <2>1. PICK n \in Alive(l), v \in 1 .. 2 : <<n, v>> # <<m, w>> /\ Info(l, n, v).index = g
    OBVIOUS
  <2>2. <<n, v>> \in Q /\ <<n, v>>[1] = n /\ <<n, v>>[2] = v
    BY <2>1 DEF Pairs
  <2> QED
    BY <2>1, <2>2
<1>5. cave_monster_count(l) = C
  BY DEF cave_monster_count
<1> HIDE DEF Q, C
<1>6. Cardinality(Q) = 2 * C - 1
  BY <1>1, <1>3
<1>7. Cardinality(Q) < MaxGroups
  BY <1>1, <1>6, Sizes
<1>8. /\ monster_group_index_new(l) \in GroupIndices
      /\ l.group[monster_group_index_new(l)] = NoGroup
      /\ monster_group_index_new(l) < LevelMax \/ ~(Cardinality(Q) < LevelMax - 1)
  BY <1>3, <1>4, <1>7, SomeFree
<1>9. ~(Cardinality(Q) < LevelMax - 1) => 2 * C >= LevelMax
  BY <1>1, <1>6, Sizes
<1> QED
  BY <1>5, <1>8, <1>9 DEF Numbered

-----------------------------------------------------------------------------
(* A monster starts a group, or joins one that there is.                   *)

\* The list, and all but the groups, are as before.
SameList(k, l) ==
    /\ k.slot = l.slot /\ k.max = l.max /\ k.target = l.target /\ k.health = l.health
    /\ k.quit = l.quit /\ (Enough(l) => Enough(k))

\* Only what the record says in one place is new.
NewInfo(k, l, m, w, x) ==
    /\ k \in Levels /\ SameList(k, l)
    /\ k.rec = [l.rec EXCEPT ![m] = WithInfo(l.rec[m], w, x)]

LEMMA InfoChanged ==
    ASSUME NEW l \in Levels, NEW m \in Monsters, NEW w \in 1 .. 2, NEW x \in Infos
    PROVE  LET k == [l EXCEPT !.rec[m].info[w] = x]
           IN  NewInfo(k, l, m, w, x) /\ k.group = l.group /\ k.short = l.short
<1> DEFINE k == [l EXCEPT !.rec[m].info[w] = x]
           r == WithInfo(l.rec[m], w, x)
           recs == [l.rec EXCEPT ![m] = r]
           info == [l.rec[m].info EXCEPT ![w] = x]
<1>1. l.rec \in [Monsters -> Recs] /\ l.rec[m] \in Recs
  BY LevelParts
<1>2. r \in Recs
  BY <1>1, OtherTypes
<1>3. [l.rec[m] EXCEPT !.info = info] = r
  <2> HIDE DEF info
  <2>1. l.rec[m] = RecOf(l.rec[m].midx, l.rec[m].square, l.rec[m].object, l.rec[m].info)
    BY <1>1 DEF Recs, RecOf
  <2>2. [l.rec[m] EXCEPT !.info = info] = RecOf(l.rec[m].midx, l.rec[m].square, l.rec[m].object, info)
    BY <1>1 DEF Recs, RecOf
  <2> QED
    BY <2>2 DEF WithInfo, info
<1>4. k = [l EXCEPT !.rec = [l.rec EXCEPT ![m] = [l.rec[m] EXCEPT !.info = info]]]
  OBVIOUS
<1>5. recs \in [Monsters -> Recs]
  BY <1>1, <1>2
<1>6. k = [l EXCEPT !.rec = recs]
  BY <1>3, <1>4
<1> HIDE DEF k, recs
<1>7. k = LevelOf(l.slot, l.max, recs, l.group, l.target, l.health, l.quit, l.short)
  BY <1>6 DEF Levels, LevelOf
<1>8. k \in Levels
  BY <1>5, <1>7, LevelParts, LevelTyped
<1>9. SameList(k, l) /\ k.rec = recs /\ k.group = l.group /\ k.short = l.short
  BY <1>7, LevelFields DEF SameList, Enough
<1> QED
  BY <1>8, <1>9 DEF NewInfo, k, recs

LEMMA GroupPut ==
    ASSUME NEW l \in Levels, NEW g \in GroupIndices, NEW group \in Groups
    PROVE  LET k == [l EXCEPT !.group[g] = group]
           IN  /\ k \in Levels /\ SameList(k, l) /\ k.rec = l.rec /\ k.short = l.short
               /\ k.group = [l.group EXCEPT ![g] = group]
<1> DEFINE k == [l EXCEPT !.group[g] = group]
           groups == [l.group EXCEPT ![g] = group]
<1>1. groups \in [GroupIndices -> Groups]
  BY LevelParts
<1>2. k = [l EXCEPT !.group = groups]
  OBVIOUS
<1> HIDE DEF k, groups
<1>3. k = LevelOf(l.slot, l.max, l.rec, groups, l.target, l.health, l.quit, l.short)
  BY <1>2 DEF Levels, LevelOf
<1>4. k \in Levels
  BY <1>1, <1>3, LevelParts, LevelTyped
<1>5. SameList(k, l) /\ k.rec = l.rec /\ k.group = groups /\ k.short = l.short
  BY <1>3, LevelFields DEF SameList, Enough
<1> QED
  BY <1>4, <1>5 DEF k, groups

\* The groups in G agree with the records, but for the claims in odd.
Agrees(l, G, odd) == KeptIn(G, l.group, Joined(l) \ odd, Led(l) \ odd)
OddLess(odd2, odd, G, i, g) ==
    \A j \in Indices, h \in G : <<j, h>> \in odd2 <=> <<j, h>> \in odd /\ ~(j = i /\ h = g)
OddMore(odd2, odd, G, i, g) ==
    \A j \in Indices, h \in G : <<j, h>> \in odd2 <=> <<j, h>> \in odd \/ (j = i /\ h = g)
Put(k, l) == k \in Levels /\ SameList(k, l) /\ k.rec = l.rec
Rest(k, l, g) == \A h \in GroupIndices \ {g} : k.group[h] = l.group[h]

\* The parts of monster_group_start().
LEMMA StartParts ==
    ASSUME NEW l \in Levels, Indexed(l), NEW m \in Monsters, NEW w \in 1 .. 2,
           l.rec[m].midx \in Slots, monster_group_index_new(l) \in GroupIndices, Numbered(l)
    PROVE  LET k == monster_group_start(l, m, w)
               g == monster_group_index_new(l)
               i == l.rec[m].midx
           IN  /\ NewInfo(k, l, m, w, Leader(g))
               /\ k.group = [l.group EXCEPT ![g] = [leader |-> i, members |-> <<i>>]]
<1> DEFINE k == monster_group_start(l, m, w)
           g == monster_group_index_new(l)
           i == l.rec[m].midx
           group == [leader |-> i, members |-> <<i>>]
           put == [l EXCEPT !.group[g] = group]
           x == Leader(g)
           new == [put EXCEPT !.rec[m].info[w] = x]
           C == cave_monster_count(l)
<1>1. group \in Groups
  <2>1. i \in Places
    BY Sizes
  <2>2. <<i>> \in Seq(Slots)
    OBVIOUS
  <2> QED
    BY <2>1, <2>2, GroupTypes
<1>2. k = [new EXCEPT !.short = IF g < LevelMax THEN @ ELSE C]
  BY DEF monster_group_start, Leader
<1> HIDE DEF k, g, i, group
<1>3. /\ put \in Levels /\ SameList(put, l) /\ put.rec = l.rec /\ put.short = l.short
      /\ put.group = [l.group EXCEPT ![g] = group]
  BY <1>1, GroupPut DEF g
<1>4. x \in Infos
  BY InfoTypes DEF g
<1> HIDE DEF put, x
<1>5. NewInfo(new, put, m, w, x) /\ new.group = put.group /\ new.short = put.short
  BY <1>3, <1>4, InfoChanged
<1> HIDE DEF new
<1>6. C \in 0 .. LevelMax /\ (g < LevelMax \/ 2 * C >= LevelMax)
  <2>1. C \in Nat /\ C < LevelMax
    BY FewPairs DEF cave_monster_count
  <2> QED
    BY <2>1, Sizes DEF Numbered, g
<1> HIDE DEF C
<1> DEFINE lack == IF g < LevelMax THEN new.short ELSE C
<1>7. new \in Levels
  BY <1>5 DEF NewInfo
<1>8. lack \in 0 .. LevelMax
  BY <1>6, <1>7, LevelParts
<1>9. k = [new EXCEPT !.short = lack]
  BY <1>2
<1>10. Enough(l) => (lack # 0 => 2 * lack >= LevelMax)
  BY <1>3, <1>5, <1>6 DEF Enough
<1> HIDE DEF lack
<1>11. k = LevelOf(new.slot, new.max, new.rec, new.group, new.target, new.health, new.quit, lack)
  BY <1>7, <1>9 DEF Levels, LevelOf
<1>12. k \in Levels
  BY <1>7, <1>8, <1>11, LevelParts, LevelTyped
<1>13. /\ k.slot = new.slot /\ k.max = new.max /\ k.rec = new.rec /\ k.group = new.group
       /\ k.target = new.target /\ k.health = new.health /\ k.quit = new.quit
       /\ k.short = lack
  BY <1>11, LevelFields
<1>14. Enough(l) => Enough(k)
  BY <1>10, <1>13 DEF Enough
<1>15. NewInfo(k, l, m, w, x)
  BY <1>3, <1>5, <1>12, <1>13, <1>14 DEF NewInfo, SameList
<1> QED
  BY <1>3, <1>5, <1>13, <1>15 DEF k, g, i, group, x

\* A group is started: the claim it answers is met, and the one it replaces was odd.
LEMMA Started ==
    ASSUME NEW l \in Levels, Indexed(l), NEW m \in Alive(l), NEW w \in 1 .. 2,
           NEW odd, NEW odd2, NEW G \in SUBSET GroupIndices, Agrees(l, G, odd),
           NEW g, g = monster_group_index_new(l), g \in G, l.group[g] = NoGroup, Numbered(l),
           NEW i, i = l.rec[m].midx,
           Info(l, m, w).index \in G => <<i, Info(l, m, w).index>> \in odd,
           OddLess(odd2, odd, G, i, g)
    PROVE  LET k == monster_group_start(l, m, w)
           IN  /\ NewInfo(k, l, m, w, Leader(g)) /\ Indexed(k)
               /\ Agrees(k, G, odd2) /\ k.group[g] # NoGroup /\ Rest(k, l, g)
<1> KeptIn(G, l.group, Joined(l) \ odd, Led(l) \ odd)
  BY DEF Agrees
<1> \A j \in Indices, h \in G : <<j, h>> \in odd2 <=> <<j, h>> \in odd /\ ~(j = i /\ h = g)
  BY DEF OddLess
<1> DEFINE k == monster_group_start(l, m, w)
           group == [leader |-> i, members |-> <<i>>]
<1>1. m \in Monsters /\ i \in Slots /\ i \in Indices
  BY AliveAt
<1>2. NewInfo(k, l, m, w, Leader(g)) /\ k.group = [l.group EXCEPT ![g] = group]
  BY <1>1, StartParts
<1> HIDE DEF k
<1>3. Leader(g) \in Infos /\ Leader(g).index = g /\ g # 0
  BY InfoTypes, Sizes
<1>4. /\ Indexed(k) /\ Alive(k) = Alive(l)
      /\ \A j \in Indices, h \in GroupIndices :
            IF j = i
            THEN /\ <<j, h>> \in Joined(k) <=> Leader(g).index = h \/ Info(l, m, Other(w)).index = h
                 /\ <<j, h>> \in Led(k) <=> Leader(g) = Leader(h) \/ Info(l, m, Other(w)) = Leader(h)
            ELSE /\ <<j, h>> \in Joined(k) <=> <<j, h>> \in Joined(l)
                 /\ <<j, h>> \in Led(k) <=> <<j, h>> \in Led(l)
  <2>1. k.slot = l.slot /\ k.rec = [l.rec EXCEPT ![m] = WithInfo(l.rec[m], w, Leader(g))]
    BY <1>2 DEF NewInfo, SameList
  <2> QED
    BY <1>3, <2>1, OtherInfo
<1>5. \A h \in GroupIndices :
         /\ <<i, h>> \in Joined(l) <=> Info(l, m, w).index = h \/ Info(l, m, Other(w)).index = h
         /\ <<i, h>> \in Led(l) <=> Info(l, m, w) = Leader(h) \/ Info(l, m, Other(w)) = Leader(h)
  <2>1. l.slot[i] = m /\ m # Nobody
    BY AliveAt
  <2>2. (w = 1 /\ Other(w) = 2) \/ (w = 2 /\ Other(w) = 1)
    BY DEF Other
  <2> QED
    BY <1>1, <2>1, <2>2, Claims
<1>6. Info(l, m, w) \in Infos
  <2>1. l.rec[m] \in Recs
    BY <1>1, LevelParts
  <2> QED
    BY <2>1, RecTypes DEF Info
<1>7. \A h \in G \ {g} : \A j \in Indices :
         /\ <<j, h>> \in Joined(k) \ odd2 <=> <<j, h>> \in Joined(l) \ odd
         /\ <<j, h>> \in Led(k) \ odd2 <=> <<j, h>> \in Led(l) \ odd
  <2> SUFFICES ASSUME NEW h \in G \ {g}, NEW j \in Indices
               PROVE  /\ <<j, h>> \in Joined(k) \ odd2 <=> <<j, h>> \in Joined(l) \ odd
                      /\ <<j, h>> \in Led(k) \ odd2 <=> <<j, h>> \in Led(l) \ odd
    OBVIOUS
  <2>1. <<j, h>> \in odd2 <=> <<j, h>> \in odd
    OBVIOUS
  <2>2. CASE j # i
    BY <1>4, <2>1, <2>2
  <2>3. CASE j = i
    <3>1. Leader(g).index # h /\ Leader(g) # Leader(h) /\ h # 0
      BY <1>3, InfoTypes, Sizes
    <3>2. Info(l, m, w).index = h => <<j, h>> \in odd
      BY <2>3, <3>1
    <3>3. Info(l, m, w) = Leader(h) => Info(l, m, w).index = h
      BY <1>6, InfoTypes
    <3> QED
      BY <1>4, <1>5, <2>1, <2>3, <3>1, <3>2, <3>3
  <2> QED
    BY <2>2, <2>3
<1>8. \A j \in Indices : <<j, g>> \notin Joined(l) \ odd /\ <<j, g>> \notin Led(l) \ odd
  <2>1. KeptGroup(NoGroup, g, Joined(l) \ odd, Led(l) \ odd)
    BY DEF KeptIn
  <2>2. \A j \in Indices : j # 0
    BY Sizes
  <2> QED
    BY <2>1, <2>2, GroupTypes, NoMember DEF KeptGroup
<1>9. \A j \in Indices : /\ <<j, g>> \in Joined(k) \ odd2 <=> j = i
                         /\ <<j, g>> \in Led(k) \ odd2 <=> j = i
  BY <1>1, <1>3, <1>4, <1>8
<1>10. group \in Groups /\ group # NoGroup /\ KeptGroup(group, g, Joined(k) \ odd2, Led(k) \ odd2)
  BY <1>1, <1>9, StartedGroup
<1> HIDE DEF group
<1>12. l.group \in [GroupIndices -> Groups]
  BY LevelParts
<1>13. KeptIn(G, k.group, Joined(k) \ odd2, Led(k) \ odd2)
  BY <1>2, <1>7, <1>10, <1>12, GroupChanged
<1>14. k.group[g] = group /\ \A h \in GroupIndices \ {g} : k.group[h] = l.group[h]
  BY <1>2, <1>12
<1> QED
  BY <1>2, <1>4, <1>10, <1>13, <1>14 DEF k, Agrees, Rest

LEMMA SameRecords ==
    ASSUME NEW l, NEW k, k.slot = l.slot, k.rec = l.rec
    PROVE  /\ Alive(k) = Alive(l) /\ Joined(k) = Joined(l) /\ Led(k) = Led(l)
           /\ Indexed(k) <=> Indexed(l)
           /\ WellGrouped(k) <=> WellGrouped(l)
<1>1. Alive(k) = Alive(l)
  BY DEF Alive
<1>2. \A m, w : Info(k, m, w) = Info(l, m, w)
  BY DEF Info
<1>3. Joined(k) = Joined(l) /\ Led(k) = Led(l)
  BY <1>2 DEF Joined, Led
<1> QED
  BY <1>1, <1>2, <1>3 DEF Indexed, WellGrouped

\* A monster is added to the group its record says: that claim is odd no more.
LEMMA Added ==
    ASSUME NEW l \in Levels, Indexed(l), NEW m \in Alive(l), NEW odd, NEW odd2,
           NEW G \in SUBSET GroupIndices, Agrees(l, G, odd),
           NEW g \in G, l.group[g] # NoGroup, NEW i, i = l.rec[m].midx,
           <<i, g>> \in Joined(l), <<i, g>> \notin Led(l), <<i, g>> \in odd,
           OddLess(odd2, odd, G, i, g)
    PROVE  LET next == monster_add_to_group(l, m, g)
           IN  /\ Put(next, l) /\ Agrees(next, G, odd2) /\ next.group[g] # NoGroup
               /\ Rest(next, l, g)
<1> KeptIn(G, l.group, Joined(l) \ odd, Led(l) \ odd)
  BY DEF Agrees
<1> \A j \in Indices, h \in G : <<j, h>> \in odd2 <=> <<j, h>> \in odd /\ ~(j = i /\ h = g)
  BY DEF OddLess
<1> DEFINE next == monster_add_to_group(l, m, g)
           group == WithMember(l.group[g], i)
<1>1. i \in Slots /\ i \in Indices /\ g \in GroupIndices
  BY AliveAt
<1>2. l.group \in [GroupIndices -> Groups] /\ l.group[g] \in Groups
  BY <1>1, LevelParts
<1>3. next = [l EXCEPT !.group[g] = group]
  BY DEF monster_add_to_group, WithMember
<1>4. KeptGroup(l.group[g], g, Joined(l) \ odd, Led(l) \ odd)
  BY DEF KeptIn
<1>5. \A j \in Indices :
         /\ <<j, g>> \in Joined(l) \ odd2 <=> j = i \/ <<j, g>> \in Joined(l) \ odd
         /\ <<j, g>> \in Led(l) \ odd2 <=> <<j, g>> \in Led(l) \ odd
  OBVIOUS
<1>6. group \in Groups /\ group # NoGroup /\ KeptGroup(group, g, Joined(l) \ odd2, Led(l) \ odd2)
  <2> DEFINE old == l.group[g]
             J == Joined(l) \ odd
             L == Led(l) \ odd
             J2 == Joined(l) \ odd2
             L2 == Led(l) \ odd2
  <2>1. old \in Groups /\ old # NoGroup /\ KeptGroup(old, g, J, L) /\ <<i, g>> \notin J
    BY <1>2, <1>4
  <2>2. OneMore(J2, J, g, i) /\ Alike(L2, L, g)
    BY <1>5 DEF OneMore, Alike
  <2> HIDE DEF old, J, L, J2, L2
  <2>3. /\ WithMember(old, i) \in Groups /\ WithMember(old, i) # NoGroup
        /\ KeptGroup(WithMember(old, i), g, J2, L2)
    BY <1>1, <2>1, <2>2, JoinedGroup
  <2> QED
    BY <2>3 DEF old, J, L, J2, L2
<1> HIDE DEF next, group
<1>7. next \in Levels /\ SameList(next, l) /\ next.rec = l.rec /\ next.group = [l.group EXCEPT ![g] = group]
  BY <1>1, <1>3, <1>6, GroupPut
<1>8. Joined(next) = Joined(l) /\ Led(next) = Led(l)
  BY <1>7, SameRecords DEF SameList
<1>9. \A h \in G \ {g} : \A j \in Indices :
         /\ <<j, h>> \in Joined(l) \ odd2 <=> <<j, h>> \in Joined(l) \ odd
         /\ <<j, h>> \in Led(l) \ odd2 <=> <<j, h>> \in Led(l) \ odd
  OBVIOUS
<1>10. KeptIn(G, next.group, Joined(next) \ odd2, Led(next) \ odd2)
  BY <1>1, <1>2, <1>6, <1>7, <1>8, <1>9, GroupChanged
<1>11. next.group[g] = group /\ \A h \in GroupIndices \ {g} : next.group[h] = l.group[h]
  BY <1>1, <1>2, <1>7
<1> QED
  BY <1>6, <1>7, <1>10, <1>11 DEF next, Agrees, Put, Rest

Says(k, l, m, w, x) == k = [l EXCEPT !.rec[m].info[w] = x]
SameGroups(k, l) == k.group = l.group

\* A record says of another group, which is odd until the monster is in it; what it
\* said before is of no account.
LEMMA Reassigned ==
    ASSUME NEW l \in Levels, Indexed(l), NEW m \in Alive(l), NEW w \in 1 .. 2, NEW x \in Infos,
           NEW odd, NEW odd2, NEW G \in SUBSET GroupIndices,
           Agrees(l, G, odd), NEW i, i = l.rec[m].midx,
           Info(l, m, w).index \in G => <<i, Info(l, m, w).index>> \in odd,
           x.index \in G => <<i, x.index>> \notin Joined(l),
           OddMore(odd2, odd, G, i, x.index), NEW k, Says(k, l, m, w, x)
    PROVE  /\ NewInfo(k, l, m, w, x) /\ Indexed(k) /\ SameGroups(k, l) /\ Agrees(k, G, odd2)
           /\ x.index \in G => /\ <<i, x.index>> \in Joined(k)
                               /\ x.role # "leader" => <<i, x.index>> \notin Led(k)
<1> KeptIn(G, l.group, Joined(l) \ odd, Led(l) \ odd)
  BY DEF Agrees
<1> \A j \in Indices, h \in G :
        <<j, h>> \in odd2 <=> <<j, h>> \in odd \/ (j = i /\ h = x.index)
  BY DEF OddMore
<1>1. m \in Monsters /\ i \in Indices
  BY AliveAt
<1>2. NewInfo(k, l, m, w, x) /\ k.group = l.group
  BY <1>1, InfoChanged DEF Says
<1>3. /\ Indexed(k) /\ Alive(k) = Alive(l)
      /\ \A j \in Indices, h \in GroupIndices :
            IF j = i
            THEN /\ <<j, h>> \in Joined(k) <=> x.index = h \/ Info(l, m, Other(w)).index = h
                 /\ <<j, h>> \in Led(k) <=> x = Leader(h) \/ Info(l, m, Other(w)) = Leader(h)
            ELSE /\ <<j, h>> \in Joined(k) <=> <<j, h>> \in Joined(l)
                 /\ <<j, h>> \in Led(k) <=> <<j, h>> \in Led(l)
  <2>1. k.slot = l.slot /\ k.rec = [l.rec EXCEPT ![m] = WithInfo(l.rec[m], w, x)]
    BY <1>2 DEF NewInfo, SameList
  <2> QED
    BY <2>1, OtherInfo
<1>4. \A h \in GroupIndices :
         /\ <<i, h>> \in Joined(l) <=> Info(l, m, w).index = h \/ Info(l, m, Other(w)).index = h
         /\ <<i, h>> \in Led(l) <=> Info(l, m, w) = Leader(h) \/ Info(l, m, Other(w)) = Leader(h)
  <2>1. l.slot[i] = m /\ m # Nobody
    BY AliveAt
  <2>2. (w = 1 /\ Other(w) = 2) \/ (w = 2 /\ Other(w) = 1)
    BY DEF Other
  <2> QED
    BY <1>1, <2>1, <2>2, Claims
<1>5. Info(l, m, w) \in Infos /\ Info(l, m, Other(w)) \in Infos
  <2>1. l.rec[m] \in Recs /\ (w = 1 \/ w = 2) /\ (Other(w) = 1 \/ Other(w) = 2)
    BY <1>1, LevelParts DEF Other
  <2> QED
    BY <2>1, RecTypes DEF Info
<1>6. \A j \in Indices, h \in G :
         /\ <<j, h>> \in Joined(k) \ odd2 <=> <<j, h>> \in Joined(l) \ odd
         /\ <<j, h>> \in Led(k) \ odd2 <=> <<j, h>> \in Led(l) \ odd
  <2> SUFFICES ASSUME NEW j \in Indices, NEW h \in G
               PROVE  /\ <<j, h>> \in Joined(k) \ odd2 <=> <<j, h>> \in Joined(l) \ odd
                      /\ <<j, h>> \in Led(k) \ odd2 <=> <<j, h>> \in Led(l) \ odd
    OBVIOUS
  <2>1. CASE j # i
    BY <1>3, <2>1
  <2>2. CASE j = i /\ h = x.index
    <3>1. <<j, h>> \notin Joined(l) /\ <<j, h>> \notin Led(l) /\ <<j, h>> \in odd2
      BY <2>2, LedJoined
    <3> QED
      BY <3>1
  <2>3. CASE j = i /\ h # x.index
    <3>1. <<j, h>> \in odd2 <=> <<j, h>> \in odd
      BY <2>3
    <3>2. Info(l, m, w).index = h => <<j, h>> \in odd
      BY <2>3
    <3>3. Info(l, m, w) = Leader(h) => Info(l, m, w).index = h
      BY <1>5, InfoTypes
    <3>4. x # Leader(h)
      BY <2>3, InfoTypes
    <3> QED
      BY <1>3, <1>4, <2>3, <3>1, <3>2, <3>3, <3>4
  <2> QED
    BY <2>1, <2>2, <2>3
<1>7. KeptIn(G, k.group, Joined(k) \ odd2, Led(k) \ odd2)
  BY <1>2, <1>6, SameClaims
<1>8. ASSUME x.index \in G
      PROVE  /\ <<i, x.index>> \in Joined(k)
             /\ x.role # "leader" => <<i, x.index>> \notin Led(k)
  <2>1. x.index \in GroupIndices
    BY <1>8
  <2>2. <<i, x.index>> \in Joined(k)
    BY <1>1, <1>3, <2>1
  <2>3. ASSUME x.role # "leader" PROVE <<i, x.index>> \notin Led(k)
    <3>1. x # Leader(x.index)
      BY <2>3, InfoTypes
    <3>2. Info(l, m, Other(w)) # Leader(x.index)
      <4>1. Info(l, m, Other(w)).index # x.index
        BY <1>1, <1>4, <1>8, <2>1
      <4> QED
        BY <1>5, <4>1, InfoTypes
    <3> QED
      BY <1>1, <1>3, <2>1, <3>1, <3>2
  <2> QED
    BY <2>2, <2>3
<1> QED
  BY <1>2, <1>3, <1>7, <1>8 DEF Agrees, SameGroups

LEMMA NewInfoIs ==
    ASSUME NEW l \in Levels, NEW m \in Monsters, NEW w \in 1 .. 2, NEW x \in Infos,
           NEW k, NewInfo(k, l, m, w, x)
    PROVE  /\ Info(k, m, w) = x /\ Info(k, m, Other(w)) = Info(l, m, Other(w))
           /\ k.rec[m].midx = l.rec[m].midx
           /\ \A n \in Monsters \ {m} : k.rec[n] = l.rec[n]
<1> DEFINE r == WithInfo(l.rec[m], w, x)
<1>1. l.rec \in [Monsters -> Recs] /\ l.rec[m] \in Recs
  BY LevelParts
<1>2. r.midx = l.rec[m].midx /\ r.info[w] = x /\ r.info[Other(w)] = l.rec[m].info[Other(w)]
  BY <1>1, OtherTypes
<1> HIDE DEF r
<1>3. k.rec = [l.rec EXCEPT ![m] = r]
  BY DEF NewInfo, r
<1>4. k.rec[m] = r /\ \A n \in Monsters \ {m} : k.rec[n] = l.rec[n]
  BY <1>1, <1>3
<1> QED
  BY <1>2, <1>4 DEF Info

\* Nobody is said to be in a group that there is not.
LEMMA NoClaims ==
    ASSUME NEW groups, NEW joined, NEW led, NEW G, KeptIn(G, groups, joined, led),
           NEW g \in G, groups[g] = NoGroup
    PROVE  \A j \in Indices : <<j, g>> \notin joined /\ <<j, g>> \notin led
<1>1. KeptGroup(NoGroup, g, joined, led)
  BY DEF KeptIn
<1>2. \A j \in Indices : j # 0
  BY Sizes
<1> QED
  BY <1>1, <1>2, GroupTypes, NoMember DEF KeptGroup

-----------------------------------------------------------------------------
(* A group falls apart.                                                    *)

\* The leader m of group g is out of it, and so are its claims in odd.
Leaderless(l, m, g, odd) ==
    /\ l \in Levels /\ Indexed(l) /\ WellGrouped(l) /\ Enough(l)
    /\ m \in Alive(l) /\ g \in GroupIndices /\ l.group[g] # NoGroup
    /\ IsInjective(l.group[g].members)
    /\ \A j \in Indices :
          /\ j \in ToSet(l.group[g].members) <=> <<j, g>> \in Joined(l) /\ j # l.rec[m].midx
          /\ <<j, g>> \in Led(l) <=> j = l.rec[m].midx
    /\ Agrees(l, GroupIndices \ {g}, odd)
    /\ \A j \in Indices, h \in GroupIndices : <<j, h>> \in odd => j = l.rec[m].midx

\* The others are in the group in the first place; the leader leads it in either.
LEMMA LeaderlessMembers ==
    ASSUME NEW l, NEW m, NEW g, NEW odd, Leaderless(l, m, g, odd)
    PROVE  /\ \A j \in ToSet(l.group[g].members) :
                 /\ j \in Slots /\ j \in Indices /\ j # l.rec[m].midx
                 /\ l.slot[j] \in Alive(l) \ {m} /\ l.rec[l.slot[j]].midx = j
                 /\ Info(l, l.slot[j], 1).index = g /\ Info(l, l.slot[j], 2).index # g
           /\ \A n \in Alive(l) \ {m} :
                 /\ l.rec[n].midx \in Indices /\ l.slot[l.rec[n].midx] = n
                 /\ l.rec[n].midx # l.rec[m].midx /\ Info(l, n, 2).index # g
                 /\ Info(l, n, 1).index = g => l.rec[n].midx \in ToSet(l.group[g].members)
           /\ \E w \in 1 .. 2 : Info(l, m, w).index = g
<1>1. /\ l \in Levels /\ Indexed(l) /\ WellGrouped(l) /\ m \in Alive(l) /\ g \in GroupIndices
      /\ \A j \in Indices :
            /\ j \in ToSet(l.group[g].members) <=> <<j, g>> \in Joined(l) /\ j # l.rec[m].midx
            /\ <<j, g>> \in Led(l) <=> j = l.rec[m].midx
  BY DEF Leaderless
<1>2. ToSet(l.group[g].members) \subseteq Slots /\ Slots \subseteq Indices
  BY <1>1, LevelParts, GroupTypes, Sizes
<1>3. ASSUME NEW n \in Alive(l) \ {m}
      PROVE  /\ n \in Monsters /\ l.rec[n].midx \in Indices /\ l.slot[l.rec[n].midx] = n
             /\ l.rec[n].midx # l.rec[m].midx /\ Info(l, n, 2).index # g
             /\ Info(l, n, 1).index = g => l.rec[n].midx \in ToSet(l.group[g].members)
  <2> DEFINE j == l.rec[n].midx
  <2>1. /\ n \in Monsters /\ n # Nobody /\ j \in Indices /\ l.slot[j] = n
        /\ l.slot[l.rec[m].midx] = m
    BY <1>1, AliveAt
  <2>2. j # l.rec[m].midx
    BY <2>1
  <2> HIDE DEF j
  <2>3. ASSUME Info(l, n, 2).index = g PROVE FALSE
    <3>1. Info(l, n, 2) = Leader(g)
      BY <1>1, <2>3, Sizes DEF WellGrouped
    <3>2. <<j, g>> \in Led(l)
      BY <1>1, <2>1, <3>1, Claims
    <3> QED
      BY <1>1, <2>1, <2>2, <3>2
  <2>4. ASSUME Info(l, n, 1).index = g PROVE j \in ToSet(l.group[g].members)
    <3>1. <<j, g>> \in Joined(l)
      BY <1>1, <2>1, <2>4, Claims
    <3> QED
      BY <1>1, <2>1, <2>2, <3>1
  <2> QED
    BY <2>1, <2>2, <2>3, <2>4 DEF j
<1>4. ASSUME NEW j \in ToSet(l.group[g].members)
      PROVE  /\ j \in Slots /\ j \in Indices /\ j # l.rec[m].midx
             /\ l.slot[j] \in Alive(l) \ {m} /\ l.rec[l.slot[j]].midx = j
             /\ Info(l, l.slot[j], 1).index = g /\ Info(l, l.slot[j], 2).index # g
  <2>1. j \in Slots /\ j \in Indices /\ <<j, g>> \in Joined(l) /\ j # l.rec[m].midx
    BY <1>1, <1>2
  <2>2. l.slot[j] \in Alive(l) /\ l.rec[l.slot[j]].midx = j
    BY <1>1, <2>1, Claims, AliveAt
  <2>3. l.slot[j] \in Alive(l) \ {m}
    BY <2>1, <2>2
  <2>4. Info(l, l.slot[j], 2).index # g
    BY <1>3, <2>3
  <2> QED
    BY <1>1, <2>1, <2>2, <2>3, <2>4, Claims
<1>5. \E w \in 1 .. 2 : Info(l, m, w).index = g
  <2> DEFINE i == l.rec[m].midx
  <2>1. i \in Indices /\ l.slot[i] = m
    BY <1>1, AliveAt
  <2>2. <<i, g>> \in Led(l)
    BY <1>1, <2>1
  <2> HIDE DEF i
  <2>3. Info(l, m, 1) = Leader(g) \/ Info(l, m, 2) = Leader(g)
    BY <1>1, <2>1, <2>2, Claims
  <2>4. Leader(g).index = g /\ 1 \in 1 .. 2 /\ 2 \in 1 .. 2
    BY <1>1, InfoTypes
  <2> QED
    BY <2>3, <2>4
<1> QED
  BY <1>3, <1>4, <1>5, Zenon

LEMMA PutSame ==
    ASSUME NEW l, NEW k, Put(k, l)
    PROVE  /\ k \in Levels /\ SameList(k, l) /\ Alive(k) = Alive(l)
           /\ Joined(k) = Joined(l) /\ Led(k) = Led(l)
           /\ Indexed(k) <=> Indexed(l)
           /\ WellGrouped(k) <=> WellGrouped(l)
           /\ Enough(l) => Enough(k)
           /\ \A n, w : k.rec[n] = l.rec[n] /\ Info(k, n, w) = Info(l, n, w)
  BY SameRecords DEF Put, SameList, Info

LEMMA SameLists ==
    ASSUME NEW l, NEW k, SameList(k, l)
    PROVE  Alive(k) = Alive(l) /\ (Enough(l) => Enough(k))
  BY DEF SameList, Alive

LEMMA SameListTwice ==
    ASSUME NEW l, NEW k, NEW j, SameList(k, l), SameList(j, k)
    PROVE  SameList(j, l)
  BY DEF SameList

\* The level c and the new groups so far, for the level l before.
Splitting(c, new, l, m, g, odd) ==
    /\ c \in Levels /\ SameList(c, l) /\ Indexed(c)
    /\ c.group[g] = l.group[g] /\ c.rec[m] = l.rec[m]
    /\ Agrees(c, GroupIndices \ {g}, odd)
    /\ new \subseteq GroupIndices \ {g} /\ \A t \in new : c.group[t] # NoGroup
    /\ \A n \in Alive(l) \ {m} :
          /\ Info(c, n, 1).index # 0 /\ Info(c, n, 2) = Info(l, n, 2)
          /\ Info(l, n, 2).index # Info(c, n, 1).index
          /\ Info(l, n, 2).index \notin new

LEMMA SplittingParts ==
    ASSUME NEW l, NEW m, NEW g, NEW odd, Leaderless(l, m, g, odd),
           NEW c, NEW new, Splitting(c, new, l, m, g, odd),
           NEW k \in ToSet(l.group[g].members), NEW p, p = l.slot[k]
    PROVE  /\ l \in Levels /\ Indexed(l) /\ m \in Alive(l) /\ g \in GroupIndices
           /\ k \in Indices /\ k # l.rec[m].midx /\ p \in Alive(l) \ {m} /\ l.rec[p].midx = k
           /\ p \in Alive(c) /\ m \in Alive(c) /\ p \in Monsters /\ m \in Monsters
           /\ c.rec[p].midx = k /\ c.slot[k] = p /\ p # Nobody
           /\ c \in Levels /\ Indexed(c) /\ Enough(c) /\ Alive(c) = Alive(l)
<1>1. /\ l \in Levels /\ Indexed(l) /\ m \in Alive(l) /\ g \in GroupIndices /\ Enough(l)
  BY DEF Leaderless
<1>2. /\ k \in Indices /\ k # l.rec[m].midx /\ p \in Alive(l) \ {m} /\ l.rec[p].midx = k
  BY LeaderlessMembers
<1>3. c \in Levels /\ SameList(c, l) /\ Indexed(c)
  BY DEF Splitting
<1>4. Alive(c) = Alive(l) /\ (Enough(l) => Enough(c)) /\ c.slot[k] = p
  BY <1>3, SameLists DEF SameList
<1>5. p # Nobody /\ p \in Monsters /\ m \in Monsters
  BY <1>1, <1>2, AliveAt
<1>6. c.rec[p].midx = k
  BY <1>2, <1>3, <1>4, <1>5, AliveAt
<1> QED
  BY <1>1, <1>2, <1>3, <1>4, <1>5, <1>6

Turned(k, l, p, g) ==
    Info(k, p, 1).index # g /\ \A n \in Monsters \ {p} : k.rec[n] = l.rec[n]
Member(t) == [index |-> t, role |-> "member"]

\* p joins those of its kin.
LEMMA RegroupJoins ==
    ASSUME NEW l, NEW m, NEW g, NEW odd, Leaderless(l, m, g, odd),
           NEW c, NEW new, Splitting(c, new, l, m, g, odd),
           NEW k \in ToSet(l.group[g].members), NEW p, p = l.slot[k],
           Info(c, p, 1).index = g, NEW t \in new, NEW x, x = Member(t),
           NEW joined, Says(joined, c, p, 1, x)
    PROVE  LET next == monster_add_to_group(joined, p, t)
           IN  Splitting(next, new, l, m, g, odd) /\ Turned(next, c, p, g)
<1> DEFINE next == monster_add_to_group(joined, p, t)
           G == GroupIndices \ {g}
           X == odd \cup {<<k, t>>}
<1>1. /\ c \in Levels /\ SameList(c, l) /\ Indexed(c) /\ c.group[g] = l.group[g]
      /\ c.rec[m] = l.rec[m] /\ Agrees(c, G, odd)
      /\ new \subseteq G /\ \A u \in new : c.group[u] # NoGroup
      /\ \A n \in Alive(l) \ {m} :
            /\ Info(c, n, 1).index # 0 /\ Info(c, n, 2) = Info(l, n, 2)
            /\ Info(l, n, 2).index # Info(c, n, 1).index
            /\ Info(l, n, 2).index \notin new
  BY DEF Splitting
<1>2. /\ l \in Levels /\ Indexed(l) /\ m \in Alive(l) /\ g \in GroupIndices
      /\ k \in Indices /\ k # l.rec[m].midx /\ p \in Alive(l) \ {m} /\ l.rec[p].midx = k
      /\ p \in Alive(c) /\ m \in Alive(c) /\ p \in Monsters /\ m \in Monsters
      /\ c.rec[p].midx = k /\ c.slot[k] = p /\ p # Nobody
  BY SplittingParts
<1>3. \A j \in Indices, h \in GroupIndices : <<j, h>> \in odd => j = l.rec[m].midx
  BY DEF Leaderless
<1>4. t \in G /\ t # g /\ t \in GroupIndices /\ c.group[t] # NoGroup /\ t # 0
  BY <1>1, Sizes
<1>5. x \in Infos /\ x.index = t /\ x.role # "leader"
  BY <1>4, InfoTypes DEF Infos, Roles, Member
<1>6. <<k, t>> \notin Joined(c)
  BY <1>1, <1>2, <1>4, Claims
<1>7. <<k, t>> \in X /\ OddMore(X, odd, G, k, x.index) /\ OddLess(odd, X, G, k, t)
  <2>1. <<k, t>> \notin odd
    BY <1>2, <1>3, <1>4
  <2>2. \A j, h : <<j, h>> \in X <=> <<j, h>> \in odd \/ (j = k /\ h = t)
    OBVIOUS
  <2> HIDE DEF X
  <2> QED
    BY <1>5, <2>1, <2>2 DEF OddMore, OddLess
<1>8. G \in SUBSET GroupIndices /\ Info(c, p, 1).index \notin G /\ 1 \in 1 .. 2 /\ Other(1) = 2
  BY DEF Other
<1> HIDE DEF X, G, next
<1>9. /\ NewInfo(joined, c, p, 1, x) /\ Indexed(joined)
      /\ joined.group = c.group /\ Agrees(joined, G, X)
      /\ <<k, t>> \in Joined(joined) /\ <<k, t>> \notin Led(joined)
  <2>1. /\ c \in Levels /\ Indexed(c) /\ p \in Alive(c) /\ 1 \in 1 .. 2 /\ x \in Infos
        /\ G \in SUBSET GroupIndices /\ Agrees(c, G, odd) /\ k = c.rec[p].midx
        /\ OddMore(X, odd, G, k, x.index) /\ Says(joined, c, p, 1, x)
        /\ Info(c, p, 1).index \in G => <<k, Info(c, p, 1).index>> \in odd
        /\ x.index \in G => <<k, x.index>> \notin Joined(c)
    BY <1>1, <1>2, <1>5, <1>6, <1>7, <1>8
  <2>2. /\ NewInfo(joined, c, p, 1, x) /\ Indexed(joined) /\ SameGroups(joined, c)
        /\ Agrees(joined, G, X)
        /\ x.index \in G => /\ <<k, x.index>> \in Joined(joined)
                            /\ x.role # "leader" => <<k, x.index>> \notin Led(joined)
    BY <2>1, Reassigned
  <2> QED
    BY <1>4, <1>5, <2>2 DEF SameGroups
<1>10. joined \in Levels /\ SameList(joined, c) /\ p \in Alive(joined)
  BY <1>1, <1>2, <1>9, SameLists DEF NewInfo
<1>11. /\ Info(joined, p, 1) = x /\ Info(joined, p, 2) = Info(c, p, 2) /\ joined.rec[p].midx = k
       /\ \A n \in Monsters \ {p} : joined.rec[n] = c.rec[n]
  BY <1>1, <1>2, <1>5, <1>8, <1>9, NewInfoIs
<1>12. Put(next, joined) /\ Agrees(next, G, odd) /\ next.group[t] # NoGroup /\ Rest(next, joined, t)
  BY <1>2, <1>4, <1>7, <1>8, <1>9, <1>10, <1>11, Added DEF next
<1>13. /\ next \in Levels /\ Indexed(next) /\ SameList(next, joined)
       /\ \A n, w : next.rec[n] = joined.rec[n] /\ Info(next, n, w) = Info(joined, n, w)
  BY <1>9, <1>12, PutSame
<1>14. SameList(next, l)
  BY <1>1, <1>10, <1>13, SameListTwice
<1>15. next.group[g] = l.group[g] /\ next.rec[m] = l.rec[m]
  BY <1>1, <1>2, <1>4, <1>9, <1>11, <1>12, <1>13 DEF Rest
<1>16. \A u \in new : next.group[u] # NoGroup
  BY <1>1, <1>9, <1>12 DEF Rest, G
<1>17. ASSUME NEW n \in Alive(l) \ {m}
       PROVE  /\ Info(next, n, 1).index # 0 /\ Info(next, n, 2) = Info(l, n, 2)
              /\ Info(l, n, 2).index # Info(next, n, 1).index
              /\ Info(l, n, 2).index \notin new
  <2>1. CASE n = p
    BY <1>1, <1>2, <1>4, <1>5, <1>11, <1>13, <2>1
  <2>2. CASE n # p
    <3>1. n \in Monsters
      BY <1>2, AliveAt
    <3>2. \A w : Info(next, n, w) = Info(c, n, w)
      BY <1>11, <1>13, <2>2, <3>1 DEF Info
    <3> QED
      BY <1>1, <3>2
  <2> QED
    BY <2>1, <2>2
<1>18. Splitting(next, new, l, m, g, odd)
  BY <1>1, <1>12, <1>13, <1>14, <1>15, <1>16, <1>17 DEF Splitting, G
<1>19. Info(next, p, 1).index # g /\ \A n \in Monsters \ {p} : next.rec[n] = c.rec[n]
  BY <1>4, <1>5, <1>11, <1>13
<1> QED
  BY <1>18, <1>19 DEF next, Turned

\* A group that there is has a leader.
LEMMA SomeLeader ==
    ASSUME NEW l \in Levels, Indexed(l), NEW G \in SUBSET GroupIndices, NEW odd, Agrees(l, G, odd),
           NEW g \in G, l.group[g] # NoGroup
    PROVE  \E n \in Alive(l), v \in 1 .. 2 : Info(l, n, v) = Leader(g)
<1>1. KeptGroup(l.group[g], g, Joined(l) \ odd, Led(l) \ odd) /\ g \in GroupIndices
  BY DEF Agrees, KeptIn
<1>2. \E n \in Alive(l), v \in 1 .. 2 :
          Info(l, n, v) = Leader(g) /\ <<l.rec[n].midx, g>> \notin odd
  BY <1>1, LedBySome, Zenon
<1> QED
  BY <1>2

\* There is a group for p to start: m's record and those of the other leaders say of
\* all that there are.
LEMMA RegroupFree ==
    ASSUME NEW l, NEW m, NEW g, NEW odd, Leaderless(l, m, g, odd),
           NEW c, NEW new, Splitting(c, new, l, m, g, odd),
           NEW k \in ToSet(l.group[g].members), NEW p, p = l.slot[k],
           Info(c, p, 1).index = g
    PROVE  /\ monster_group_index_new(c) \in GroupIndices \ {g}
           /\ c.group[monster_group_index_new(c)] = NoGroup /\ Numbered(c)
<1> DEFINE G == GroupIndices \ {g}
<1>1. c.group[g] = l.group[g] /\ c.rec[m] = l.rec[m] /\ Agrees(c, G, odd)
  BY DEF Splitting
<1>2. /\ l \in Levels /\ g \in GroupIndices /\ p \in Alive(l) \ {m}
      /\ p \in Alive(c) /\ m \in Alive(c) /\ c \in Levels /\ Indexed(c) /\ Enough(c)
  BY SplittingParts
<1>3. l.group[g] # NoGroup
  BY DEF Leaderless
<1>4. \E w \in 1 .. 2 : Info(c, m, w).index = g
  BY <1>1, LeaderlessMembers DEF Info
<1>5. ASSUME NEW h \in GroupIndices, c.group[h] # NoGroup
      PROVE  \E n \in Alive(c), v \in 1 .. 2 : <<n, v>> # <<p, 1>> /\ Info(c, n, v).index = h
  <2>1. CASE h = g
    BY <1>2, <1>4, <2>1
  <2>2. CASE h # g
    <3>1. h \in G
      BY <2>2
    <3>2. PICK n \in Alive(c), v \in 1 .. 2 : Info(c, n, v) = Leader(h)
      BY <1>1, <1>2, <1>5, <3>1, SomeLeader
    <3>3. Info(c, n, v).index = h
      BY <3>2, InfoTypes
    <3> QED
      BY <2>2, <3>3
  <2> QED
    BY <2>1, <2>2
<1>6. /\ monster_group_index_new(c) \in GroupIndices
      /\ c.group[monster_group_index_new(c)] = NoGroup /\ Numbered(c)
  <2>1. 1 \in 1 .. 2
    OBVIOUS
  <2> QED
    BY <1>2, <1>5, <2>1, FreeGroup
<1> QED
  BY <1>1, <1>3, <1>6

LEMMA RegroupStarts ==
    ASSUME NEW l, NEW m, NEW g, NEW odd, Leaderless(l, m, g, odd),
           NEW c, NEW new, Splitting(c, new, l, m, g, odd),
           NEW k \in ToSet(l.group[g].members), NEW p, p = l.slot[k],
           Info(c, p, 1).index = g, NEW t, t = monster_group_index_new(c)
    PROVE  LET next == monster_group_start(c, p, 1)
           IN  Splitting(next, new \cup {t}, l, m, g, odd) /\ Turned(next, c, p, g)
<1> DEFINE next == monster_group_start(c, p, 1)
           G == GroupIndices \ {g}
<1>1. /\ c \in Levels /\ SameList(c, l) /\ Indexed(c) /\ c.group[g] = l.group[g]
      /\ c.rec[m] = l.rec[m] /\ Agrees(c, G, odd)
      /\ new \subseteq G /\ \A u \in new : c.group[u] # NoGroup
      /\ \A n \in Alive(l) \ {m} :
            /\ Info(c, n, 1).index # 0 /\ Info(c, n, 2) = Info(l, n, 2)
            /\ Info(l, n, 2).index # Info(c, n, 1).index
            /\ Info(l, n, 2).index \notin new
  BY DEF Splitting
<1>2. /\ l \in Levels /\ Indexed(l) /\ m \in Alive(l) /\ g \in GroupIndices
      /\ k \in Indices /\ k # l.rec[m].midx /\ p \in Alive(l) \ {m} /\ l.rec[p].midx = k
      /\ p \in Alive(c) /\ m \in Alive(c) /\ p \in Monsters /\ m \in Monsters
      /\ c.rec[p].midx = k /\ c.slot[k] = p /\ p # Nobody
  BY SplittingParts
<1>3. \A j \in Indices, h \in GroupIndices : <<j, h>> \in odd => j = l.rec[m].midx
  BY DEF Leaderless
<1>4. t \in G /\ c.group[t] = NoGroup /\ Numbered(c)
  BY RegroupFree
<1>5. t \in GroupIndices /\ t # g /\ t # 0 /\ t \notin new
  BY <1>1, <1>4, Sizes
<1>6. OddLess(odd, odd, G, k, t)
  BY <1>2, <1>3, <1>5 DEF OddLess
<1>7. G \in SUBSET GroupIndices /\ Info(c, p, 1).index \notin G /\ 1 \in 1 .. 2 /\ Other(1) = 2
  BY DEF Other
<1>8. \A j \in Indices : <<j, t>> \notin Joined(c) \ odd
  BY <1>1, <1>4, NoClaims DEF Agrees
<1>9. ASSUME NEW n \in Alive(l) \ {m} PROVE Info(l, n, 2).index # t
  <2>1. /\ l.rec[n].midx \in Indices /\ l.slot[l.rec[n].midx] = n
        /\ l.rec[n].midx # l.rec[m].midx
    BY LeaderlessMembers
  <2>2. <<l.rec[n].midx, t>> \notin odd
    BY <1>3, <1>5, <2>1
  <2>3. <<l.rec[n].midx, t>> \notin Joined(c) /\ c.slot[l.rec[n].midx] = n /\ n # Nobody
    BY <1>1, <1>2, <1>8, <2>1, <2>2, AliveAt DEF SameList
  <2>4. Info(c, n, 2).index # t
    BY <1>5, <2>1, <2>3, Claims
  <2> QED
    BY <1>1, <2>4
<1> HIDE DEF G, next
<1>10. /\ NewInfo(next, c, p, 1, Leader(t)) /\ Indexed(next) /\ Agrees(next, G, odd)
       /\ next.group[t] # NoGroup /\ Rest(next, c, t)
  BY <1>1, <1>2, <1>4, <1>5, <1>6, <1>7, Started DEF next
<1>11. next \in Levels /\ SameList(next, c) /\ SameList(next, l)
  BY <1>1, <1>10, SameListTwice DEF NewInfo
<1>12. /\ Leader(t) \in Infos /\ Leader(t).index = t
       /\ Info(next, p, 1) = Leader(t) /\ Info(next, p, 2) = Info(c, p, 2)
       /\ \A n \in Monsters \ {p} : next.rec[n] = c.rec[n]
  BY <1>1, <1>2, <1>5, <1>7, <1>10, NewInfoIs, InfoTypes
<1>13. next.group[g] = l.group[g] /\ next.rec[m] = l.rec[m]
  BY <1>1, <1>2, <1>5, <1>10, <1>12 DEF Rest
<1>14. \A u \in new \cup {t} : next.group[u] # NoGroup
  BY <1>1, <1>10 DEF Rest, G
<1>15. ASSUME NEW n \in Alive(l) \ {m}
       PROVE  /\ Info(next, n, 1).index # 0 /\ Info(next, n, 2) = Info(l, n, 2)
              /\ Info(l, n, 2).index # Info(next, n, 1).index
              /\ Info(l, n, 2).index \notin new \cup {t}
  <2>1. CASE n = p
    BY <1>1, <1>2, <1>5, <1>9, <1>12, <2>1
  <2>2. CASE n # p
    <3>1. n \in Monsters
      BY <1>2, AliveAt
    <3>2. \A w : Info(next, n, w) = Info(c, n, w)
      BY <1>12, <2>2, <3>1 DEF Info
    <3> QED
      BY <1>1, <1>9, <3>2
  <2> QED
    BY <2>1, <2>2
<1>16. Splitting(next, new \cup {t}, l, m, g, odd)
  BY <1>1, <1>4, <1>10, <1>11, <1>13, <1>14, <1>15 DEF Splitting, G
<1> QED
  BY <1>5, <1>12, <1>16 DEF next, Turned

Partings == [level : Levels, new : SUBSET GroupIndices]

\* One turn of the loop over the members, for the monster p.
LEMMA RegroupTurn ==
    ASSUME NEW l, NEW m, NEW g, NEW odd, Leaderless(l, m, g, odd),
           NEW a \in Partings, Splitting(a.level, a.new, l, m, g, odd),
           NEW k \in ToSet(l.group[g].members), NEW p, p = l.slot[k],
           Info(a.level, p, 1).index = g, NEW b, b = Regroup(a, k, g)
    PROVE  /\ b \in Partings /\ Splitting(b.level, b.new, l, m, g, odd)
           /\ Turned(b.level, a.level, p, g)
<1> DEFINE c == a.level
           new == a.new
           same == {t \in new : Race[c.slot[Head(c.group[t].members)]] = Race[p]}
           s == CHOOSE u \in same : TRUE
           t == monster_group_index_new(c)
           joined == [c EXCEPT !.rec[p].info[1] = Member(s)]
           one == monster_add_to_group(joined, p, s)
           two == monster_group_start(c, p, 1)
<1>1. c \in Levels /\ new \in SUBSET GroupIndices /\ a = [level |-> c, new |-> new]
  BY DEF Partings
<1>2. c.slot[k] = p
  BY SplittingParts
<1>3. b = IF same # {} THEN [a EXCEPT !.level = one]
          ELSE IF c.rec[p].info[1].index # g THEN a
          ELSE [level |-> two, new |-> new \cup {t}]
  BY <1>2 DEF Regroup, Member, Primary
<1>4. Info(c, p, 1).index = g
  OBVIOUS
<1> DEFINE A == /\ b \in Partings /\ Splitting(b.level, b.new, l, m, g, odd)
                /\ Turned(b.level, c, p, g)
<1>5. CASE same # {}
  <2>1. s \in same /\ s \in new
    BY <1>5
  <2>2. Says(joined, c, p, 1, Member(s))
    BY DEF Says
  <2>3. b = [level |-> one, new |-> new]
    BY <1>1, <1>3, <1>5
  <2> HIDE DEF same, s, joined, new, c
  <2>4. Splitting(c, new, l, m, g, odd)
    BY DEF c, new
  <2>5. Splitting(one, new, l, m, g, odd) /\ Turned(one, c, p, g)
    BY <1>4, <2>1, <2>2, <2>4, RegroupJoins
  <2> HIDE DEF one
  <2>6. one \in Levels
    BY <2>5 DEF Splitting
  <2>7. b.level = one /\ b.new = new /\ b \in Partings
    BY <1>1, <2>3, <2>6 DEF Partings
  <2>8. A
    BY <2>5, <2>7
  <2> QED
    BY <2>8 DEF c
<1>6. CASE ~(same # {})
  <2>1. c.rec[p].info[1].index = g
    BY <1>4 DEF Info
  <2>2. b = [level |-> two, new |-> new \cup {t}]
    BY <1>3, <1>6, <2>1
  <2> HIDE DEF same, new, c, t
  <2>3. Splitting(c, new, l, m, g, odd)
    BY DEF c, new
  <2>4. Splitting(two, new \cup {t}, l, m, g, odd) /\ Turned(two, c, p, g)
    BY <1>4, <2>3, RegroupStarts DEF t
  <2>5. t \in GroupIndices
    BY <1>4, <2>3, RegroupFree DEF t
  <2> HIDE DEF two
  <2>6. two \in Levels
    BY <2>4 DEF Splitting
  <2>7. b.level = two /\ b.new = new \cup {t} /\ b \in Partings
    BY <1>1, <2>2, <2>5, <2>6 DEF Partings
  <2>8. A
    BY <2>4, <2>7
  <2> QED
    BY <2>8 DEF c
<1> QED
  BY <1>5, <1>6

\* After n turns of the loop over the members ms, who are in g or are no more.
Turns(a, n, l, m, g, odd) ==
    LET ms == l.group[g].members
    IN  /\ Splitting(a.level, a.new, l, m, g, odd)
        /\ \A q \in 1 .. Len(ms) :
              Info(a.level, l.slot[ms[q]], 1).index = g <=> q > n
        /\ \A x \in Alive(l) : l.rec[x].midx \notin ToSet(ms) => a.level.rec[x] = l.rec[x]

LEMMA TurnsStart ==
    ASSUME NEW l, NEW m, NEW g, NEW odd, Leaderless(l, m, g, odd),
           NEW a, a.level = l, a.new = {}
    PROVE  Turns(a, 0, l, m, g, odd)
<1> DEFINE ms == l.group[g].members
<1>1. l \in Levels /\ Indexed(l) /\ WellGrouped(l) /\ Agrees(l, GroupIndices \ {g}, odd) /\ g \in GroupIndices
  BY DEF Leaderless
<1>2. SameList(l, l)
  BY DEF SameList
<1>3. Splitting(l, {}, l, m, g, odd)
  BY <1>1, <1>2 DEF Splitting, WellGrouped
<1>4. ms \in Seq(Slots)
  BY <1>1, LevelParts, GroupTypes
<1>5. \A q \in 1 .. Len(ms) : ms[q] \in ToSet(ms) /\ q > 0
  BY <1>4, MembersOf
<1>6. \A q \in 1 .. Len(ms) : Info(l, l.slot[ms[q]], 1).index = g
  BY <1>5, LeaderlessMembers
<1> QED
  BY <1>3, <1>5, <1>6 DEF Turns

LEMMA TurnsNext ==
    ASSUME NEW l, NEW m, NEW g, NEW odd, Leaderless(l, m, g, odd),
           NEW i \in 1 .. Len(l.group[g].members),
           NEW a \in Partings, Turns(a, i - 1, l, m, g, odd),
           NEW b, b = Regroup(a, l.group[g].members[i], g)
    PROVE  b \in Partings /\ Turns(b, i, l, m, g, odd)
<1> DEFINE ms == l.group[g].members
           N == Len(ms)
           k == ms[i]
           p == l.slot[k]
<1>1. /\ Splitting(a.level, a.new, l, m, g, odd)
      /\ \A q \in 1 .. N : Info(a.level, l.slot[ms[q]], 1).index = g <=> q > i - 1
      /\ \A x \in Alive(l) : l.rec[x].midx \notin ToSet(ms) => a.level.rec[x] = l.rec[x]
  BY DEF Turns
<1>2. l \in Levels /\ Indexed(l) /\ g \in GroupIndices /\ IsInjective(ms)
  BY DEF Leaderless
<1>3. ms \in Seq(Slots)
  BY <1>2, LevelParts, GroupTypes
<1>4. N \in Nat /\ DOMAIN ms = 1 .. N /\ \A q \in 1 .. N : ms[q] \in ToSet(ms)
  BY <1>3, MembersOf
<1>5. \A q, r \in 1 .. N : ms[q] = ms[r] => q = r
  BY <1>2, <1>4 DEF IsInjective
<1>6. k \in ToSet(ms) /\ i > i - 1 /\ i \in 1 .. N /\ k = ms[i] /\ p = l.slot[k]
  BY <1>4
<1>7. Info(a.level, p, 1).index = g
  BY <1>1, <1>6
<1>8. \A j \in ToSet(ms) : l.slot[j] \in Monsters /\ l.rec[l.slot[j]].midx = j
  BY <1>2, LeaderlessMembers, AliveAt
<1> HIDE DEF ms, N, k, p
<1>9. b \in Partings /\ Splitting(b.level, b.new, l, m, g, odd) /\ Turned(b.level, a.level, p, g)
  <2>1. b = Regroup(a, k, g) /\ k \in ToSet(l.group[g].members) /\ p = l.slot[k]
    BY <1>6 DEF k, ms, p
  <2> QED
    BY <1>1, <1>7, <2>1, RegroupTurn
<1>10. Info(b.level, p, 1).index # g /\ \A n \in Monsters \ {p} : b.level.rec[n] = a.level.rec[n]
  BY <1>9 DEF Turned
<1>11. ASSUME NEW q \in 1 .. N PROVE Info(b.level, l.slot[ms[q]], 1).index = g <=> q > i
  <2>1. CASE q = i
    BY <1>10, <2>1 DEF k, p
  <2>2. CASE q # i
    <3>1. l.slot[ms[q]] \in Monsters /\ l.slot[ms[q]] # p
      <4>1. ms[q] \in ToSet(ms) /\ ms[q] # k
        BY <1>4, <1>5, <1>6, <2>2
      <4> QED
        BY <1>6, <1>8, <4>1
    <3>2. Info(b.level, l.slot[ms[q]], 1) = Info(a.level, l.slot[ms[q]], 1)
      BY <1>10, <3>1 DEF Info
    <3>3. q > i - 1 <=> q > i
      BY <2>2 DEF N
    <3> QED
      BY <1>1, <3>2, <3>3 DEF N, ms
  <2> QED
    BY <2>1, <2>2
<1>12. ASSUME NEW x \in Alive(l), l.rec[x].midx \notin ToSet(ms) PROVE b.level.rec[x] = l.rec[x]
  <2>1. x \in Monsters /\ x # p
    BY <1>2, <1>6, <1>8, <1>12, AliveAt DEF p
  <2> QED
    BY <1>1, <1>10, <1>12, <2>1 DEF ms
<1> QED
  BY <1>9, <1>11, <1>12 DEF Turns, N, ms

\* monster_group_split(): all members have another group when the loop is over.
LEMMA Split ==
    ASSUME NEW l, NEW m, NEW g, NEW odd, Leaderless(l, m, g, odd),
           NEW e, e = monster_group_split(l, g)
    PROVE  /\ \E new : Splitting(e, new, l, m, g, odd)
           /\ \A n \in Alive(l) \ {m} : Info(e, n, 1).index # g
<1> DEFINE ms == l.group[g].members
           N == Len(ms)
           base == [level |-> l, new |-> {}]
           Turn(a, i) == Regroup(a, ms[i], g)
           step == [q \in (1 .. N) \X Partings |-> Turn(q[2], q[1])]
           S == [n \in 0 .. N |-> {a \in Partings : Turns(a, n, l, m, g, odd)}]
<1>1. l \in Levels /\ g \in GroupIndices
  BY DEF Leaderless
<1>2. ms \in Seq(Slots)
  BY <1>1, LevelParts, GroupTypes
<1>3. N \in Nat /\ \A j \in ToSet(ms) : \E q \in 1 .. N : ms[q] = j
  BY <1>2, MembersOf
<1>4. base \in S[0]
  <2>1. base \in Partings /\ base.level = l /\ base.new = {}
    BY <1>1 DEF Partings
  <2> HIDE DEF base, N
  <2>2. Turns(base, 0, l, m, g, odd)
    BY <2>1, TurnsStart
  <2>3. 0 \in 0 .. N
    BY <1>3
  <2> QED
    BY <2>1, <2>2, <2>3
<1>5. ASSUME NEW i \in 1 .. N, NEW a \in S[i - 1] PROVE step[<<i, a>>] = Turn(a, i) /\ step[<<i, a>>] \in S[i]
  <2> HIDE DEF Turn
  <2>1. i - 1 \in 0 .. N /\ i \in 0 .. N
    BY <1>3
  <2>2. a \in Partings /\ Turns(a, i - 1, l, m, g, odd)
    BY <2>1
  <2>3. step[<<i, a>>] = Turn(a, i)
    BY <2>2
  <2>4. Turn(a, i) \in Partings /\ Turns(Turn(a, i), i, l, m, g, odd)
    BY <2>2, TurnsNext DEF Turn
  <2> QED
    BY <2>1, <2>3, <2>4
<1>6. S[N] = {a \in Partings : Turns(a, N, l, m, g, odd)}
  BY <1>3
<1> HIDE DEF base, step, S, N, Turn
<1>7. PICK f : Stages(f, step, N, S, base)
  BY <1>3, <1>4, <1>5, StagedRecursion
<1> DEFINE body(after, d) == IF d = 0 THEN base ELSE Regroup(after[d - 1], ms[d], g)
           chosen == CHOOSE after : after = [d \in 0 .. N |-> body(after, d)]
<1>8. e = chosen[N].level
  BY Zenon DEF monster_group_split, base, N
<1>9. ASSUME NEW after
      PROVE  body(after, 0) = base /\ \A d \in 1 .. N : body(after, d) = Turn(after[d - 1], d)
  <2>1. \A d \in 1 .. N : d # 0
    BY <1>3
  <2> QED
    BY <2>1, Zenon DEF Turn
<1> HIDE DEF body
<1>10. f = [d \in 0 .. N |-> body(f, d)]
  <2>1. ASSUME NEW d \in 0 .. N PROVE f[d] = body(f, d)
    <3>1. d = 0 \/ d \in 1 .. N
      BY <1>3
    <3>2. f[0] = base /\ \A i \in 1 .. N : f[i] = Turn(f[i - 1], i)
      BY <1>5, <1>7 DEF Stages
    <3> QED
      BY <1>9, <3>1, <3>2, Zenon
  <2> QED
    BY <1>7, <2>1, Zenon DEF Stages
<1>11. chosen = [d \in 0 .. N |-> body(chosen, d)]
  BY <1>10, Zenon
<1> HIDE DEF chosen
<1>12. chosen[0] = base /\ \A i \in 1 .. N : chosen[i] = Turn(chosen[i - 1], i)
  <2>1. 0 \in 0 .. N /\ \A i \in 1 .. N : i \in 0 .. N
    BY <1>3
  <2>2. \A d \in 0 .. N : chosen[d] = body(chosen, d)
    BY <1>11, Zenon
  <2> QED
    BY <1>9, <2>1, <2>2, Zenon
<1>13. chosen[N] \in S[N]
  <2>1. chosen[0] \in S[0]
    BY <1>4, <1>12
  <2>2. \A i \in 1 .. N : chosen[i - 1] \in S[i - 1] => chosen[i] \in S[i]
    BY <1>5, <1>12
  <2> QED
    BY <1>3, <2>1, <2>2, StagesKept
<1> DEFINE a == chosen[N]
<1>14. /\ Splitting(a.level, a.new, l, m, g, odd)
       /\ \A q \in 1 .. N : Info(a.level, l.slot[ms[q]], 1).index = g <=> q > N
       /\ \A x \in Alive(l) : l.rec[x].midx \notin ToSet(ms) => a.level.rec[x] = l.rec[x]
  BY <1>6, <1>13 DEF Turns, N
<1>15. ASSUME NEW n \in Alive(l) \ {m} PROVE Info(a.level, n, 1).index # g
  <2>1. CASE l.rec[n].midx \in ToSet(ms)
    <3>1. PICK q \in 1 .. N : ms[q] = l.rec[n].midx
      BY <1>3, <2>1
    <3>2. l.slot[ms[q]] = n
      BY <3>1, LeaderlessMembers
    <3>3. ~(q > N)
      BY <1>3
    <3> QED
      BY <1>14, <3>2, <3>3
  <2>2. CASE l.rec[n].midx \notin ToSet(ms)
    <3>1. Info(l, n, 1).index # g
      BY <2>2, LeaderlessMembers
    <3> QED
      BY <1>14, <2>2, <3>1 DEF Info
  <2> QED
    BY <2>1, <2>2
<1> QED
  BY <1>8, <1>14, <1>15

\* m has left a group, and nothing but the groups has changed.
Left(k, l, m) ==
    /\ k \in Levels /\ SameList(k, l) /\ Indexed(k) /\ WellGrouped(k) /\ k.rec[m] = l.rec[m]

\* Nobody takes over: the others are in new groups, and g is no more.
LEMMA NobodyLeft ==
    ASSUME NEW l, NEW m, NEW g, NEW odd, Leaderless(l, m, g, odd), NEW odd2,
           OddMore(odd2, odd, GroupIndices, l.rec[m].midx, g),
           NEW k, k = [monster_group_split(l, g) EXCEPT !.group[g] = NoGroup]
    PROVE  Left(k, l, m) /\ Agrees(k, GroupIndices, odd2)
<1> DEFINE e == monster_group_split(l, g)
           i == l.rec[m].midx
           G == GroupIndices \ {g}
<1>1. /\ l \in Levels /\ Indexed(l) /\ WellGrouped(l) /\ m \in Alive(l) /\ g \in GroupIndices
      /\ \A j \in Indices, h \in GroupIndices : <<j, h>> \in odd => j = i
  BY DEF Leaderless
<1>2. PICK new : Splitting(e, new, l, m, g, odd)
  BY Split
<1>3. \A n \in Alive(l) \ {m} : Info(e, n, 1).index # g
  BY Split
<1> HIDE DEF e, i
<1>4. /\ e \in Levels /\ SameList(e, l) /\ Indexed(e) /\ e.rec[m] = l.rec[m] /\ Agrees(e, G, odd)
      /\ \A n \in Alive(l) \ {m} :
            /\ Info(e, n, 1).index # 0 /\ Info(e, n, 2) = Info(l, n, 2)
            /\ Info(l, n, 2).index # Info(e, n, 1).index
  BY <1>2 DEF Splitting
<1>5. NoGroup \in Groups
  BY GroupTypes
<1>6. /\ k \in Levels /\ SameList(k, e) /\ k.rec = e.rec
      /\ k.group = [e.group EXCEPT ![g] = NoGroup]
  BY <1>1, <1>4, <1>5, GroupPut DEF e
<1>7. Put(k, e)
  BY <1>6 DEF Put
<1>8. /\ Indexed(k) /\ Alive(k) = Alive(e) /\ Alive(e) = Alive(l)
      /\ Joined(k) = Joined(e) /\ Led(k) = Led(e)
      /\ \A n, w : Info(k, n, w) = Info(e, n, w)
  BY <1>4, <1>7, PutSame, SameLists
<1>9. WellGrouped(k)
  <2>1. ASSUME NEW n \in Alive(l)
        PROVE  /\ Info(e, n, 1).index # 0 /\ Info(e, n, 2).index # Info(e, n, 1).index
               /\ Info(e, n, 2).index # 0 => Info(e, n, 2) = Leader(Info(e, n, 2).index)
    <3>1. CASE n = m
      <4>1. Info(e, m, 1) = Info(l, m, 1) /\ Info(e, m, 2) = Info(l, m, 2)
        BY <1>4 DEF Info
      <4> QED
        BY <1>1, <3>1, <4>1 DEF WellGrouped
    <3>2. CASE n # m
      BY <1>1, <1>4, <3>2 DEF WellGrouped
    <3> QED
      BY <3>1, <3>2
  <2> QED
    BY <1>8, <2>1 DEF WellGrouped
<1>10. ASSUME NEW j \in Indices
       PROVE  <<j, g>> \notin Joined(e) \ odd2 /\ <<j, g>> \notin Led(e) \ odd2
  <2>1. CASE j = i
    <3>1. <<j, g>> \in odd2
      BY <1>1, <2>1 DEF OddMore, i
    <3> QED
      BY <3>1
  <2>2. CASE j # i
    <3>1. ASSUME <<j, g>> \in Joined(e) PROVE FALSE
      <4>1. /\ e.slot[j] # Nobody
            /\ Info(e, e.slot[j], 1).index = g \/ Info(e, e.slot[j], 2).index = g
        BY <1>1, <3>1, Claims
      <4>2. e.slot[j] \in Alive(l) /\ l.slot[j] = e.slot[j]
        BY <1>4, <1>8, <4>1, AliveAt DEF SameList
      <4>3. e.slot[j] # m
        BY <1>1, <2>2, <4>1, <4>2, AliveAt DEF i
      <4>4. Info(l, e.slot[j], 2).index # g
        BY <4>2, <4>3, LeaderlessMembers
      <4> QED
        BY <1>3, <1>4, <4>1, <4>2, <4>3, <4>4
    <3> QED
      BY <1>1, <1>4, <3>1, LedJoined
  <2> QED
    BY <2>1, <2>2
<1>11. KeptGroup(NoGroup, g, Joined(e) \ odd2, Led(e) \ odd2)
  BY <1>10, EndedGroup
<1>12. \A h \in G : \A j \in Indices :
          /\ <<j, h>> \in Joined(e) \ odd2 <=> <<j, h>> \in Joined(e) \ odd
          /\ <<j, h>> \in Led(e) \ odd2 <=> <<j, h>> \in Led(e) \ odd
  BY DEF OddMore
<1>13. KeptIn(GroupIndices, k.group, Joined(e) \ odd2, Led(e) \ odd2)
  <2> DEFINE J == Joined(e) \ odd
             L == Led(e) \ odd
             J2 == Joined(e) \ odd2
             L2 == Led(e) \ odd2
  <2>1. e.group \in [GroupIndices -> Groups] /\ KeptIn(G, e.group, J, L)
    BY <1>4, LevelParts DEF Agrees
  <2>2. KeptGroup(NoGroup, g, J2, L2)
    BY <1>11
  <2>3. \A h \in G : \A j \in Indices :
          /\ <<j, h>> \in J2 <=> <<j, h>> \in J
          /\ <<j, h>> \in L2 <=> <<j, h>> \in L
    BY <1>12
  <2> HIDE DEF J, L, J2, L2
  <2>4. ASSUME NEW h \in GroupIndices PROVE KeptGroup(k.group[h], h, J2, L2)
    <3>1. CASE h = g
      BY <1>1, <1>6, <2>1, <2>2, <3>1
    <3>2. CASE h # g
      <4>1. k.group[h] = e.group[h] /\ KeptGroup(e.group[h], h, J, L)
        BY <1>6, <2>1, <3>2 DEF KeptIn
      <4> QED
        BY <2>3, <3>2, <4>1 DEF KeptGroup
    <3> QED
      BY <3>1, <3>2
  <2>5. KeptIn(GroupIndices, k.group, J2, L2)
    BY <2>4 DEF KeptIn
  <2> QED
    BY <2>5 DEF J2, L2
<1>14. SameList(k, l)
  BY <1>4, <1>6, SameListTwice
<1> QED
  BY <1>4, <1>6, <1>8, <1>9, <1>13, <1>14 DEF Left, Agrees

\* p, of index j, leads g.
Takes(k, l, g, j, p) ==
    k = [l EXCEPT !.group[g].leader = j, !.rec[p].info[1].role = "leader"]

LEMMA RoleTaken ==
    ASSUME NEW l \in Levels, NEW g \in GroupIndices, NEW j \in Places, NEW p \in Monsters,
           Info(l, p, 1).index = g, NEW k, Takes(k, l, g, j, p)
    PROVE  /\ NewInfo(k, l, p, 1, Leader(g))
           /\ k.group = [l.group EXCEPT ![g] = [leader |-> j, members |-> l.group[g].members]]
<1> DEFINE group == [leader |-> j, members |-> l.group[g].members]
           put == [l EXCEPT !.group[g] = group]
<1>1. /\ l.group \in [GroupIndices -> Groups] /\ l.group[g] \in Groups
      /\ l.rec \in [Monsters -> Recs] /\ l.rec[p] \in Recs
  BY LevelParts
<1>2. [l.group[g] EXCEPT !.leader = j] = group /\ group \in Groups
  <2>1. l.group[g].members \in Seq(Slots)
    BY <1>1, GroupTypes
  <2> QED
    BY <1>1, <2>1, GroupTypes
<1>3. l.rec[p].info[1] \in Infos
  BY <1>1, RecTypes
<1>4. [l.rec[p].info[1] EXCEPT !.role = "leader"] = Leader(g)
  BY <1>3 DEF Infos, Leader, Info
<1> HIDE DEF group
<1>5. put \in Levels /\ SameList(put, l) /\ put.rec = l.rec /\ put.group = [l.group EXCEPT ![g] = group]
  BY <1>2, GroupPut
<1>6. k = [put EXCEPT !.rec[p].info[1] = Leader(g)]
  BY <1>2, <1>4 DEF Takes
<1> HIDE DEF put
<1>7. Leader(g) \in Infos /\ 1 \in 1 .. 2
  BY InfoTypes
<1>8. NewInfo(k, put, p, 1, Leader(g)) /\ k.group = put.group
  BY <1>5, <1>6, <1>7, InfoChanged
<1>9. NewInfo(k, l, p, 1, Leader(g))
  BY <1>5, <1>8 DEF NewInfo, SameList
<1> QED
  BY <1>5, <1>8, <1>9 DEF group

\* The heir leads the group, in the first place of its record.
LEMMA HeirTakes ==
    ASSUME NEW l, NEW m, NEW g, NEW odd, Leaderless(l, m, g, odd), NEW odd2,
           OddMore(odd2, odd, GroupIndices, l.rec[m].midx, g),
           NEW j \in ToSet(l.group[g].members), NEW p, p = l.slot[j],
           NEW k, Takes(k, l, g, j, p)
    PROVE  Left(k, l, m) /\ Agrees(k, GroupIndices, odd2)
<1> DEFINE i == l.rec[m].midx
           ms == l.group[g].members
           group == [leader |-> j, members |-> ms]
           G == GroupIndices \ {g}
<1>1. /\ l \in Levels /\ Indexed(l) /\ WellGrouped(l) /\ m \in Alive(l) /\ g \in GroupIndices
      /\ IsInjective(ms) /\ Agrees(l, G, odd)
      /\ \A x \in Indices, h \in GroupIndices : <<x, h>> \in odd => x = i
      /\ \A x \in Indices :
            /\ x \in ToSet(ms) <=> <<x, g>> \in Joined(l) /\ x # i
            /\ <<x, g>> \in Led(l) <=> x = i
  BY DEF Leaderless
<1>2. /\ j \in Slots /\ j \in Indices /\ j # i /\ j \in Places /\ j # 0
      /\ p \in Alive(l) \ {m} /\ l.rec[p].midx = j
      /\ Info(l, p, 1).index = g /\ Info(l, p, 2).index # g
  BY LeaderlessMembers, Sizes
<1>3. p \in Monsters /\ m \in Monsters /\ l.slot[j] = p /\ p # Nobody /\ g # 0
  BY <1>1, <1>2, AliveAt, Sizes
<1>4. ms \in Seq(Slots) /\ l.group \in [GroupIndices -> Groups]
  BY <1>1, LevelParts, GroupTypes
<1>5. ms # <<>> /\ group \in Groups
  BY <1>2, <1>4, MembersOf, GroupTypes
<1> HIDE DEF i, group
<1>6. NewInfo(k, l, p, 1, Leader(g)) /\ k.group = [l.group EXCEPT ![g] = group]
  BY <1>1, <1>2, <1>3, RoleTaken DEF group
<1>7. Leader(g) \in Infos /\ Leader(g).index = g /\ 1 \in 1 .. 2 /\ Other(1) = 2
  BY <1>1, InfoTypes DEF Other
<1>8. /\ Info(k, p, 1) = Leader(g) /\ Info(k, p, 2) = Info(l, p, 2)
      /\ \A n \in Monsters \ {p} : k.rec[n] = l.rec[n]
  BY <1>1, <1>3, <1>6, <1>7, NewInfoIs
<1>9. /\ Indexed(k)
      /\ \A x \in Indices, h \in GroupIndices :
            IF x = j
            THEN /\ <<x, h>> \in Joined(k) <=> Leader(g).index = h \/ Info(l, p, 2).index = h
                 /\ <<x, h>> \in Led(k) <=> Leader(g) = Leader(h) \/ Info(l, p, 2) = Leader(h)
            ELSE /\ <<x, h>> \in Joined(k) <=> <<x, h>> \in Joined(l)
                 /\ <<x, h>> \in Led(k) <=> <<x, h>> \in Led(l)
  <2>1. k.slot = l.slot /\ k.rec = [l.rec EXCEPT ![p] = WithInfo(l.rec[p], 1, Leader(g))]
    BY <1>6 DEF NewInfo, SameList
  <2> QED
    BY <1>1, <1>2, <1>7, <2>1, OtherInfo
<1>10. k \in Levels /\ SameList(k, l) /\ Alive(k) = Alive(l) /\ k.rec[m] = l.rec[m]
  BY <1>2, <1>3, <1>6, <1>8, SameLists DEF NewInfo
<1>11. WellGrouped(k)
  <2>1. ASSUME NEW n \in Alive(l)
        PROVE  /\ Info(k, n, 1).index # 0 /\ Info(k, n, 2).index # Info(k, n, 1).index
               /\ Info(k, n, 2).index # 0 => Info(k, n, 2) = Leader(Info(k, n, 2).index)
    <3>1. CASE n = p
      BY <1>1, <1>2, <1>3, <1>7, <1>8, <3>1 DEF WellGrouped
    <3>2. CASE n # p
      <4>1. n \in Monsters
        BY <1>1, AliveAt
      <4>2. Info(k, n, 1) = Info(l, n, 1) /\ Info(k, n, 2) = Info(l, n, 2)
        BY <1>8, <3>2, <4>1 DEF Info
      <4> QED
        BY <1>1, <4>2 DEF WellGrouped
    <3> QED
      BY <3>1, <3>2
  <2> QED
    BY <1>10, <2>1 DEF WellGrouped
<1>12. \A h \in GroupIndices :
          /\ <<j, h>> \in Joined(l) <=> h = g \/ Info(l, p, 2).index = h
          /\ <<j, h>> \in Led(l) <=> Info(l, p, 1) = Leader(h) \/ Info(l, p, 2) = Leader(h)
  BY <1>2, <1>3, Claims
<1>13. ASSUME NEW h \in G, NEW x \in Indices
       PROVE  /\ <<x, h>> \in Joined(k) <=> <<x, h>> \in Joined(l)
              /\ <<x, h>> \in Led(k) <=> <<x, h>> \in Led(l)
  <2>1. CASE x = j
    <3>1. Leader(g) # Leader(h) /\ Leader(h).index = h
      BY <1>7, InfoTypes
    <3>2. Info(l, p, 1) # Leader(h)
      BY <1>2, <3>1
    <3> QED
      BY <1>7, <1>9, <1>12, <2>1, <3>1, <3>2
  <2>2. CASE x # j
    BY <1>9, <2>2
  <2> QED
    BY <2>1, <2>2
<1>14. \A x \in Indices : /\ <<x, g>> \in odd2 <=> x = i
                          /\ \A h \in G : <<x, h>> \in odd2 <=> <<x, h>> \in odd
  BY <1>1 DEF OddMore, i
<1>15. ASSUME NEW x \in Indices
       PROVE  /\ <<x, g>> \in Joined(k) \ odd2 <=> x \in ToSet(ms)
              /\ <<x, g>> \in Led(k) \ odd2 <=> x = j
  <2>1. CASE x = j
    BY <1>1, <1>2, <1>7, <1>9, <1>14, <2>1
  <2>2. CASE x # j
    BY <1>1, <1>9, <1>14, <2>2
  <2> QED
    BY <2>1, <2>2
<1>16. ASSUME NEW h \in GroupIndices PROVE KeptGroup(k.group[h], h, Joined(k) \ odd2, Led(k) \ odd2)
  <2> DEFINE J2 == Joined(k) \ odd2
             L2 == Led(k) \ odd2
  <2>1. CASE h = g
    <3>1. k.group[h] = group /\ group.leader = j /\ group.members = ms
      BY <1>1, <1>4, <1>6, <2>1 DEF group
    <3>2. \A x \in Indices : /\ <<x, h>> \in J2 <=> x \in ToSet(ms)
                             /\ <<x, h>> \in L2 <=> x = j
      BY <1>15, <2>1
    <3> HIDE DEF J2, L2, ms
    <3>3. KeptGroup(k.group[h], h, J2, L2)
      BY <1>1, <1>2, <1>5, <3>1, <3>2 DEF KeptGroup
    <3> QED
      BY <3>3 DEF J2, L2
  <2>2. CASE h # g
    <3> DEFINE J == Joined(l) \ odd
               L == Led(l) \ odd
    <3>1. k.group[h] = l.group[h] /\ KeptGroup(l.group[h], h, J, L)
      BY <1>1, <1>4, <1>6, <2>2 DEF Agrees, KeptIn
    <3>2. \A x \in Indices : /\ <<x, h>> \in J2 <=> <<x, h>> \in J
                             /\ <<x, h>> \in L2 <=> <<x, h>> \in L
      BY <1>13, <1>14, <2>2
    <3> HIDE DEF J2, L2, J, L
    <3>3. KeptGroup(k.group[h], h, J2, L2)
      BY <3>1, <3>2 DEF KeptGroup
    <3> QED
      BY <3>3 DEF J2, L2
  <2> QED
    BY <2>1, <2>2
<1> QED
  BY <1>9, <1>10, <1>11, <1>16 DEF Left, Agrees, KeptIn

LEMMA HeirIs ==
    ASSUME NEW l \in Levels, NEW m, NEW g \in GroupIndices
    PROVE  Heir(l, m, g) = 0 \/ Heir(l, m, g) \in ToSet(l.group[g].members)
<1> DEFINE ms == l.group[g].members
           N == Len(ms)
           uniques == {k \in DOMAIN ms : l.slot[ms[k]] \in Uniques}
           kin == {k \in DOMAIN ms :
                      /\ Race[l.slot[ms[k]]] = Race[m]
                      /\ l.rec[l.slot[ms[k]]].info[Primary].role # "summon"}
<1>1. ms \in Seq(Slots)
  BY LevelParts, GroupTypes
<1>2. N \in Nat /\ DOMAIN ms = 1 .. N /\ \A q \in 1 .. N : ms[q] \in ToSet(ms)
  BY <1>1, MembersOf
<1>3. Heir(l, m, g) = IF uniques # {} THEN ms[Max(uniques)] ELSE IF kin # {} THEN ms[Min(kin)] ELSE 0
  BY DEF Heir
<1>4. uniques \subseteq 1 .. N /\ kin \subseteq 1 .. N
  BY <1>2
<1> HIDE DEF uniques, kin, ms, N
<1>5. uniques # {} => Max(uniques) \in 1 .. N
  BY <1>2, <1>4, GreatestOf
<1>6. kin # {} => Min(kin) \in 1 .. N
  <2>1. kin \subseteq Nat
    BY <1>2, <1>4
  <2> QED
    BY <1>4, <2>1, LeastOf
<1> QED
  BY <1>2, <1>3, <1>5, <1>6 DEF ms

\* monster_groups_verify() finds nothing when the groups and the records agree.
LEMMA VerifySame ==
    ASSUME NEW l \in Levels, Indexed(l), WellGrouped(l), NEW odd, Agrees(l, GroupIndices, odd)
    PROVE  Verify(l) = l
<1>1. Verified(l)
  BY NothingWrong DEF Agrees, Kept
<1>2. Verify(l) = [l EXCEPT !.quit = @]
  <2>1. l.quit \/ ~Verified(l) <=> l.quit
    BY <1>1
  <2>2. l.quit \in BOOLEAN /\ l.short \in 0 .. LevelMax
    BY LevelParts
  <2>3. (l.quit \/ ~Verified(l)) = l.quit
    BY <2>1, <2>2, Zenon
  <2> QED
    BY <2>3 DEF Verify
<1> QED
  BY <1>2 DEF Levels

\* monster_group_remove_leader(): an heir takes over, or the group falls apart.
LEMMA LeaderRemoved ==
    ASSUME NEW l, NEW m, NEW g, NEW odd, Leaderless(l, m, g, odd), NEW odd2,
           OddMore(odd2, odd, GroupIndices, l.rec[m].midx, g),
           NEW k, k = monster_group_remove_leader(l, m, g)
    PROVE  Left(k, l, m) /\ Agrees(k, GroupIndices, odd2)
<1> DEFINE heir == Heir(l, m, g)
           e == IF heir = 0 THEN [monster_group_split(l, g) EXCEPT !.group[g] = NoGroup]
                ELSE [l EXCEPT !.group[g].leader = heir,
                               !.rec[l.slot[heir]].info[1].role = "leader"]
<1>1. l \in Levels /\ g \in GroupIndices
  BY DEF Leaderless
<1>2. heir = 0 \/ heir \in ToSet(l.group[g].members)
  BY <1>1, HeirIs
<1>3. k = Verify(e)
  BY DEF monster_group_remove_leader, Primary
<1>4. Left(e, l, m) /\ Agrees(e, GroupIndices, odd2)
  <2>1. CASE heir = 0
    <3>1. e = [monster_group_split(l, g) EXCEPT !.group[g] = NoGroup]
      BY <2>1
    <3> HIDE DEF e
    <3> QED
      BY <3>1, NobodyLeft
  <2>2. CASE heir # 0
    <3>1. Takes(e, l, g, heir, l.slot[heir])
      BY <2>2 DEF Takes
    <3>2. heir \in ToSet(l.group[g].members)
      BY <1>2, <2>2
    <3> HIDE DEF e, heir
    <3> QED
      BY <3>1, <3>2, HeirTakes
  <2> QED
    BY <2>1, <2>2
<1> HIDE DEF e
<1>5. Verify(e) = e
  BY <1>4, VerifySame DEF Left
<1> QED
  BY <1>3, <1>4, <1>5

-----------------------------------------------------------------------------
(* A monster leaves its groups.                                            *)

\* m, of index i, is about to leave groups: the claims in odd are those it has left.
Leaving(l, m, i, odd) ==
    /\ l \in Levels /\ Indexed(l) /\ WellGrouped(l) /\ Enough(l)
    /\ m \in Alive(l) /\ i = l.rec[m].midx /\ Agrees(l, GroupIndices, odd)
    /\ \A j \in Indices, h \in GroupIndices : <<j, h>> \in odd => j = i

LEMMA LeavingParts ==
    ASSUME NEW l, NEW m, NEW i, NEW odd, Leaving(l, m, i, odd), NEW g \in GroupIndices,
           <<i, g>> \in Joined(l), <<i, g>> \notin odd, NEW group, group = l.group[g]
    PROVE  /\ group \in Groups /\ group # NoGroup /\ i \in ToSet(group.members)
           /\ i \in Indices /\ IsInjective(group.members)
           /\ \A j \in Indices : /\ j \in ToSet(group.members) <=> <<j, g>> \in Joined(l)
                                 /\ j = group.leader <=> <<j, g>> \in Led(l)
<1>1. /\ l \in Levels /\ Indexed(l) /\ m \in Alive(l) /\ i = l.rec[m].midx
      /\ \A j \in Indices : <<j, g>> \notin odd
  BY DEF Leaving
<1>2. KeptGroup(group, g, Joined(l) \ odd, Led(l) \ odd)
  BY DEF Leaving, Agrees, KeptIn
<1>3. group \in Groups /\ i \in Indices
  BY <1>1, LevelParts, AliveAt
<1>4. i \in ToSet(group.members)
  BY <1>1, <1>2, <1>3 DEF KeptGroup
<1>5. group # NoGroup
  BY <1>4, GroupTypes, NoMember
<1> QED
  BY <1>1, <1>2, <1>3, <1>4, <1>5 DEF KeptGroup

PutGroup(k, l, g, group) == k = [l EXCEPT !.group[g] = group]
GroupIs(k, l, g, group) == k.group[g] = group /\ k.group = [l.group EXCEPT ![g] = group]

LEMMA GroupSet ==
    ASSUME NEW l \in Levels, NEW g \in GroupIndices, NEW group \in Groups,
           NEW k, PutGroup(k, l, g, group)
    PROVE  Put(k, l) /\ Rest(k, l, g) /\ GroupIs(k, l, g, group)
<1>1. k \in Levels /\ SameList(k, l) /\ k.rec = l.rec /\ k.group = [l.group EXCEPT ![g] = group]
  BY GroupPut DEF PutGroup
<1>2. l.group \in [GroupIndices -> Groups]
  BY LevelParts
<1> QED
  BY <1>1, <1>2 DEF Put, Rest, GroupIs

\* All that changes is group g, which fits the records but for m's claim.
LEMMA GroupLeft ==
    ASSUME NEW l, NEW m, NEW i, NEW odd, Leaving(l, m, i, odd), NEW g \in GroupIndices,
           NEW odd2, OddMore(odd2, odd, GroupIndices, i, g), NEW group \in Groups,
           KeptGroup(group, g, Joined(l) \ odd2, Led(l) \ odd2),
           NEW k, PutGroup(k, l, g, group)
    PROVE  Left(k, l, m) /\ Agrees(k, GroupIndices, odd2)
<1> DEFINE J == Joined(l) \ odd
           L == Led(l) \ odd
           J2 == Joined(l) \ odd2
           L2 == Led(l) \ odd2
<1>1. l \in Levels /\ Indexed(l) /\ WellGrouped(l) /\ KeptIn(GroupIndices, l.group, J, L)
  BY DEF Leaving, Agrees
<1>2. /\ Put(k, l) /\ k.group = [l.group EXCEPT ![g] = group]
      /\ l.group \in [GroupIndices -> Groups]
  BY <1>1, GroupSet, LevelParts DEF GroupIs
<1>3. \A h \in GroupIndices \ {g} : \A x \in Indices :
         /\ <<x, h>> \in J2 <=> <<x, h>> \in J
         /\ <<x, h>> \in L2 <=> <<x, h>> \in L
  BY DEF OddMore
<1>4. KeptGroup(group, g, J2, L2)
  OBVIOUS
<1>5. /\ Joined(k) = Joined(l) /\ Led(k) = Led(l) /\ Indexed(k) /\ WellGrouped(k)
      /\ k \in Levels /\ SameList(k, l) /\ k.rec[m] = l.rec[m]
  BY <1>1, <1>2, PutSame
<1> HIDE DEF J, L, J2, L2
<1>6. KeptIn(GroupIndices, k.group, J2, L2)
  BY <1>1, <1>2, <1>3, <1>4, GroupChanged
<1> QED
  BY <1>5, <1>6 DEF Left, Agrees, J2, L2

\* The leader is out of the list of members: whoever is next, or nobody, leads them.
LEMMA LeaderLeft ==
    ASSUME NEW l, NEW m, NEW i, NEW odd, Leaving(l, m, i, odd), NEW g \in GroupIndices,
           <<i, g>> \in Joined(l), <<i, g>> \notin odd, l.group[g].leader = i,
           Len(l.group[g].members) # 1,
           NEW k, PutGroup(k, l, g, LessMember(l.group[g], i, i))
    PROVE  Leaderless(k, m, g, odd)
<1> DEFINE group == l.group[g]
           ms == Without(group.members, i)
           new == LessMember(group, i, i)
           J == Joined(l) \ odd
           L == Led(l) \ odd
<1>1. /\ l \in Levels /\ Indexed(l) /\ WellGrouped(l) /\ Enough(l) /\ m \in Alive(l)
      /\ i = l.rec[m].midx /\ KeptIn(GroupIndices, l.group, J, L)
      /\ \A j \in Indices, h \in GroupIndices : <<j, h>> \in odd => j = i
  BY DEF Leaving, Agrees
<1>2. /\ group \in Groups /\ i \in ToSet(group.members) /\ i \in Indices
      /\ IsInjective(group.members)
      /\ \A j \in Indices : /\ j \in ToSet(group.members) <=> <<j, g>> \in Joined(l)
                            /\ j = group.leader <=> <<j, g>> \in Led(l)
  BY LeavingParts
<1>3. group.members \in Seq(Slots) /\ group.leader = i /\ i \in Places /\ Len(group.members) # 1
  BY <1>2, GroupTypes
<1> HIDE DEF group
<1>4. /\ ms \in Seq(Slots) /\ IsInjective(ms) /\ ms # <<>>
      /\ ToSet(ms) = ToSet(group.members) \ {i}
  BY <1>2, <1>3, MemberRemoved
<1> HIDE DEF ms
<1>5. new \in Groups /\ new.leader = i /\ new.members = ms
  BY <1>3, <1>4, GroupTypes DEF LessMember, ms
<1>6. new # NoGroup
  BY <1>4, <1>5, GroupTypes
<1> HIDE DEF new
<1>7. PutGroup(k, l, g, new)
  BY DEF new, group
<1>8. Put(k, l) /\ k.group[g] = new /\ Rest(k, l, g)
  <2>1. Put(k, l) /\ Rest(k, l, g) /\ GroupIs(k, l, g, new)
    BY <1>1, <1>5, <1>7, GroupSet
  <2> QED
    BY <2>1 DEF GroupIs
<1>9. /\ Joined(k) = Joined(l) /\ Led(k) = Led(l) /\ Alive(k) = Alive(l)
      /\ k \in Levels /\ k.rec[m] = l.rec[m]
      /\ Indexed(k) /\ WellGrouped(k) /\ Enough(k)
  BY <1>1, <1>8, PutSame
<1>10. \A j \in Indices :
          /\ j \in ToSet(k.group[g].members) <=> <<j, g>> \in Joined(k) /\ j # i
          /\ <<j, g>> \in Led(k) <=> j = i
  BY <1>2, <1>3, <1>4, <1>5, <1>8, <1>9
<1>11. Agrees(k, GroupIndices \ {g}, odd)
  <2>1. Joined(k) \ odd = J /\ Led(k) \ odd = L
    BY <1>9
  <2> HIDE DEF J, L
  <2>2. \A h \in GroupIndices \ {g} : k.group[h] = l.group[h]
    BY <1>8 DEF Rest
  <2>3. KeptIn(GroupIndices \ {g}, k.group, J, L)
    BY <1>1, <2>2 DEF KeptIn
  <2> QED
    BY <2>1, <2>3 DEF Agrees
<1> QED
  BY <1>1, <1>4, <1>5, <1>6, <1>8, <1>9, <1>10, <1>11 DEF Leaderless

LEMMA MembersPut ==
    ASSUME NEW l \in Levels, NEW g \in GroupIndices, NEW ms,
           NEW k, k = [l EXCEPT !.group[g].members = ms]
    PROVE  PutGroup(k, l, g, [leader |-> l.group[g].leader, members |-> ms])
<1>1. l.group \in [GroupIndices -> Groups] /\ l.group[g] \in Groups
  BY LevelParts
<1>2. [l.group[g] EXCEPT !.members = ms] = [leader |-> l.group[g].leader, members |-> ms]
  BY <1>1, GroupTypes
<1>3. k = [l EXCEPT !.group[g] = [l.group[g] EXCEPT !.members = ms]]
  BY DEF Levels
<1> QED
  BY <1>2, <1>3 DEF PutGroup

\* One round of monster_remove_from_groups().
LEMMA LeaveGroup ==
    ASSUME NEW l, NEW m, NEW i, NEW odd, Leaving(l, m, i, odd), NEW g \in GroupIndices,
           <<i, g>> \in Joined(l), <<i, g>> \notin odd,
           NEW odd2, OddMore(odd2, odd, GroupIndices, i, g)
    PROVE  Left(Leave(l, m, g), l, m) /\ Agrees(Leave(l, m, g), GroupIndices, odd2)
<1> DEFINE group == l.group[g]
           J == Joined(l) \ odd
           L == Led(l) \ odd
           J2 == Joined(l) \ odd2
           L2 == Led(l) \ odd2
           left == [l EXCEPT !.group[g].members = Without(group.members, i)]
           k == Leave(l, m, g)
<1>1. /\ l \in Levels /\ Indexed(l) /\ WellGrouped(l) /\ m \in Alive(l) /\ i = l.rec[m].midx
      /\ KeptGroup(group, g, J, L)
  BY DEF Leaving, Agrees, KeptIn
<1>2. /\ group \in Groups /\ group # NoGroup /\ i \in ToSet(group.members) /\ i \in Indices
      /\ IsInjective(group.members)
      /\ \A j \in Indices : /\ j \in ToSet(group.members) <=> <<j, g>> \in Joined(l)
                            /\ j = group.leader <=> <<j, g>> \in Led(l)
  BY LeavingParts
<1>3. /\ group.members \in Seq(Slots) /\ group.leader \in Places /\ group.members # <<>>
      /\ group.leader # 0
  BY <1>1, <1>2, GroupTypes, NoMember DEF KeptGroup
<1>4. k = IF Len(group.members) = 1 THEN [l EXCEPT !.group[g] = NoGroup]
          ELSE IF group.leader = i THEN monster_group_remove_leader(left, m, g) ELSE left
  BY <1>1, <1>2 DEF Leave, Without
<1>5. PutGroup(left, l, g, LessMember(group, i, group.leader))
  BY <1>1, MembersPut DEF LessMember
<1>6. \A j \in Indices :
         /\ <<j, g>> \in odd2 <=> j = i
         /\ <<j, g>> \notin odd \/ j = i
  BY DEF OddMore, Leaving
<1> HIDE DEF left, k, group
<1>7. CASE Len(group.members) = 1
  <2>1. ToSet(group.members) = {i}
    BY <1>2, <1>3, <1>7, MemberRemoved
  <2>2. \A j \in Indices : <<j, g>> \notin J2 /\ <<j, g>> \notin L2
    BY <1>1, <1>2, <1>6, <2>1, LedJoined
  <2> HIDE DEF J2, L2
  <2>3. KeptGroup(NoGroup, g, J2, L2) /\ NoGroup \in Groups
    BY <2>2, EndedGroup, GroupTypes
  <2>4. PutGroup(k, l, g, NoGroup)
    BY <1>4, <1>7 DEF PutGroup
  <2> QED
    BY <2>3, <2>4, GroupLeft DEF k, J2, L2
<1>8. CASE Len(group.members) # 1 /\ group.leader = i
  <2>1. PutGroup(left, l, g, LessMember(l.group[g], i, i)) /\ l.group[g].leader = i
        /\ Len(l.group[g].members) # 1
    BY <1>5, <1>8 DEF group
  <2>2. Leaderless(left, m, g, odd)
    BY <2>1, LeaderLeft
  <2>3. LessMember(group, i, i) \in Groups
    <3>1. Without(group.members, i) \in Seq(Slots)
      BY <1>2, <1>3, MemberRemoved
    <3> QED
      BY <1>3, <1>8, <3>1, GroupTypes DEF LessMember
  <2>4. Put(left, l)
    BY <1>1, <2>1, <2>3, GroupSet DEF group
  <2>5. SameList(left, l) /\ left.rec[m] = l.rec[m]
    BY <2>4, PutSame
  <2>6. OddMore(odd2, odd, GroupIndices, left.rec[m].midx, g)
    BY <1>1, <2>5
  <2>7. k = monster_group_remove_leader(left, m, g)
    BY <1>4, <1>8
  <2>8. Left(k, left, m) /\ Agrees(k, GroupIndices, odd2)
    BY <2>2, <2>6, <2>7, LeaderRemoved
  <2>9. Left(k, l, m)
    BY <2>5, <2>8, SameListTwice DEF Left
  <2> QED
    BY <2>8, <2>9 DEF k
<1>9. CASE Len(group.members) # 1 /\ group.leader # i
  <2>1. OneLess(J2, J, g, i) /\ OnlyOne(L2, g, group.leader)
    BY <1>1, <1>2, <1>6, <1>9 DEF OneLess, OnlyOne
  <2> HIDE DEF J, L, J2, L2
  <2>2. /\ LessMember(group, i, group.leader) \in Groups
        /\ KeptGroup(LessMember(group, i, group.leader), g, J2, L2)
    <3>1. group.leader \in Places \ {0}
      BY <1>3
    <3> QED
      BY <1>1, <1>2, <1>9, <2>1, <3>1, LeftGroup
  <2>3. k = left
    BY <1>4, <1>9
  <2>4. PutGroup(k, l, g, LessMember(group, i, group.leader))
    BY <1>5, <2>3
  <2> QED
    BY <2>2, <2>4, GroupLeft DEF k, J2, L2
<1> QED
  BY <1>7, <1>8, <1>9

Own(i) == {i} \X GroupIndices

\* Of both its groups: no group lists it, and all that its record says is odd.
LEMMA GroupsLeft ==
    ASSUME NEW l, Sound(l, {}), NEW m \in Alive(l), NEW i, i = l.rec[m].midx
    PROVE  /\ Left(monster_remove_from_groups(l, m), l, m)
           /\ Agrees(monster_remove_from_groups(l, m), GroupIndices, Own(i))
<1> DEFINE g == Info(l, m, 1).index
           h == Info(l, m, 2).index
           once == Leave(l, m, g)
           odd1 == {<<i, g>>}
           odd2 == {<<i, g>>, <<i, h>>}
           twice == Leave(once, m, h)
           k == monster_remove_from_groups(l, m)
<1>1. /\ l \in Levels /\ Indexed(l) /\ WellGrouped(l) /\ Enough(l) /\ Agrees(l, GroupIndices, {})
      /\ KeptIn(GroupIndices, l.group, Joined(l), Led(l))
  <2>1. Joined(l) \ {} = Joined(l) /\ Led(l) \ {} = Led(l)
    OBVIOUS
  <2> QED
    BY <2>1 DEF Sound, Kept, Agrees
<1>2. m \in Monsters /\ m # Nobody /\ i \in Indices /\ l.slot[i] = m
  BY <1>1, AliveAt
<1>3. g \in GroupIndices /\ h \in 0 .. MaxGroups /\ h # g
  <2>1. Info(l, m, 1) \in Infos /\ Info(l, m, 2) \in Infos
    BY <1>1, <1>2, LevelParts, RecTypes DEF Info
  <2>2. g \in 0 .. MaxGroups /\ h \in 0 .. MaxGroups /\ g # 0 /\ h # g
    BY <1>1, <2>1, InfoTypes DEF WellGrouped
  <2> QED
    BY <2>2, Sizes
<1> HIDE DEF g, h, k
<1>4. <<i, g>> \in Joined(l) /\ (h # 0 => h \in GroupIndices /\ <<i, h>> \in Joined(l))
  <2>1. h # 0 => h \in GroupIndices
    BY <1>3, Sizes
  <2> QED
    BY <1>2, <1>3, <2>1, Claims DEF g, h
<1>5. Leaving(l, m, i, {}) /\ <<i, g>> \notin {}
  BY <1>1 DEF Leaving
<1>6. l.group[g] # NoGroup
  BY <1>3, <1>4, <1>5, LeavingParts
<1>7. OddMore(odd1, {}, GroupIndices, i, g)
  BY DEF OddMore
<1>8. Left(once, l, m) /\ Agrees(once, GroupIndices, odd1)
  BY <1>3, <1>4, <1>5, <1>7, LeaveGroup
<1> HIDE DEF odd1, once
<1>9. GroupOf(l, m, Primary) = g /\ HasGroup(l, m, Primary)
  <2>1. GroupOf(l, m, Primary) = g
    BY DEF GroupOf, Primary, Info, g
  <2> QED
    BY <1>3, <1>6, <2>1, Sizes DEF HasGroup
<1>10. once.rec[m] = l.rec[m] /\ once.slot = l.slot /\ SameList(once, l)
  BY <1>8 DEF Left, SameList
<1>11. GroupOf(once, m, Second) = h
  BY <1>10 DEF GroupOf, Second, Info, h
<1>12. k = IF HasGroup(once, m, Second) THEN Verify(twice) ELSE once
  BY <1>9, <1>11 DEF k, monster_remove_from_groups, once
<1>13. Left(k, l, m) /\ Agrees(k, GroupIndices, IF h = 0 THEN odd1 ELSE odd2)
  <2>1. CASE h = 0
    <3>1. k = once
      BY <1>11, <1>12, <2>1 DEF HasGroup
    <3> QED
      BY <1>8, <2>1, <3>1
  <2>2. CASE h # 0
    <3>1. h \in GroupIndices /\ <<i, h>> \in Joined(once) /\ <<i, h>> \notin odd1
      <4>1. Info(once, m, 2).index = h /\ once.slot[i] = m
        BY <1>2, <1>10 DEF Info, h
      <4> QED
        BY <1>2, <1>3, <1>4, <2>2, <4>1, Claims DEF odd1
    <3>2. Leaving(once, m, i, odd1)
      <4>1. Alive(once) = Alive(l) /\ (Enough(l) => Enough(once))
        BY <1>10, SameLists
      <4> QED
        BY <1>1, <1>8, <1>10, <4>1 DEF Leaving, Left, odd1
    <3>3. once.group[h] # NoGroup
      BY <3>1, <3>2, LeavingParts
    <3>4. HasGroup(once, m, Second)
      BY <1>11, <2>2, <3>3 DEF HasGroup
    <3>5. OddMore(odd2, odd1, GroupIndices, i, h)
      BY DEF OddMore, odd1
    <3> HIDE DEF odd2
    <3>6. Left(twice, once, m) /\ Agrees(twice, GroupIndices, odd2)
      BY <3>1, <3>2, <3>5, LeaveGroup
    <3> HIDE DEF twice
    <3>7. Verify(twice) = twice
      BY <3>6, VerifySame DEF Left
    <3>8. k = twice
      BY <1>12, <3>4, <3>7
    <3>9. Left(twice, l, m)
      BY <1>8, <3>6, SameListTwice DEF Left
    <3> QED
      BY <2>2, <3>6, <3>8, <3>9
  <2> QED
    BY <2>1, <2>2
<1> DEFINE odd == IF h = 0 THEN odd1 ELSE odd2
<1>14. \A x \in Indices, f \in GroupIndices :
          /\ <<x, f>> \in odd => x = i
          /\ <<i, f>> \in Joined(k) => <<i, f>> \in odd
  <2> SUFFICES ASSUME NEW x \in Indices, NEW f \in GroupIndices
               PROVE  /\ <<x, f>> \in odd => x = i
                      /\ <<i, f>> \in Joined(k) => <<i, f>> \in odd
    OBVIOUS
  <2>1. <<x, f>> \in odd => x = i
    BY DEF odd1
  <2>2. Info(k, m, 1).index = g /\ Info(k, m, 2).index = h /\ k.slot[i] = m
    BY <1>2, <1>13 DEF Left, SameList, Info, g, h
  <2>3. <<i, f>> \in Joined(k) => f = g \/ f = h
    BY <1>2, <2>2, Claims
  <2>4. f # 0
    BY Sizes
  <2> QED
    BY <2>1, <2>3, <2>4 DEF odd1
<1> HIDE DEF odd
<1>15. \A x \in Indices, f \in GroupIndices :
          /\ <<x, f>> \in Joined(k) \ Own(i) <=> <<x, f>> \in Joined(k) \ odd
          /\ <<x, f>> \in Led(k) \ Own(i) <=> <<x, f>> \in Led(k) \ odd
  <2>1. \A x \in Indices, f \in GroupIndices : <<x, f>> \in Led(k) => <<x, f>> \in Joined(k)
    BY <1>13, LedJoined DEF Left
  <2>2. \A x \in Indices, f \in GroupIndices : <<x, f>> \in Own(i) <=> x = i
    BY DEF Own
  <2> QED
    BY <1>14, <2>1, <2>2
<1>16. KeptIn(GroupIndices, k.group, Joined(k) \ odd, Led(k) \ odd)
  BY <1>13 DEF odd, Agrees
<1> DEFINE J == Joined(k) \ odd
           L == Led(k) \ odd
           J2 == Joined(k) \ Own(i)
           L2 == Led(k) \ Own(i)
<1>17. KeptIn(GroupIndices, k.group, J2, L2)
  <2>1. KeptIn(GroupIndices, k.group, J, L)
    BY <1>16
  <2>2. \A x \in Indices, f \in GroupIndices :
          /\ <<x, f>> \in J2 <=> <<x, f>> \in J
          /\ <<x, f>> \in L2 <=> <<x, f>> \in L
    BY <1>15
  <2> HIDE DEF J, L, J2, L2
  <2> QED
    BY <2>1, <2>2, SameClaims
<1> QED
  BY <1>13, <1>17 DEF k, Agrees

\* Only what the player looks at, and the top of the list, may differ.
SameBut(k, l) ==
    /\ k \in Levels /\ k.slot = l.slot /\ k.rec = l.rec /\ k.group = l.group
    /\ k.quit = l.quit /\ k.short = l.short

LEMMA SoundSame ==
    ASSUME NEW l, NEW odd, Sound(l, odd), NEW k, SameBut(k, l)
    PROVE  Sound(k, odd)
<1>1. /\ Alive(k) = Alive(l) /\ Joined(k) = Joined(l) /\ Led(k) = Led(l)
      /\ Indexed(k) <=> Indexed(l)
      /\ WellGrouped(k) <=> WellGrouped(l)
      /\ Enough(k) <=> Enough(l)
  BY SameRecords DEF SameBut, Enough
<1> QED
  BY <1>1 DEF SameBut, Sound

\* The player looks at another monster, or at none; or the list has another end.
LEMMA OtherPlaces ==
    ASSUME NEW l \in Levels, NEW t \in Indices, NEW a \in Places, NEW b \in Arena .. LevelMax - 1
    PROVE  LET k == LevelOf(l.slot, t, l.rec, l.group, a, b, l.quit, l.short)
           IN  SameBut(k, l) /\ k.max = t /\ k.target = a /\ k.health = b
<1> DEFINE s == l.slot
           r == l.rec
           g == l.group
           q == l.quit
           h == l.short
           k == LevelOf(s, t, r, g, a, b, q, h)
<1>1. /\ s \in [Indices -> Monsters \cup {Nobody}] /\ r \in [Monsters -> Recs]
      /\ g \in [GroupIndices -> Groups] /\ q \in BOOLEAN
      /\ h \in 0 .. LevelMax
  BY LevelParts
<1> HIDE DEF s, r, g, q, h
<1>2. k \in Levels
  BY <1>1, LevelTyped
<1>3. /\ k.slot = s /\ k.rec = r /\ k.group = g /\ k.quit = q /\ k.short = h
      /\ k.max = t /\ k.target = a /\ k.health = b
  BY LevelFields
<1> HIDE DEF k
<1>4. SameBut(k, l)
  BY <1>2, <1>3 DEF SameBut, s, r, g, q, h
<1> QED
  BY <1>3, <1>4 DEF k, s, r, g, q, h

LEMMA LookedAt ==
    ASSUME NEW l \in Levels, NEW aim \in Places, NEW k, k = [l EXCEPT !.target = aim]
    PROVE  SameBut(k, l) /\ k.max = l.max /\ k.target = aim /\ k.health = l.health
<1>1. k = LevelOf(l.slot, l.max, l.rec, l.group, aim, l.health, l.quit, l.short)
  BY DEF Levels, LevelOf
<1>2. l.max \in Indices /\ l.health \in Arena .. LevelMax - 1
  BY LevelParts
<1> QED
  BY <1>1, <1>2, OtherPlaces

LEMMA LookedAtBar ==
    ASSUME NEW l \in Levels, NEW bar \in Arena .. LevelMax - 1,
           NEW k, k = [l EXCEPT !.health = bar]
    PROVE  SameBut(k, l) /\ k.max = l.max /\ k.target = l.target /\ k.health = bar
<1>1. k = LevelOf(l.slot, l.max, l.rec, l.group, l.target, bar, l.quit, l.short)
  BY DEF Levels, LevelOf
<1>2. l.max \in Indices /\ l.target \in Places
  BY LevelParts
<1> QED
  BY <1>1, <1>2, OtherPlaces

LEMMA OtherEnd ==
    ASSUME NEW l \in Levels, NEW top \in Indices, NEW k, k = [l EXCEPT !.max = top]
    PROVE  SameBut(k, l) /\ k.max = top /\ k.target = l.target /\ k.health = l.health
<1>1. k = LevelOf(l.slot, top, l.rec, l.group, l.target, l.health, l.quit, l.short)
  BY DEF Levels, LevelOf
<1>2. l.target \in Places /\ l.health \in Arena .. LevelMax - 1
  BY LevelParts
<1> QED
  BY <1>1, <1>2, OtherPlaces

Looks(k, l, aim, bar) == k = [l EXCEPT !.target = aim, !.health = bar]
Looking(k, l, aim, bar) == SameBut(k, l) /\ k.max = l.max /\ k.target = aim /\ k.health = bar

LEMMA LookedAtBoth ==
    ASSUME NEW l \in Levels, NEW aim \in Places, NEW bar \in Arena .. LevelMax - 1,
           NEW k, Looks(k, l, aim, bar)
    PROVE  Looking(k, l, aim, bar)
<1> DEFINE j == [l EXCEPT !.target = aim]
<1>1. k = [j EXCEPT !.health = bar]
  BY DEF Looks
<1> HIDE DEF j
<1>2. SameBut(j, l) /\ j.max = l.max /\ j.target = aim
  BY LookedAt DEF j
<1>3. j \in Levels
  BY <1>2 DEF SameBut
<1>4. SameBut(k, j) /\ k.max = j.max /\ k.target = j.target /\ k.health = bar
  BY <1>1, <1>3, LookedAtBar
<1> QED
  BY <1>2, <1>4 DEF SameBut, Looking

\* m, of index i, is off the list.
Cut(k, l, m, i) == k = [l EXCEPT !.slot[i] = Nobody, !.rec[m] = NoRecord]
OffList(k, l, m, i) ==
    /\ k.slot = [l.slot EXCEPT ![i] = Nobody] /\ k.rec = [l.rec EXCEPT ![m] = NoRecord]
    /\ k.group = l.group /\ k.max = l.max /\ k.quit = l.quit /\ k.short = l.short
    /\ k.target = l.target /\ k.health = l.health
LEMMA CutParts ==
    ASSUME NEW l \in Levels, NEW i \in Indices, NEW m \in Monsters, NEW k, Cut(k, l, m, i)
    PROVE  k \in Levels /\ OffList(k, l, m, i)
<1> DEFINE slots == [l.slot EXCEPT ![i] = Nobody]
           recs == [l.rec EXCEPT ![m] = NoRecord]
<1>1. k = LevelOf(slots, l.max, recs, l.group, l.target, l.health, l.quit, l.short)
  <2> DEFINE j == [l EXCEPT !.slot[i] = Nobody]
  <2>1. j = LevelOf(slots, l.max, l.rec, l.group, l.target, l.health, l.quit, l.short)
    BY DEF Levels, LevelOf
  <2>2. k = [j EXCEPT !.rec[m] = NoRecord]
    BY DEF Cut
  <2> HIDE DEF slots, j
  <2> QED
    BY <2>1, <2>2 DEF LevelOf
<1>2. /\ slots \in [Indices -> Monsters \cup {Nobody}] /\ recs \in [Monsters -> Recs]
      /\ l.max \in Indices /\ l.group \in [GroupIndices -> Groups] /\ l.target \in Places
      /\ l.health \in Arena .. LevelMax - 1 /\ l.quit \in BOOLEAN /\ l.short \in 0 .. LevelMax
  BY LevelParts, RecTypes
<1> HIDE DEF slots, recs
<1>3. k \in Levels
  BY <1>1, <1>2, LevelTyped
<1>4. /\ k.slot = slots /\ k.max = l.max /\ k.rec = recs /\ k.group = l.group
      /\ k.target = l.target /\ k.health = l.health /\ k.quit = l.quit /\ k.short = l.short
  BY <1>1, LevelFields
<1> QED
  BY <1>3, <1>4 DEF slots, recs, OffList

\* What the player looks at when a monster of index i is no more.
Lost(place, i) == IF place = i THEN 0 ELSE place
Removed(k, l, m, i) ==
    /\ k.slot = [l.slot EXCEPT ![i] = Nobody] /\ k.max = l.max
    /\ k.target = Lost(l.target, i) /\ k.health = Lost(l.health, i)
    /\ Alive(k) = Alive(l) \ {m}

LEMMA CutSound ==
    ASSUME NEW l \in Levels, Indexed(l), WellGrouped(l), ~l.quit, Enough(l),
           NEW m \in Alive(l), NEW i, i = l.rec[m].midx,
           Agrees(l, GroupIndices, Own(i)), NEW k, Cut(k, l, m, i)
    PROVE  Sound(k, {}) /\ Alive(k) = Alive(l) \ {m}
<1>1. /\ m \in Monsters /\ m # Nobody /\ i \in Indices /\ l.slot[i] = m
      /\ \A n \in Alive(l) : n \in Monsters /\ l.rec[n].midx \in Indices /\ l.slot[l.rec[n].midx] = n
      /\ \A x \in Indices : l.slot[x] # Nobody => l.rec[l.slot[x]].midx = x
  BY AliveAt
<1>2. /\ k \in Levels /\ k.slot = [l.slot EXCEPT ![i] = Nobody]
      /\ k.rec = [l.rec EXCEPT ![m] = NoRecord]
      /\ k.group = l.group /\ k.quit = l.quit /\ k.short = l.short
  BY <1>1, CutParts DEF OffList
<1>3. l.slot \in [Indices -> Monsters \cup {Nobody}] /\ l.rec \in [Monsters -> Recs]
  BY LevelParts
<1>4. /\ k.slot[i] = Nobody /\ \A x \in Indices \ {i} : k.slot[x] = l.slot[x]
      /\ k.rec[m] = NoRecord /\ \A n \in Monsters \ {m} : k.rec[n] = l.rec[n]
  BY <1>1, <1>2, <1>3
<1>5. \A x \in Indices : k.slot[x] # Nobody => x # i /\ k.slot[x] = l.slot[x] /\ l.slot[x] # m
  BY <1>1, <1>4
<1>6. Alive(k) = Alive(l) \ {m}
  <2>1. ASSUME NEW n, n \in Alive(k) PROVE n \in Alive(l) \ {m}
    BY <1>5, <2>1 DEF Alive
  <2>2. ASSUME NEW n, n \in Alive(l) \ {m} PROVE n \in Alive(k)
    <3>1. l.rec[n].midx \in Indices /\ l.slot[l.rec[n].midx] = n /\ n # Nobody
      BY <1>1, <2>2 DEF Alive
    <3>2. k.slot[l.rec[n].midx] = n
      BY <1>1, <1>4, <2>2, <3>1
    <3> QED
      BY <3>1, <3>2 DEF Alive
  <2> QED
    BY <2>1, <2>2
<1>7. Indexed(k)
  <2>1. ASSUME NEW x \in Indices, k.slot[x] # Nobody
        PROVE  LET r == k.rec[k.slot[x]] IN r.midx = x /\ r.square = x /\ r.object = x
    <3>1. k.slot[x] = l.slot[x] /\ l.slot[x] # m /\ l.slot[x] # Nobody
      BY <1>5, <2>1
    <3>2. l.slot[x] \in Monsters
      BY <1>3, <3>1
    <3>3. k.rec[k.slot[x]] = l.rec[l.slot[x]]
      BY <1>4, <3>1, <3>2
    <3> QED
      BY <3>1, <3>3 DEF Indexed
  <2>2. ASSUME NEW n \in Monsters \ Alive(k) PROVE k.rec[n] = NoRecord
    BY <1>4, <1>6 DEF Indexed
  <2> QED
    BY <2>1, <2>2 DEF Indexed
<1>8. WellGrouped(k)
  <2>1. \A n \in Alive(k) : n \in Alive(l) /\ \A w \in 1 .. 2 : Info(k, n, w) = Info(l, n, w)
    BY <1>1, <1>4, <1>6 DEF Info
  <2> QED
    BY <2>1 DEF WellGrouped
<1>9. KeptIn(GroupIndices, k.group, Joined(k), Led(k))
  <2> DEFINE J == Joined(l) \ Own(i)
             L == Led(l) \ Own(i)
  <2>1. KeptIn(GroupIndices, l.group, J, L)
    BY DEF Agrees
  <2>2. ASSUME NEW x \in Indices, NEW g \in GroupIndices
        PROVE  /\ <<x, g>> \in Joined(k) <=> <<x, g>> \in J
               /\ <<x, g>> \in Led(k) <=> <<x, g>> \in L
    <3>1. CASE x = i
      <4>1. k.slot[i] = Nobody /\ <<i, g>> \in Own(i)
        BY <1>4 DEF Own
      <4> QED
        BY <1>1, <3>1, <4>1, Claims
    <3>2. CASE x # i
      <4>1. <<x, g>> \notin Own(i)
        BY <3>2 DEF Own
      <4>2. k.slot[x] = l.slot[x]
        BY <1>4, <3>2
      <4>3. l.slot[x] # Nobody => l.slot[x] \in Monsters \ {m}
        BY <1>1, <1>3, <3>2
      <4>4. l.slot[x] # Nobody => \A w \in 1 .. 2 : Info(k, l.slot[x], w) = Info(l, l.slot[x], w)
        BY <1>4, <4>3 DEF Info
      <4> QED
        BY <4>1, <4>2, <4>4, Claims
    <3> QED
      BY <3>1, <3>2
  <2> HIDE DEF J, L
  <2>3. KeptIn(GroupIndices, l.group, Joined(k), Led(k))
    BY <2>1, <2>2, SameClaims
  <2> QED
    BY <1>2, <2>3
<1>10. Enough(k)
  BY <1>2 DEF Enough
<1>11. Joined(k) \ {} = Joined(k) /\ Led(k) \ {} = Led(k)
  OBVIOUS
<1> QED
  BY <1>2, <1>6, <1>7, <1>8, <1>9, <1>10, <1>11 DEF Sound, Kept

\* delete_monster_idx(): the level is sound, without the monster.
LEMMA DeletedOne ==
    ASSUME NEW l, Sound(l, {}), NEW m \in Alive(l), NEW i, i = l.rec[m].midx
    PROVE  /\ Sound(delete_monster_idx(l, m), {})
           /\ Removed(delete_monster_idx(l, m), l, m, i)
<1> DEFINE aim == Lost(l.target, i)
           bar == Lost(l.health, i)
           unseen == [l EXCEPT !.target = aim, !.health = bar]
           gone == monster_remove_from_groups(unseen, m)
           k == delete_monster_idx(l, m)
<1>1. l \in Levels /\ Indexed(l)
  BY DEF Sound
<1>2. aim \in Places /\ bar \in Arena .. LevelMax - 1 /\ m \in Monsters /\ i \in Indices
  <2>1. 0 \in Places /\ 0 \in Arena .. LevelMax - 1
    BY Sizes DEF Arena
  <2> QED
    BY <1>1, <2>1, LevelParts, AliveAt DEF Lost
<1>3. Cut(k, gone, m, i)
  BY DEF Cut, delete_monster_idx, Lost
<1> HIDE DEF aim, bar, k, gone
<1>4. SameBut(unseen, l) /\ unseen.max = l.max /\ unseen.target = aim /\ unseen.health = bar
  <2>1. Looks(unseen, l, aim, bar)
    BY DEF Looks
  <2> HIDE DEF unseen
  <2> QED
    BY <1>1, <1>2, <2>1, LookedAtBoth DEF Looking
<1> HIDE DEF unseen
<1>5. Sound(unseen, {}) /\ m \in Alive(unseen) /\ unseen.rec[m].midx = i
  BY <1>4, SoundSame, SameRecords DEF SameBut
<1>6. Left(gone, unseen, m) /\ Agrees(gone, GroupIndices, Own(i))
  BY <1>5, GroupsLeft DEF gone
<1>7. /\ gone \in Levels /\ SameList(gone, unseen) /\ Indexed(gone) /\ WellGrouped(gone)
      /\ gone.rec[m] = unseen.rec[m] /\ gone.rec[m].midx = i
  BY <1>5, <1>6 DEF Left
<1>8. Alive(gone) = Alive(unseen) /\ (Enough(unseen) => Enough(gone)) /\ Alive(unseen) = Alive(l)
  BY <1>4, <1>7, SameLists, SameRecords DEF SameBut
<1>9. m \in Alive(gone) /\ Enough(gone) /\ ~gone.quit
  BY <1>5, <1>7, <1>8 DEF Sound, SameList
<1>10. Sound(k, {}) /\ Alive(k) = Alive(gone) \ {m}
  BY <1>3, <1>6, <1>7, <1>9, CutSound
<1>11. /\ k.slot = [gone.slot EXCEPT ![i] = Nobody] /\ k.max = gone.max
       /\ k.target = gone.target /\ k.health = gone.health
  <2>1. OffList(k, gone, m, i)
    BY <1>2, <1>3, <1>7, CutParts
  <2> QED
    BY <2>1 DEF OffList
<1>12. /\ gone.slot = l.slot /\ gone.max = l.max /\ gone.target = aim /\ gone.health = bar
  BY <1>4, <1>7 DEF SameList, SameBut
<1>13. Removed(k, l, m, i)
  BY <1>8, <1>10, <1>11, <1>12 DEF Removed, aim, bar
<1> QED
  BY <1>10, <1>13 DEF k

-----------------------------------------------------------------------------
(* A monster moves to another index.                                       *)

\* m, of index i, is about to move to j, where nobody is.
Moving(l, m, i, j) ==
    /\ Sound(l, {}) /\ i \in Indices /\ j \in Slots /\ i # j
    /\ m = l.slot[i] /\ m # Nobody /\ l.slot[j] = Nobody

LEMMA MovingParts ==
    ASSUME NEW l, NEW m, NEW i, NEW j, Moving(l, m, i, j)
    PROVE  /\ l \in Levels /\ Indexed(l) /\ WellGrouped(l) /\ m \in Alive(l) /\ m \in Monsters
           /\ l.rec[m].midx = i /\ i \in Slots /\ i \in Indices /\ j \in Indices /\ j \in Places
           /\ \A f \in GroupIndices :
                 /\ l.group[f] \in Groups /\ KeptGroup(l.group[f], f, Joined(l), Led(l))
                 /\ <<j, f>> \notin Joined(l) /\ <<j, f>> \notin Led(l)
                 /\ <<i, f>> \in Led(l) => <<i, f>> \in Joined(l)
<1>1. l \in Levels /\ Indexed(l) /\ WellGrouped(l) /\ Kept(l.group, Joined(l) \ {}, Led(l) \ {})
  BY DEF Moving, Sound
<1>2. Joined(l) \ {} = Joined(l) /\ Led(l) \ {} = Led(l)
  OBVIOUS
<1>3. i \in Indices /\ j \in Indices /\ j \in Places /\ m = l.slot[i] /\ m # Nobody /\ l.slot[j] = Nobody
  BY Sizes DEF Moving
<1>4. m \in Alive(l) /\ l.rec[m].midx = i /\ i \in Slots /\ m \in Monsters
  BY <1>1, <1>3, AliveAt
<1>5. \A f \in GroupIndices : l.group[f] \in Groups
  BY <1>1, LevelParts
<1>6. \A f \in GroupIndices : KeptGroup(l.group[f], f, Joined(l), Led(l))
  BY <1>1, <1>2 DEF Kept, KeptIn
<1>7. \A f \in GroupIndices : <<j, f>> \notin Joined(l) /\ <<j, f>> \notin Led(l)
  BY <1>3, Claims
<1>8. \A f \in GroupIndices : <<i, f>> \in Led(l) => <<i, f>> \in Joined(l)
  BY <1>1, <1>3, LedJoined
<1> QED
  BY <1>1, <1>3, <1>4, <1>5, <1>6, <1>7, <1>8

\* monster_group_change_index() renames m in the groups it is in.
LEMMA IndexChanged ==
    ASSUME NEW l, NEW m, NEW i, NEW j, Moving(l, m, i, j)
    PROVE  LET c == monster_group_change_index(l, j, i)
           IN  /\ Put(c, l)
               /\ \A f \in GroupIndices :
                     c.group[f] = IF <<i, f>> \in Joined(l) THEN Renamed(l.group[f], i, j)
                                  ELSE l.group[f]
<1> DEFINE c == monster_group_change_index(l, j, i)
           g == GroupOf(l, m, Primary)
           h == GroupOf(l, m, Second)
           one == [l EXCEPT !.group[g] = Renamed(l.group[g], i, j)]
           two == [one EXCEPT !.group[h] = Renamed(l.group[h], i, j)]
<1>1. /\ l \in Levels /\ WellGrouped(l) /\ m \in Alive(l) /\ m \in Monsters
      /\ i \in Indices /\ j \in Slots /\ j \in Indices /\ j \in Places /\ l.slot[i] = m /\ m # Nobody
      /\ \A f \in GroupIndices : l.group[f] \in Groups /\ KeptGroup(l.group[f], f, Joined(l), Led(l))
                                 /\ <<j, f>> \notin Joined(l)
  BY MovingParts DEF Moving
<1>2. g = Info(l, m, 1).index /\ h = Info(l, m, 2).index
  BY DEF GroupOf, Primary, Second, Info
<1>3. g \in GroupIndices /\ h \in 0 .. MaxGroups /\ h # g
  <2>1. Info(l, m, 1) \in Infos /\ Info(l, m, 2) \in Infos
    BY <1>1, LevelParts, RecTypes DEF Info
  <2>2. g \in 0 .. MaxGroups /\ h \in 0 .. MaxGroups /\ g # 0 /\ h # g
    BY <1>1, <1>2, <2>1, InfoTypes DEF WellGrouped
  <2> QED
    BY <2>2, Sizes
<1>4. \A f \in GroupIndices : <<i, f>> \in Joined(l) <=> f = g \/ f = h
  BY <1>1, <1>2, Claims
<1>5. ASSUME NEW f \in GroupIndices, <<i, f>> \in Joined(l)
      PROVE  /\ i \in ToSet(l.group[f].members) /\ l.group[f] # NoGroup
             /\ Renamed(l.group[f], i, j) \in Groups
  <2> DEFINE group == l.group[f]
  <2>1. group \in Groups /\ KeptGroup(group, f, Joined(l), Led(l))
    BY <1>1
  <2>2. i \in ToSet(group.members) /\ j \notin ToSet(group.members) /\ IsInjective(group.members)
    BY <1>1, <1>5, <2>1 DEF KeptGroup
  <2> HIDE DEF group
  <2>3. group # NoGroup /\ group.leader \in Places
    BY <2>1, <2>2, GroupTypes, NoMember
  <2>4. Renamed(group, i, j).members \in Seq(Slots)
    BY <1>1, <2>1, <2>2, MemberRenamed
  <2>5. Renamed(group, i, j) = [leader |-> IF group.leader = i THEN j ELSE group.leader,
                                members |-> Renamed(group, i, j).members]
    BY DEF Renamed
  <2>6. Renamed(group, i, j) \in Groups
    BY <1>1, <2>3, <2>4, <2>5, GroupTypes
  <2> QED
    BY <2>2, <2>3, <2>6 DEF group
<1>6. <<i, g>> \in Joined(l) /\ l.group[g] # NoGroup
  BY <1>3, <1>4, <1>5
<1> HIDE DEF g, h
<1>7. one \in Levels /\ SameList(one, l) /\ one.rec = l.rec
      /\ one.group = [l.group EXCEPT ![g] = Renamed(l.group[g], i, j)]
  <2>1. Renamed(l.group[g], i, j) \in Groups
    BY <1>3, <1>5, <1>6
  <2>2. PutGroup(one, l, g, Renamed(l.group[g], i, j))
    BY DEF PutGroup
  <2> HIDE DEF one
  <2>3. Put(one, l) /\ GroupIs(one, l, g, Renamed(l.group[g], i, j))
    BY <1>1, <1>3, <2>1, <2>2, GroupSet
  <2> QED
    BY <2>3 DEF Put, GroupIs
<1>8. l.group \in [GroupIndices -> Groups]
  BY <1>1, LevelParts
<1>9. CASE h = 0
  <2>1. ~HasGroup(l, m, Second) /\ h \notin GroupIndices
    BY <1>9, Sizes DEF HasGroup, h
  <2>2. i \in ToSet(l.group[g].members)
    BY <1>3, <1>5, <1>6
  <2>3. c = [one EXCEPT !.quit = @ \/ FALSE]
    BY <1>1, <2>1, <2>2 DEF monster_group_change_index, g
  <2> HIDE DEF one, c
  <2>4. one.quit \in BOOLEAN /\ one.short \in 0 .. LevelMax /\ one = LevelOf(one.slot, one.max, one.rec, one.group, one.target, one.health, one.quit, one.short)
    BY <1>7, LevelParts
  <2>5. (one.quit \/ FALSE) = one.quit
    BY <2>4, Zenon
  <2>6. c = one
    BY <2>3, <2>4, <2>5 DEF LevelOf
  <2>7. Put(c, l)
    BY <1>7, <2>6 DEF Put
  <2>8. \A f \in GroupIndices : c.group[f] = IF <<i, f>> \in Joined(l) THEN Renamed(l.group[f], i, j)
                                             ELSE l.group[f]
    BY <1>3, <1>4, <1>7, <1>8, <2>1, <2>6
  <2> QED
    BY <2>7, <2>8 DEF c
<1>10. CASE h # 0
  <2>1. h \in GroupIndices
    BY <1>3, <1>10, Sizes
  <2>2. i \in ToSet(l.group[h].members) /\ l.group[h] # NoGroup /\ Renamed(l.group[h], i, j) \in Groups
    BY <1>4, <1>5, <2>1
  <2>3. HasGroup(l, m, Second)
    BY <1>10, <2>2 DEF HasGroup, h
  <2>4. one.group[h] = l.group[h]
    BY <1>3, <1>7, <1>8, <2>1
  <2>5. c = [two EXCEPT !.quit = @ \/ FALSE]
    <3>1. c = [one EXCEPT !.group[h] = Renamed(@, i, j), !.quit = @ \/ FALSE]
      BY <1>1, <2>2, <2>3 DEF monster_group_change_index, g, h
    <3>2. [one EXCEPT !.group[h] = Renamed(@, i, j)] = two
      BY <2>4
    <3> HIDE DEF c, one
    <3> QED
      BY <2>4, <3>1
  <2>6. PutGroup(two, one, h, Renamed(l.group[h], i, j))
    BY DEF PutGroup
  <2> HIDE DEF c, two, one
  <2>7. Put(two, one) /\ GroupIs(two, one, h, Renamed(l.group[h], i, j))
    BY <1>7, <2>1, <2>2, <2>6, GroupSet
  <2>8. two \in Levels /\ two.group = [one.group EXCEPT ![h] = Renamed(l.group[h], i, j)]
        /\ two.rec = l.rec /\ SameList(two, l)
    BY <1>7, <2>7, SameListTwice DEF Put, GroupIs
  <2>9. two.quit \in BOOLEAN /\ two.short \in 0 .. LevelMax /\ two = LevelOf(two.slot, two.max, two.rec, two.group, two.target, two.health, two.quit, two.short)
    BY <2>8, LevelParts
  <2>10. (two.quit \/ FALSE) = two.quit
    BY <2>9, Zenon
  <2>11. c = two
    BY <2>5, <2>9, <2>10 DEF LevelOf
  <2>12. Put(c, l)
    BY <2>8, <2>11 DEF Put
  <2>13. \A f \in GroupIndices : c.group[f] = IF <<i, f>> \in Joined(l) THEN Renamed(l.group[f], i, j)
                                             ELSE l.group[f]
    BY <1>3, <1>4, <1>7, <1>8, <2>1, <2>8, <2>11
  <2> QED
    BY <2>12, <2>13 DEF c
<1> QED
  BY <1>9, <1>10

\* The list, the records and what the player looks at, after m has moved from i to j.
Shift(c, slots, recs, aim, bar) ==
    [c EXCEPT !.rec = recs, !.target = aim, !.health = bar, !.slot = slots]
ShiftedSlots(l, i, j) == [l.slot EXCEPT ![j] = l.slot[i], ![i] = Nobody]
ShiftedRecs(l, i, j) ==
    [l.rec EXCEPT ![l.slot[i]] = [l.rec[l.slot[i]] EXCEPT !.midx = j, !.square = j, !.object = j]]
ShiftIs(k, c, slots, recs, aim, bar) ==
    /\ k.slot = slots /\ k.rec = recs /\ k.group = c.group /\ k.max = c.max /\ k.quit = c.quit /\ k.short = c.short
    /\ k.target = aim /\ k.health = bar

LEMMA ShiftParts ==
    ASSUME NEW c \in Levels, NEW slots \in [Indices -> Monsters \cup {Nobody}],
           NEW recs \in [Monsters -> Recs], NEW aim \in Places, NEW bar \in Arena .. LevelMax - 1
    PROVE  /\ Shift(c, slots, recs, aim, bar) \in Levels
           /\ ShiftIs(Shift(c, slots, recs, aim, bar), c, slots, recs, aim, bar)
<1> DEFINE k == Shift(c, slots, recs, aim, bar)
<1>1. /\ c.max \in Indices /\ c.group \in [GroupIndices -> Groups] /\ c.quit \in BOOLEAN /\ c.short \in 0 .. LevelMax
      /\ c = LevelOf(c.slot, c.max, c.rec, c.group, c.target, c.health, c.quit, c.short)
  BY LevelParts
<1>2. k = LevelOf(slots, c.max, recs, c.group, aim, bar, c.quit, c.short)
  <2> DEFINE d == LevelOf(c.slot, c.max, c.rec, c.group, c.target, c.health, c.quit, c.short)
             k1 == [d EXCEPT !.rec = recs]
             k2 == [k1 EXCEPT !.target = aim]
             k3 == [k2 EXCEPT !.health = bar]
             k4 == [k3 EXCEPT !.slot = slots]
  <2>1. k = k4
    <3>1. c = d
      BY <1>1
    <3>2. k = [d EXCEPT !.rec = recs, !.target = aim, !.health = bar, !.slot = slots]
      BY <3>1 DEF Shift
    <3> HIDE DEF d
    <3> QED
      BY <3>2
  <2>2. k1 = LevelOf(c.slot, c.max, recs, c.group, c.target, c.health, c.quit, c.short)
    BY DEF LevelOf
  <2> HIDE DEF k1
  <2>3. k2 = LevelOf(c.slot, c.max, recs, c.group, aim, c.health, c.quit, c.short)
    BY <2>2 DEF LevelOf
  <2> HIDE DEF k2
  <2>4. k3 = LevelOf(c.slot, c.max, recs, c.group, aim, bar, c.quit, c.short)
    BY <2>3 DEF LevelOf
  <2> HIDE DEF k3
  <2>5. k4 = LevelOf(slots, c.max, recs, c.group, aim, bar, c.quit, c.short)
    BY <2>4 DEF LevelOf
  <2> QED
    BY <2>1, <2>5
<1> HIDE DEF k
<1>3. k \in Levels
  BY <1>1, <1>2, LevelTyped
<1>4. /\ k.slot = slots /\ k.max = c.max /\ k.rec = recs /\ k.group = c.group
      /\ k.target = aim /\ k.health = bar /\ k.quit = c.quit /\ k.short = c.short
  BY <1>2, LevelFields
<1> QED
  BY <1>3, <1>4 DEF ShiftIs, k

LEMMA MoveIsShift ==
    ASSUME NEW l, NEW i, NEW j, i # j,
           NEW aim, NEW bar,
           aim = (IF l.target # i THEN l.target ELSE IF l.slot[j] = Nobody THEN 0 ELSE j),
           bar = (IF l.health = i THEN j ELSE l.health)
    PROVE  monster_index_move(l, i, j) =
             Shift(monster_group_change_index(l, j, i), ShiftedSlots(l, i, j), ShiftedRecs(l, i, j),
                   aim, bar)
  BY DEF monster_index_move, Shift, ShiftedSlots, ShiftedRecs

\* What is in the list and the records then.
LEMMA ShiftedLists ==
    ASSUME NEW l \in Levels, NEW i \in Indices, NEW j \in Slots, NEW m \in Monsters, m = l.slot[i], i # j
    PROVE  /\ ShiftedSlots(l, i, j) \in [Indices -> Monsters \cup {Nobody}]
           /\ ShiftedRecs(l, i, j) \in [Monsters -> Recs]
           /\ ShiftedSlots(l, i, j)[j] = m /\ ShiftedSlots(l, i, j)[i] = Nobody
           /\ \A x \in Indices \ {i, j} : ShiftedSlots(l, i, j)[x] = l.slot[x]
           /\ ShiftedRecs(l, i, j)[m] = RecOf(j, j, j, l.rec[m].info)
           /\ \A n \in Monsters \ {m} : ShiftedRecs(l, i, j)[n] = l.rec[n]
<1>1. l.slot \in [Indices -> Monsters \cup {Nobody}] /\ l.rec \in [Monsters -> Recs]
  BY LevelParts
<1>2. j \in Indices /\ j \in Places
  BY Sizes
<1> DEFINE one == [l.slot EXCEPT ![j] = m]
           r == l.rec[m]
           r1 == [r EXCEPT !.midx = j]
           r2 == [r1 EXCEPT !.square = j]
           r3 == [r2 EXCEPT !.object = j]
<1>3. ShiftedSlots(l, i, j) = [one EXCEPT ![i] = Nobody]
  BY DEF ShiftedSlots
<1>4. one \in [Indices -> Monsters \cup {Nobody}] /\ one[j] = m
      /\ \A x \in Indices \ {j} : one[x] = l.slot[x]
  BY <1>1, <1>2
<1>5. r3 = RecOf(j, j, j, r.info) /\ r3 \in Recs
  <2>1. r \in Recs /\ r.info \in [1 .. 2 -> Infos]
    BY <1>1, RecTypes
  <2> HIDE DEF r
  <2>2. r1 = RecOf(j, r.square, r.object, r.info)
    BY <2>1 DEF Recs, RecOf
  <2> HIDE DEF r1
  <2>3. r2 = RecOf(j, j, r.object, r.info)
    BY <2>2 DEF RecOf
  <2> HIDE DEF r2
  <2>4. r3 = RecOf(j, j, j, r.info)
    BY <2>3 DEF RecOf
  <2> HIDE DEF r3
  <2>5. RecOf(j, j, j, r.info) \in Recs
    BY <1>2, <2>1 DEF RecOf, Recs
  <2> QED
    BY <2>4, <2>5
<1>6. ShiftedRecs(l, i, j) = [l.rec EXCEPT ![m] = r3]
  BY DEF ShiftedRecs
<1> HIDE DEF one, r3, r2, r1
<1> QED
  BY <1>1, <1>2, <1>3, <1>4, <1>5, <1>6 DEF r

Follow(place, i, j) == IF place = i THEN j ELSE place
IndexMoved(k, l, m, i, j) ==
    /\ k.slot[j] = m /\ k.slot[i] = Nobody /\ \A x \in Indices \ {i, j} : k.slot[x] = l.slot[x]
    /\ k.max = l.max /\ k.target = Lost(l.target, i) /\ k.health = Follow(l.health, i, j)
    /\ Alive(k) = Alive(l)

\* monster_index_move(): the level is sound, and only the index has changed.
LEMMA IndexMoves ==
    ASSUME NEW l, NEW m, NEW i, NEW j, Moving(l, m, i, j)
    PROVE  /\ Sound(monster_index_move(l, i, j), {})
           /\ IndexMoved(monster_index_move(l, i, j), l, m, i, j)
<1> DEFINE c == monster_group_change_index(l, j, i)
           k == monster_index_move(l, i, j)
           aim == Lost(l.target, i)
           bar == Follow(l.health, i, j)
<1>1. /\ l \in Levels /\ Indexed(l) /\ WellGrouped(l) /\ m \in Alive(l) /\ m \in Monsters
      /\ l.rec[m].midx = i /\ i \in Indices /\ j \in Indices /\ j \in Places /\ i # j
      /\ l.slot[i] = m /\ m # Nobody /\ l.slot[j] = Nobody /\ ~l.quit /\ Enough(l) /\ j \in Slots
      /\ \A f \in GroupIndices :
            /\ l.group[f] \in Groups /\ KeptGroup(l.group[f], f, Joined(l), Led(l))
            /\ <<j, f>> \notin Joined(l) /\ <<j, f>> \notin Led(l)
            /\ <<i, f>> \in Led(l) => <<i, f>> \in Joined(l)
  BY MovingParts DEF Moving, Sound
<1>2. /\ Put(c, l)
      /\ \A f \in GroupIndices :
            c.group[f] = IF <<i, f>> \in Joined(l) THEN Renamed(l.group[f], i, j) ELSE l.group[f]
  BY IndexChanged
<1>3. aim \in Places /\ bar \in Arena .. LevelMax - 1
  <2>1. 0 \in Places /\ j \in Arena .. LevelMax - 1 /\ l.target \in Places /\ l.health \in Arena .. LevelMax - 1
    BY <1>1, LevelParts, Sizes DEF Arena, Places
  <2> QED
    BY <2>1 DEF Lost, Follow
<1>4. /\ c \in Levels /\ c.slot = l.slot /\ c.max = l.max /\ c.target = l.target
      /\ c.health = l.health /\ c.quit = l.quit /\ c.rec = l.rec /\ Enough(c)
  BY <1>1, <1>2 DEF Put, SameList
<1>5. k = Shift(c, ShiftedSlots(l, i, j), ShiftedRecs(l, i, j), aim, bar)
  <2>1. aim = (IF l.target # i THEN l.target ELSE IF l.slot[j] = Nobody THEN 0 ELSE j)
    BY <1>1 DEF Lost
  <2>2. bar = (IF l.health = i THEN j ELSE l.health)
    BY DEF Follow
  <2> HIDE DEF c, k, aim, bar
  <2> QED
    BY <1>1, <2>1, <2>2, MoveIsShift DEF c, k
<1> HIDE DEF c, k, aim, bar
<1>6. k \in Levels /\ ShiftIs(k, c, ShiftedSlots(l, i, j), ShiftedRecs(l, i, j), aim, bar)
  BY <1>1, <1>3, <1>4, <1>5, ShiftedLists, ShiftParts
<1>7. l.slot \in [Indices -> Monsters \cup {Nobody}] /\ l.rec \in [Monsters -> Recs]
  BY <1>1, LevelParts
<1>8. /\ k.slot[j] = m /\ k.slot[i] = Nobody /\ \A x \in Indices \ {i, j} : k.slot[x] = l.slot[x]
      /\ k.max = l.max /\ k.target = aim /\ k.health = bar /\ k.quit = l.quit /\ k.short = c.short /\ k.group = c.group
      /\ k.rec[m] = RecOf(j, j, j, l.rec[m].info)
      /\ \A n \in Monsters \ {m} : k.rec[n] = l.rec[n]
  BY <1>1, <1>4, <1>6, ShiftedLists DEF ShiftIs
<1>9. /\ k.rec[m].midx = j /\ k.rec[m].square = j /\ k.rec[m].object = j
      /\ \A n \in Monsters, w \in 1 .. 2 : Info(k, n, w) = Info(l, n, w)
  BY <1>8 DEF RecOf, Info
<1>10. \A x \in Indices : l.slot[x] = m => x = i
  BY <1>1 DEF Indexed
<1>11. Alive(k) = Alive(l)
  <2>1. ASSUME NEW n, n \in Alive(k) PROVE n \in Alive(l)
    <3>1. PICK x \in Indices : k.slot[x] = n
      BY <2>1 DEF Alive
    <3>2. n # Nobody
      BY <2>1 DEF Alive
    <3>3. n = m \/ l.slot[x] = n
      BY <1>8, <3>1, <3>2
    <3> QED
      BY <1>1, <3>2, <3>3 DEF Alive
  <2>2. ASSUME NEW n, n \in Alive(l) PROVE n \in Alive(k)
    <3>1. PICK x \in Indices : l.slot[x] = n
      BY <2>2 DEF Alive
    <3>2. n # Nobody
      BY <2>2 DEF Alive
    <3>3. n = m \/ k.slot[x] = n
      BY <1>1, <1>8, <3>1, <3>2
    <3> QED
      BY <1>1, <1>8, <3>2, <3>3 DEF Alive
  <2> QED
    BY <2>1, <2>2
<1>12. Indexed(k)
  <2>1. ASSUME NEW x \in Indices, k.slot[x] # Nobody
        PROVE  k.rec[k.slot[x]].midx = x /\ k.rec[k.slot[x]].square = x /\ k.rec[k.slot[x]].object = x
    <3>1. CASE x = j
      BY <1>8, <1>9, <3>1
    <3>2. CASE x # j
      <4>1. x # i /\ k.slot[x] = l.slot[x] /\ l.slot[x] # m
        BY <1>8, <1>10, <2>1, <3>2
      <4>2. l.slot[x] \in Monsters \ {m}
        BY <1>7, <2>1, <4>1
      <4>3. k.rec[l.slot[x]] = l.rec[l.slot[x]]
        BY <1>8, <4>2
      <4> QED
        BY <1>1, <2>1, <4>1, <4>3 DEF Indexed
    <3> QED
      BY <3>1, <3>2
  <2>2. ASSUME NEW n \in Monsters \ Alive(k) PROVE k.rec[n] = NoRecord
    BY <1>1, <1>8, <1>11 DEF Indexed
  <2> QED
    BY <2>1, <2>2 DEF Indexed
<1>13. WellGrouped(k)
  <2>1. \A n \in Alive(k) : n \in Alive(l) /\ \A w \in 1 .. 2 : Info(k, n, w) = Info(l, n, w)
    BY <1>1, <1>9, <1>11, AliveAt
  <2> QED
    BY <1>1, <2>1 DEF WellGrouped
<1>14. \A f \in GroupIndices :
          /\ Moved(Joined(k), Joined(l), f, i, j) /\ Moved(Led(k), Led(l), f, i, j)
  <2> SUFFICES ASSUME NEW f \in GroupIndices, NEW x \in Indices
               PROVE  /\ <<x, f>> \in Joined(k) <=> IF x = j THEN <<i, f>> \in Joined(l)
                                                    ELSE x # i /\ <<x, f>> \in Joined(l)
                      /\ <<x, f>> \in Led(k) <=> IF x = j THEN <<i, f>> \in Led(l)
                                                 ELSE x # i /\ <<x, f>> \in Led(l)
    BY DEF Moved
  <2>1. CASE x = j
    <3>1. Info(k, m, 1) = Info(l, m, 1) /\ Info(k, m, 2) = Info(l, m, 2)
      BY <1>1, <1>9
    <3> QED
      BY <1>1, <1>8, <2>1, <3>1, Claims
  <2>2. CASE x = i
    BY <1>1, <1>8, <2>2, Claims
  <2>3. CASE x # i /\ x # j
    <3>1. k.slot[x] = l.slot[x] /\ l.slot[x] \in Monsters \cup {Nobody}
      BY <1>7, <1>8, <2>3
    <3>2. l.slot[x] # Nobody =>
             Info(k, l.slot[x], 1) = Info(l, l.slot[x], 1) /\ Info(k, l.slot[x], 2) = Info(l, l.slot[x], 2)
      BY <1>9, <3>1
    <3> QED
      BY <2>3, <3>1, <3>2, Claims
  <2> QED
    BY <2>1, <2>2, <2>3
<1>15. KeptIn(GroupIndices, k.group, Joined(k), Led(k))
  <2> SUFFICES ASSUME NEW f \in GroupIndices PROVE KeptGroup(k.group[f], f, Joined(k), Led(k))
    BY DEF KeptIn
  <2> DEFINE J == Joined(l)
             L == Led(l)
             J2 == Joined(k)
             L2 == Led(k)
             group == l.group[f]
  <2>1. /\ group \in Groups /\ KeptGroup(group, f, J, L) /\ <<j, f>> \notin J /\ <<j, f>> \notin L
        /\ <<i, f>> \in L => <<i, f>> \in J
    BY <1>1
  <2>2. Moved(J2, J, f, i, j) /\ Moved(L2, L, f, i, j)
    BY <1>14
  <2>3. k.group[f] = IF <<i, f>> \in J THEN Renamed(group, i, j) ELSE group
    BY <1>2, <1>8
  <2> HIDE DEF J, L, J2, L2, group
  <2>4. CASE <<i, f>> \in J
    <3>1. KeptGroup(Renamed(group, i, j), f, J2, L2)
      BY <1>1, <2>1, <2>2, <2>4, RenamedGroup
    <3> QED
      BY <2>3, <2>4, <3>1 DEF J2, L2
  <2>5. CASE <<i, f>> \notin J
    <3>1. \A x \in Indices : (<<x, f>> \in J2 <=> <<x, f>> \in J) /\ (<<x, f>> \in L2 <=> <<x, f>> \in L)
      BY <2>1, <2>2, <2>5 DEF Moved
    <3>2. KeptGroup(group, f, J2, L2)
      BY <2>1, <3>1 DEF KeptGroup
    <3> QED
      BY <2>3, <2>5, <3>2 DEF J2, L2
  <2> QED
    BY <2>4, <2>5
<1>16. Enough(k)
  BY <1>4, <1>8 DEF Enough
<1>17. Joined(k) \ {} = Joined(k) /\ Led(k) \ {} = Led(k)
  OBVIOUS
<1>18. Sound(k, {})
  BY <1>1, <1>6, <1>8, <1>12, <1>13, <1>15, <1>16, <1>17 DEF Sound, Kept
<1>19. IndexMoved(k, l, m, i, j)
  BY <1>8, <1>11 DEF IndexMoved, aim, bar
<1> QED
  BY <1>18, <1>19 DEF k

-----------------------------------------------------------------------------
(* A monster is placed.                                                    *)

\* m is on the list at i; what its record says of its group is still odd.
NewRec(i, info) == RecOf(i, i, i, <<info, NoInfo>>)
PutOn(l, m, i, top, r) == [l EXCEPT !.slot[i] = m, !.max = top, !.rec[m] = r]
OnList(k, l, m, i, top, r) ==
    /\ k.slot = [l.slot EXCEPT ![i] = m] /\ k.rec = [l.rec EXCEPT ![m] = r]
    /\ k.group = l.group /\ k.max = top /\ k.quit = l.quit /\ k.short = l.short
    /\ k.target = l.target /\ k.health = l.health

LEMMA PutOnParts ==
    ASSUME NEW l \in Levels, NEW i \in Indices, NEW m \in Monsters, NEW top \in Indices, NEW r \in Recs
    PROVE  PutOn(l, m, i, top, r) \in Levels /\ OnList(PutOn(l, m, i, top, r), l, m, i, top, r)
<1> DEFINE k == PutOn(l, m, i, top, r)
           slots == [l.slot EXCEPT ![i] = m]
           recs == [l.rec EXCEPT ![m] = r]
<1>1. k = LevelOf(slots, top, recs, l.group, l.target, l.health, l.quit, l.short)
  <2> DEFINE k1 == [l EXCEPT !.slot[i] = m]
             k2 == [k1 EXCEPT !.max = top]
             k3 == [k2 EXCEPT !.rec[m] = r]
  <2>1. k1 = LevelOf(slots, l.max, l.rec, l.group, l.target, l.health, l.quit, l.short)
    BY DEF Levels, LevelOf
  <2>2. k = k3
    BY DEF PutOn
  <2> HIDE DEF slots, k1, k
  <2>3. k2 = LevelOf(slots, top, l.rec, l.group, l.target, l.health, l.quit, l.short)
    BY <2>1 DEF LevelOf
  <2> HIDE DEF k2
  <2> QED
    BY <2>2, <2>3 DEF LevelOf
<1>2. /\ slots \in [Indices -> Monsters \cup {Nobody}] /\ recs \in [Monsters -> Recs]
      /\ l.group \in [GroupIndices -> Groups] /\ l.target \in Places
      /\ l.health \in Arena .. LevelMax - 1 /\ l.quit \in BOOLEAN /\ l.short \in 0 .. LevelMax
  BY LevelParts
<1> HIDE DEF slots, recs, k
<1>3. k \in Levels
  BY <1>1, <1>2, LevelTyped
<1>4. /\ k.slot = slots /\ k.max = top /\ k.rec = recs /\ k.group = l.group
      /\ k.target = l.target /\ k.health = l.health /\ k.quit = l.quit /\ k.short = l.short
  BY <1>1, LevelFields
<1> QED
  BY <1>3, <1>4 DEF slots, recs, k, OnList

LEMMA NewRecIs ==
    ASSUME NEW i \in Slots, NEW info \in Infos
    PROVE  /\ NewRec(i, info) \in Recs /\ NewRec(i, info).midx = i /\ NewRec(i, info).square = i
           /\ NewRec(i, info).object = i
           /\ NewRec(i, info).info[1] = info /\ NewRec(i, info).info[2] = NoInfo
  BY Sizes, InfoTypes DEF NewRec, RecOf, Recs

\* There is at most one more.
LEMMA OneMoreAlive ==
    ASSUME NEW l \in Levels, Indexed(l), NEW k, NEW m, Alive(k) = Alive(l) \cup {m}
    PROVE  IsFiniteSet(Alive(k)) /\ Cardinality(Alive(k)) <= Cardinality(Alive(l)) + 1
<1>1. IsFiniteSet(Alive(l)) /\ Cardinality(Alive(l)) \in Nat
  BY FewPairs
<1>2. IsFiniteSet(Alive(k)) /\ Cardinality(Alive(k)) =
        IF m \in Alive(l) THEN Cardinality(Alive(l)) ELSE Cardinality(Alive(l)) + 1
  BY <1>1, FS_AddElement
<1> QED
  BY <1>1, <1>2

\* m comes to i, with the first of its infos.
Placing(l, m, i, info) ==
    /\ Sound(l, {}) /\ m \in Monsters \ Alive(l) /\ i \in Slots /\ l.slot[i] = Nobody
    /\ info \in Infos /\ info.index \in GroupIndices

IsPutOn(k, l, m, i, top, info) == k = PutOn(l, m, i, top, NewRec(i, info))
NewOn(k, l, m, i, info) ==
    /\ k \in Levels /\ Indexed(k) /\ WellGrouped(k) /\ ~k.quit /\ Enough(k)
    /\ Alive(k) = Alive(l) \cup {m} /\ k.group = l.group
    /\ m \in Alive(k) /\ k.rec[m].midx = i /\ k.slot[i] = m
    /\ Info(k, m, 1) = info /\ Info(k, m, 2) = NoInfo
    /\ Agrees(k, GroupIndices, {<<i, info.index>>})

LEMMA PutOnSound ==
    ASSUME NEW l, NEW m, NEW i, NEW info, Placing(l, m, i, info), NEW top \in Indices,
           NEW k, IsPutOn(k, l, m, i, top, info)
    PROVE  NewOn(k, l, m, i, info) /\ OnList(k, l, m, i, top, NewRec(i, info))
<1> DEFINE r == NewRec(i, info)
           g == info.index
<1>1. /\ l \in Levels /\ Indexed(l) /\ WellGrouped(l) /\ ~l.quit /\ Enough(l)
      /\ KeptIn(GroupIndices, l.group, Joined(l), Led(l))
  <2>1. Joined(l) \ {} = Joined(l) /\ Led(l) \ {} = Led(l)
    OBVIOUS
  <2> QED
    BY <2>1 DEF Placing, Sound, Kept
<1>2. /\ m \in Monsters /\ m \notin Alive(l) /\ i \in Slots /\ l.slot[i] = Nobody /\ i \in Indices
      /\ info \in Infos /\ g \in GroupIndices /\ m # Nobody
  BY Sizes DEF Placing
<1>3. r \in Recs /\ r.midx = i /\ r.square = i /\ r.object = i /\ r.info[1] = info /\ r.info[2] = NoInfo
  BY <1>2, NewRecIs
<1> HIDE DEF r
<1>4. k \in Levels /\ OnList(k, l, m, i, top, r)
  <2>1. k = PutOn(l, m, i, top, r)
    BY DEF r, IsPutOn
  <2> QED
    BY <1>1, <1>2, <1>3, <2>1, PutOnParts
<1>5. l.slot \in [Indices -> Monsters \cup {Nobody}] /\ l.rec \in [Monsters -> Recs]
  BY <1>1, LevelParts
<1>6. /\ k.slot[i] = m /\ \A x \in Indices \ {i} : k.slot[x] = l.slot[x]
      /\ k.rec[m] = r /\ \A n \in Monsters \ {m} : k.rec[n] = l.rec[n]
      /\ k.group = l.group /\ k.quit = l.quit /\ k.short = l.short
  BY <1>2, <1>4, <1>5 DEF OnList
<1>7. \A x \in Indices : l.slot[x] # m
  BY <1>2 DEF Alive
<1>8. Alive(k) = Alive(l) \cup {m}
  <2>1. ASSUME NEW n, n \in Alive(k) PROVE n \in Alive(l) \cup {m}
    <3>1. PICK x \in Indices : k.slot[x] = n
      BY <2>1 DEF Alive
    <3>2. n # Nobody /\ (n = m \/ l.slot[x] = n)
      BY <1>6, <2>1, <3>1 DEF Alive
    <3> QED
      BY <3>2 DEF Alive
  <2>2. ASSUME NEW n, n \in Alive(l) PROVE n \in Alive(k)
    <3>1. PICK x \in Indices : l.slot[x] = n
      BY <2>2 DEF Alive
    <3>2. n # Nobody /\ k.slot[x] = n
      BY <1>2, <1>6, <2>2, <3>1 DEF Alive
    <3> QED
      BY <3>2 DEF Alive
  <2>3. m \in Alive(k)
    BY <1>2, <1>6 DEF Alive
  <2> QED
    BY <2>1, <2>2, <2>3
<1>9. Indexed(k)
  <2>1. ASSUME NEW x \in Indices, k.slot[x] # Nobody
        PROVE  k.rec[k.slot[x]].midx = x /\ k.rec[k.slot[x]].square = x /\ k.rec[k.slot[x]].object = x
    <3>1. CASE x = i
      BY <1>3, <1>6, <3>1
    <3>2. CASE x # i
      <4>1. k.slot[x] = l.slot[x] /\ l.slot[x] \in Monsters \ {m}
        BY <1>5, <1>6, <1>7, <2>1, <3>2
      <4>2. k.rec[l.slot[x]] = l.rec[l.slot[x]]
        BY <1>6, <4>1
      <4> QED
        BY <1>1, <2>1, <4>1, <4>2 DEF Indexed
    <3> QED
      BY <3>1, <3>2
  <2>2. ASSUME NEW n \in Monsters \ Alive(k) PROVE k.rec[n] = NoRecord
    BY <1>1, <1>6, <1>8 DEF Indexed
  <2> QED
    BY <2>1, <2>2 DEF Indexed
<1>10. Info(k, m, 1) = info /\ Info(k, m, 2) = NoInfo
  BY <1>3, <1>6 DEF Info
<1>11. \A n \in Alive(l) : n \in Monsters \ {m} /\ Info(k, n, 1) = Info(l, n, 1) /\ Info(k, n, 2) = Info(l, n, 2)
  BY <1>1, <1>2, <1>6, AliveAt DEF Info
<1>12. WellGrouped(k)
  <2>1. g # 0 /\ NoInfo.index = 0
    BY <1>2, Sizes, InfoTypes
  <2> QED
    BY <1>1, <1>8, <1>10, <1>11, <2>1 DEF WellGrouped
<1>13. Enough(k)
  BY <1>1, <1>6 DEF Enough
<1>14. Agrees(k, GroupIndices, {<<i, g>>})
  <2> DEFINE J == Joined(l)
             L == Led(l)
             J2 == Joined(k) \ {<<i, g>>}
             L2 == Led(k) \ {<<i, g>>}
  <2>1. ASSUME NEW x \in Indices, NEW f \in GroupIndices
        PROVE  /\ <<x, f>> \in J2 <=> <<x, f>> \in J
               /\ <<x, f>> \in L2 <=> <<x, f>> \in L
    <3>1. CASE x = i
      <4>1. <<i, f>> \notin J /\ <<i, f>> \notin L
        BY <1>2, Claims
      <4>2. f # 0 /\ \A y \in Infos : y = Leader(f) => y.index = f
        BY Sizes, InfoTypes
      <4>3. NoInfo.index = 0 /\ NoInfo \in Infos
        BY InfoTypes
      <4>4. (<<i, f>> \in Joined(k) => f = g) /\ (<<i, f>> \in Led(k) => f = g)
        BY <1>2, <1>6, <1>10, <4>2, <4>3, Claims
      <4> QED
        BY <3>1, <4>1, <4>4
    <3>2. CASE x # i
      <4>1. k.slot[x] = l.slot[x]
        BY <1>6, <3>2
      <4>2. l.slot[x] # Nobody => l.slot[x] \in Alive(l)
        BY DEF Alive
      <4>3. /\ <<x, f>> \in Joined(k) <=> <<x, f>> \in Joined(l)
            /\ <<x, f>> \in Led(k) <=> <<x, f>> \in Led(l)
        BY <1>11, <4>1, <4>2, Claims
      <4> QED
        BY <3>2, <4>3
    <3> QED
      BY <3>1, <3>2
  <2>2. KeptIn(GroupIndices, l.group, J, L)
    BY <1>1
  <2> HIDE DEF J, L, J2, L2
  <2>3. KeptIn(GroupIndices, l.group, J2, L2)
    BY <2>1, <2>2, SameClaims
  <2> QED
    BY <1>6, <2>3 DEF Agrees, J2, L2
<1> QED
  BY <1>1, <1>3, <1>4, <1>6, <1>8, <1>9, <1>10, <1>12, <1>13, <1>14 DEF r, NewOn

\* The group that the new monster is to lead, or to join.
Welcome(l, info) ==
    LET g == info.index
    IN  \/ info = Leader(g) /\ g = monster_group_index_new(l) /\ l.group[g] = NoGroup
        \/ info.role # "leader" /\ l.group[g] # NoGroup

LEMMA SoundOf ==
    ASSUME NEW k \in Levels, Indexed(k), WellGrouped(k), ~k.quit, Enough(k), NEW odd,
           Agrees(k, GroupIndices, odd)
    PROVE  Sound(k, odd)
  BY DEF Sound, Agrees, Kept

\* monster_group_assign(): the new monster starts its group or joins it.
LEMMA Assigned ==
    ASSUME NEW l, NEW m, NEW i, NEW info, Placing(l, m, i, info), Welcome(l, info),
           NEW k, NewOn(k, l, m, i, info)
    PROVE  /\ Sound(monster_group_assign(k, m), {}) /\ SameList(monster_group_assign(k, m), k)
           /\ monster_group_assign(k, m).group[info.index] # NoGroup
<1> DEFINE g == info.index
           odd == {<<i, g>>}
           n == monster_group_assign(k, m)
<1>1. /\ k \in Levels /\ Indexed(k) /\ WellGrouped(k) /\ ~k.quit /\ Enough(k)
      /\ m \in Alive(k) /\ k.rec[m].midx = i /\ k.slot[i] = m
      /\ Info(k, m, 1) = info /\ Info(k, m, 2) = NoInfo /\ Agrees(k, GroupIndices, odd)
      /\ k.group = l.group
  BY DEF NewOn
<1>2. m \in Monsters /\ m # Nobody /\ i \in Slots /\ i \in Indices /\ info \in Infos /\ g \in GroupIndices
  BY Sizes DEF Placing
<1> HIDE DEF g
<1>3. GroupOf(k, m, Primary) = g /\ g # 0
  BY <1>1, <1>2, Sizes DEF GroupOf, Primary, Info, g
<1>4. OddLess({}, odd, GroupIndices, i, g)
  BY DEF OddLess
<1>5. CASE info = Leader(g) /\ g = monster_group_index_new(l) /\ l.group[g] = NoGroup
  <2>1. g = monster_group_index_new(k) /\ k.group[g] = NoGroup
    BY <1>1, <1>5 DEF monster_group_index_new
  <2>2. n = monster_group_start(k, m, 1)
    BY <1>3, <2>1 DEF monster_group_assign, GroupOf, Primary
  <2> HIDE DEF n
  <2>3. /\ <<i, Info(k, m, 1).index>> \in odd /\ GroupIndices \in SUBSET GroupIndices
        /\ i = k.rec[m].midx /\ 1 \in 1 .. 2
    BY <1>1 DEF g
  <2>13. Numbered(k)
    <3>1. ASSUME NEW f \in GroupIndices, k.group[f] # NoGroup
          PROVE  \E x \in Alive(k), v \in 1 .. 2 : <<x, v>> # <<m, 1>> /\ Info(k, x, v).index = f
      <4>1. KeptGroup(k.group[f], f, Joined(k) \ odd, Led(k) \ odd)
        BY <1>1 DEF Agrees, KeptIn
      <4> HIDE DEF odd
      <4>2. PICK x \in Alive(k), v \in 1 .. 2 :
               Info(k, x, v) = Leader(f) /\ <<k.rec[x].midx, f>> \notin odd
        BY <1>1, <3>1, <4>1, LedBySome
      <4>3. Info(k, x, v).index = f /\ Leader(g).index = g
        BY <1>2, <4>2, InfoTypes
      <4>4. f = g => <<k.rec[m].midx, f>> \in odd
        BY <1>1 DEF odd
      <4>5. <<x, v>> = <<m, 1>> => f = g
        BY <1>1, <4>3 DEF g
      <4> QED
        BY <4>2, <4>3, <4>4, <4>5
    <3> QED
      BY <1>1, <2>3, <3>1, FreeGroup
  <2> DEFINE next == monster_group_start(k, m, 1)
             none == {}
  <2>4. OddLess(none, odd, GroupIndices, i, g)
    BY <1>4
  <2> HIDE DEF odd, next, none
  <2>5. /\ NewInfo(next, k, m, 1, Leader(g)) /\ Indexed(next) /\ Agrees(next, GroupIndices, none)
         /\ next.group[g] # NoGroup
    BY <1>1, <1>2, <2>1, <2>3, <2>4, <2>13, Started DEF next
  <2>6. /\ NewInfo(n, k, m, 1, Leader(g)) /\ Indexed(n) /\ Agrees(n, GroupIndices, {})
         /\ n.group[g] # NoGroup
    BY <2>2, <2>5 DEF next, none
  <2>7. Leader(g) \in Infos /\ SameList(n, k) /\ n \in Levels
    BY <1>2, <2>6, InfoTypes DEF NewInfo
  <2>8. Alive(n) = Alive(k) /\ (Enough(k) => Enough(n))
    BY <2>7, SameLists
  <2>9. \A x \in Alive(k) : x \in Monsters
    BY <1>1, AliveAt
  <2>10. \A x \in Alive(k), w \in 1 .. 2 : Info(n, x, w) = Info(k, x, w)
    <3> SUFFICES ASSUME NEW x \in Alive(k), NEW w \in 1 .. 2 PROVE Info(n, x, w) = Info(k, x, w)
      OBVIOUS
    <3>1. Info(n, m, 1) = Leader(g) /\ Info(n, m, Other(1)) = Info(k, m, Other(1))
          /\ \A y \in Monsters \ {m} : n.rec[y] = k.rec[y]
      BY <1>1, <1>2, <2>6, <2>7, NewInfoIs
    <3>2. Info(n, m, 1) = Info(k, m, 1) /\ Info(n, m, 2) = Info(k, m, 2)
      BY <1>1, <1>5, <3>1 DEF Other
    <3>3. x # m => Info(n, x, w) = Info(k, x, w)
      BY <2>9, <3>1 DEF Info
    <3> QED
      BY <3>2, <3>3
  <2>11. WellGrouped(n)
    BY <1>1, <2>8, <2>10 DEF WellGrouped
  <2>12. ~n.quit
    BY <1>1, <2>7 DEF SameList
  <2> QED
    BY <1>1, <2>6, <2>7, <2>8, <2>11, <2>12, SoundOf DEF n, g
<1>6. CASE info.role # "leader" /\ l.group[g] # NoGroup
  <2>1. k.group[g] # NoGroup
    BY <1>1, <1>6
  <2>2. n = monster_add_to_group(k, m, g)
    BY <1>3, <2>1 DEF monster_group_assign, GroupOf, Primary
  <2> HIDE DEF n
  <2>3. <<i, g>> \in Joined(k)
    BY <1>1, <1>2, Claims DEF g
  <2>4. <<i, g>> \notin Led(k)
    <3>1. NoInfo.index = 0 /\ NoInfo \in Infos /\ Leader(g).role = "leader" /\ Leader(g).index = g
      BY <1>2, InfoTypes
    <3> QED
      BY <1>1, <1>2, <1>3, <1>6, <3>1, Claims
  <2>5. <<i, g>> \in odd /\ GroupIndices \subseteq GroupIndices
    OBVIOUS
  <2> HIDE DEF odd
  <2>6. Put(n, k) /\ Agrees(n, GroupIndices, {}) /\ n.group[g] # NoGroup
    BY <1>1, <1>2, <1>4, <2>1, <2>2, <2>3, <2>4, <2>5, Added
  <2>7. /\ n \in Levels /\ SameList(n, k)
        /\ Indexed(n) <=> Indexed(k)
        /\ WellGrouped(n) <=> WellGrouped(k)
        /\ Enough(k) => Enough(n)
    BY <2>6, PutSame
  <2>8. ~n.quit
    BY <1>1, <2>7 DEF SameList
  <2> QED
    BY <1>1, <2>6, <2>7, <2>8, SoundOf DEF n, g
<1> QED
  BY <1>5, <1>6 DEF Welcome, g

\* What the player looks at is on the list, and later still the same monster, or none.
Aimed(l) ==
    /\ l.target # 0 => l.slot[l.target] # Nobody
    /\ l.health > 0 => l.slot[l.health] # Nobody
Follows(k, l) ==
    Aimed(l) => /\ k.target # 0 => l.target # 0 /\ k.slot[k.target] = l.slot[l.target]
                /\ k.health > 0 => l.health > 0 /\ k.slot[k.health] = l.slot[l.health]

LEMMA FollowsTwice ==
    ASSUME NEW l, NEW k, NEW j, Follows(k, l), Follows(j, k)
    PROVE  Follows(j, l)
  BY DEF Follows, Aimed

\* The monsters that are on the list stay where they are.
Stay(k, l) ==
    /\ k.target = l.target /\ k.health = l.health
    /\ \A x \in Indices : l.slot[x] # Nobody => k.slot[x] = l.slot[x]

LEMMA StayFollows ==
    ASSUME NEW l \in Levels, NEW k, Stay(k, l)
    PROVE  Follows(k, l)
<1>1. l.target \in Places /\ l.health \in Arena .. LevelMax - 1
  BY LevelParts
<1>2. (l.target # 0 => l.target \in Indices) /\ (l.health > 0 => l.health \in Indices)
  BY <1>1, Sizes DEF Places, Arena, Indices
<1> QED
  BY <1>2 DEF Stay, Follows, Aimed

\* mon_pop() finds a free index.
LEMMA Popped ==
    ASSUME NEW l \in Levels, Below(l), mon_pop(l) # 0
    PROVE  /\ mon_pop(l) \in Slots /\ l.slot[mon_pop(l)] = Nobody /\ mon_pop(l) <= l.max
           /\ mon_pop(l) = l.max => l.max < LevelMax
<1>1. l.max \in Int /\ 1 <= l.max /\ l.max <= LevelMax /\ LevelMax \in Int /\ l.max \in Indices
  BY LevelParts, Sizes
<1>2. CASE l.max < LevelMax
  <2>1. mon_pop(l) = l.max
    BY <1>2 DEF mon_pop
  <2>2. l.slot[l.max] = Nobody
    BY <1>1 DEF Below
  <2> QED
    BY <1>1, <1>2, <2>1, <2>2 DEF Slots
<1>3. CASE ~(l.max < LevelMax)
  <2>1. Holes(l) # {} /\ mon_pop(l) = Min(Holes(l))
    BY <1>3 DEF mon_pop
  <2>2. Holes(l) \in SUBSET Nat
    BY <1>1 DEF Holes
  <2>3. mon_pop(l) \in Holes(l)
    BY <2>1, <2>2, LeastOf
  <2>4. mon_pop(l) \in 1 .. l.max - 1 /\ l.slot[mon_pop(l)] = Nobody
    BY <2>3 DEF Holes
  <2> QED
    BY <1>1, <1>3, <2>4 DEF Slots
<1> QED
  BY <1>2, <1>3

NewTop(l, i) == IF i = l.max THEN l.max + 1 ELSE l.max
LEMMA PlaceIs ==
    ASSUME NEW l, NEW m, NEW info, mon_pop(l) # 0
    PROVE  place_monster(l, m, info) =
             monster_group_assign(PutOn(l, m, mon_pop(l), NewTop(l, mon_pop(l)),
                                        NewRec(mon_pop(l), info)), m)
<1> DEFINE i == mon_pop(l)
           top == NewTop(l, i)
           r == NewRec(i, info)
<1>1. place_monster(l, m, info) =
        monster_group_assign([l EXCEPT !.slot[i] = m, !.max = top, !.rec[m] = r], m)
  BY DEF place_monster, NewTop, NewRec, RecOf
<1> QED
  BY <1>1 DEF PutOn

\* place_monster(): the monster is on the list and in its group, unless there is no room.
LEMMA Placed ==
    ASSUME NEW l, Sound(l, {}), Below(l), NEW m \in Monsters \ Alive(l), NEW info \in Infos,
           info.index \in GroupIndices, Welcome(l, info),
           NEW k, k = place_monster(l, m, info)
    PROVE  /\ Sound(k, {}) /\ Below(k) /\ Stay(k, l)
           /\ IF mon_pop(l) = 0 THEN k = l
              ELSE Alive(k) = Alive(l) \cup {m} /\ k.group[info.index] # NoGroup
<1> DEFINE i == mon_pop(l)
           top == NewTop(l, i)
           put == PutOn(l, m, i, top, NewRec(i, info))
<1>1. l \in Levels
  BY DEF Sound
<1>2. CASE i = 0
  <2>1. k = l
    BY <1>2 DEF place_monster
  <2> QED
    BY <1>2, <2>1 DEF Stay
<1>3. CASE i # 0
  <2>1. i \in Slots /\ l.slot[i] = Nobody /\ i <= l.max /\ (i = l.max => l.max < LevelMax)
    BY <1>1, <1>3, Popped
  <2>2. k = monster_group_assign(put, m)
    BY <1>3, PlaceIs
  <2>3. l.max \in Indices /\ i \in Int /\ l.max \in Int /\ l.slot \in [Indices -> Monsters \cup {Nobody}]
    BY <1>1, <2>1, LevelParts, Sizes
  <2> HIDE DEF i
  <2>4. top \in Indices /\ i < top /\ l.max <= top
    BY <2>1, <2>3, Sizes DEF NewTop, Indices
  <2>5. Placing(l, m, i, info)
    BY <2>1 DEF Placing
  <2>6. IsPutOn(put, l, m, i, top, info)
    BY DEF IsPutOn
  <2> HIDE DEF put, top
  <2>7. NewOn(put, l, m, i, info) /\ OnList(put, l, m, i, top, NewRec(i, info))
    BY <2>4, <2>5, <2>6, PutOnSound
  <2>8. Sound(k, {}) /\ SameList(k, put) /\ k.group[info.index] # NoGroup
    BY <2>2, <2>5, <2>7, Assigned
  <2>9. /\ k.slot = [l.slot EXCEPT ![i] = m] /\ k.max = top /\ k.target = l.target
        /\ k.health = l.health /\ Alive(k) = Alive(put) /\ Alive(put) = Alive(l) \cup {m}
    BY <2>7, <2>8, SameLists DEF NewOn, OnList, SameList
  <2>10. Below(k)
    <3> SUFFICES ASSUME NEW x \in Indices, k.slot[x] # Nobody PROVE x < top
      BY <2>9 DEF Below
    <3>1. x = i \/ l.slot[x] # Nobody
      BY <2>3, <2>9
    <3>2. x = i \/ x < l.max
      BY <3>1 DEF Below
    <3>3. x \in Int /\ top \in Int
      BY <2>4, Sizes
    <3> QED
      BY <2>3, <2>4, <3>2, <3>3
  <2>11. Stay(k, l)
    BY <2>1, <2>3, <2>9 DEF Stay
  <2> QED
    BY <1>3, <2>8, <2>9, <2>10, <2>11 DEF i
<1> QED
  BY <1>2, <1>3

\* The groups that a record says of are there.
LEMMA GroupThere ==
    ASSUME NEW l, Sound(l, {}), NEW m \in Alive(l), NEW w \in 1 .. 2, Info(l, m, w).index # 0
    PROVE  Info(l, m, w).index \in GroupIndices /\ l.group[Info(l, m, w).index] # NoGroup
<1> DEFINE g == Info(l, m, w).index
           i == l.rec[m].midx
<1>1. l \in Levels /\ Indexed(l) /\ KeptIn(GroupIndices, l.group, Joined(l) \ {}, Led(l) \ {})
  BY DEF Sound, Kept
<1>2. m \in Monsters /\ m # Nobody /\ i \in Indices /\ l.slot[i] = m
  BY <1>1, AliveAt
<1>3. g \in GroupIndices
  <2>1. Info(l, m, w) \in Infos
    BY <1>1, <1>2, LevelParts, RecTypes DEF Info
  <2>2. g \in 0 .. MaxGroups
    BY <2>1, InfoTypes
  <2> QED
    BY <2>2, Sizes
<1>4. w = 1 \/ w = 2
  OBVIOUS
<1>5. <<i, g>> \in Joined(l) \ {}
  BY <1>2, <1>3, <1>4, Claims
<1> HIDE DEF g, i
<1>6. l.group[g] # NoGroup
  BY <1>1, <1>2, <1>3, <1>5, NoClaims
<1> QED
  BY <1>3, <1>6 DEF g

LEMMA InfoIs ==
    ASSUME NEW l \in Levels, Indexed(l), NEW m \in Alive(l), NEW w \in 1 .. 2
    PROVE  Info(l, m, w) \in Infos /\ Info(l, m, w).index \in 0 .. MaxGroups
           /\ Info(l, m, w).role \in Roles
<1>1. m \in Monsters
  BY AliveAt
<1>2. Info(l, m, w) \in Infos
  BY <1>1, LevelParts, RecTypes DEF Info
<1> QED
  BY <1>2, InfoTypes

\* s starts a group of those it summons.
LEMMA SummonsStart ==
    ASSUME NEW l, Sound(l, {}), NEW s \in Alive(l), Info(l, s, 2).index = 0,
           NEW k, k = monster_group_start(l, s, 2)
    PROVE  /\ Sound(k, {}) /\ SameList(k, l) /\ s \in Alive(k)
           /\ Info(k, s, 2).index \in GroupIndices /\ k.group[Info(k, s, 2).index] # NoGroup
           /\ Info(k, s, 1) = Info(l, s, 1)
<1> DEFINE g == monster_group_index_new(l)
           i == l.rec[s].midx
           next == monster_group_start(l, s, 2)
           none == {}
<1>1. /\ l \in Levels /\ Indexed(l) /\ WellGrouped(l) /\ Enough(l) /\ ~l.quit
      /\ Agrees(l, GroupIndices, none)
  BY DEF Sound, Kept, Agrees
<1>2. s \in Monsters
  BY <1>1, AliveAt
<1>3. \A f \in GroupIndices : l.group[f] # NoGroup =>
         \E n \in Alive(l), v \in 1 .. 2 : <<n, v>> # <<s, 2>> /\ Info(l, n, v).index = f
  <2> SUFFICES ASSUME NEW f \in GroupIndices, l.group[f] # NoGroup
               PROVE  \E n \in Alive(l), v \in 1 .. 2 : <<n, v>> # <<s, 2>> /\ Info(l, n, v).index = f
    OBVIOUS
  <2> HIDE DEF none
  <2>1. \E n \in Alive(l), v \in 1 .. 2 : Info(l, n, v) = Leader(f)
    BY <1>1, SomeLeader
  <2>2. Leader(f).index = f /\ f # 0
    BY InfoTypes, Sizes
  <2> QED
    BY <2>1, <2>2
<1>4. g \in GroupIndices /\ l.group[g] = NoGroup /\ Numbered(l)
  <2>1. 2 \in 1 .. 2
    OBVIOUS
  <2> QED
    BY <1>1, <1>3, <2>1, FreeGroup
<1>5. OddLess(none, none, GroupIndices, i, g)
  BY DEF OddLess
<1>6. Info(l, s, 2).index \notin GroupIndices /\ 2 \in 1 .. 2 /\ GroupIndices \in SUBSET GroupIndices
  BY Sizes
<1> HIDE DEF g, none, next, i
<1>7. /\ NewInfo(next, l, s, 2, Leader(g)) /\ Indexed(next) /\ Agrees(next, GroupIndices, none)
      /\ next.group[g] # NoGroup
  BY <1>1, <1>4, <1>5, <1>6, Started DEF next, g, i
<1>8. k = next
  BY DEF next
<1>9. Leader(g) \in Infos /\ Leader(g).index = g /\ next \in Levels /\ SameList(next, l)
  BY <1>4, <1>7, InfoTypes DEF NewInfo
<1>10. /\ Info(next, s, 2) = Leader(g) /\ Info(next, s, 1) = Info(l, s, 1)
       /\ \A n \in Monsters \ {s} : next.rec[n] = l.rec[n]
  <2>1. Other(2) = 1
    BY DEF Other
  <2> QED
    BY <1>1, <1>2, <1>7, <1>9, <2>1, NewInfoIs
<1>11. Alive(next) = Alive(l) /\ (Enough(l) => Enough(next))
  BY <1>9, SameLists
<1>12. Info(l, s, 1).index # 0 /\ Info(l, s, 1).index # g
  <2>1. Info(l, s, 1).index # 0
    BY <1>1 DEF WellGrouped
  <2>2. l.group[Info(l, s, 1).index] # NoGroup
    BY <2>1, GroupThere
  <2> QED
    BY <1>4, <2>1, <2>2
<1>13. WellGrouped(next)
  <2> SUFFICES ASSUME NEW n \in Alive(l)
               PROVE  /\ Info(next, n, 1).index # 0 /\ Info(next, n, 2).index # Info(next, n, 1).index
                      /\ Info(next, n, 2).index # 0 => Info(next, n, 2) = Leader(Info(next, n, 2).index)
    BY <1>11 DEF WellGrouped
  <2>1. CASE n = s
    BY <1>9, <1>10, <1>12, <2>1
  <2>2. CASE n # s
    <3>1. n \in Monsters
      BY <1>1, AliveAt
    <3>2. Info(next, n, 1) = Info(l, n, 1) /\ Info(next, n, 2) = Info(l, n, 2)
      BY <1>10, <2>2, <3>1 DEF Info
    <3> QED
      BY <1>1, <3>2 DEF WellGrouped
  <2> QED
    BY <2>1, <2>2
<1>14. ~next.quit
  BY <1>1, <1>9 DEF SameList
<1>15. Sound(next, {})
  BY <1>1, <1>7, <1>9, <1>11, <1>13, <1>14, SoundOf DEF none
<1> QED
  BY <1>4, <1>7, <1>8, <1>9, <1>10, <1>11, <1>15

\* The group that summons join is there.
LEMMA SummonsGroup ==
    ASSUME NEW l, Sound(l, {}), NEW s \in Alive(l), NEW k, k = summon_group(l, s)
    PROVE  /\ Sound(k, {}) /\ SameList(k, l)
           /\ SummonGroup(k, s) \in GroupIndices /\ k.group[SummonGroup(k, s)] # NoGroup
<1>1. l \in Levels /\ Indexed(l) /\ WellGrouped(l)
  BY DEF Sound
<1>2. /\ GroupOf(l, s, Second) = Info(l, s, 2).index /\ GroupOf(l, s, Primary) = Info(l, s, 1).index
      /\ l.rec[s].info[Primary].role = Info(l, s, 1).role
      /\ GroupOf(k, s, Second) = Info(k, s, 2).index /\ GroupOf(k, s, Primary) = Info(k, s, 1).index
      /\ k.rec[s].info[Primary].role = Info(k, s, 1).role
  BY DEF GroupOf, Info, Primary, Second
<1>3. CASE Info(l, s, 1).role # "leader" /\ Info(l, s, 2).index = 0
  <2>1. k = monster_group_start(l, s, 2)
    BY <1>2, <1>3 DEF summon_group, Second
  <2>2. /\ Sound(k, {}) /\ SameList(k, l)
        /\ Info(k, s, 2).index \in GroupIndices /\ k.group[Info(k, s, 2).index] # NoGroup
        /\ Info(k, s, 1) = Info(l, s, 1)
    BY <1>3, <2>1, SummonsStart
  <2>3. SummonGroup(k, s) = Info(k, s, 2).index
    BY <1>2, <1>3, <2>2 DEF SummonGroup
  <2> QED
    BY <2>2, <2>3
<1>4. CASE Info(l, s, 1).role = "leader" \/ Info(l, s, 2).index # 0
  <2>1. k = l
    BY <1>2, <1>4 DEF summon_group
  <2>2. SameList(k, l)
    BY <2>1 DEF SameList
  <2>3. Info(l, s, 1).index # 0
    BY <1>1 DEF WellGrouped
  <2>4. Info(l, s, 1).index \in GroupIndices /\ l.group[Info(l, s, 1).index] # NoGroup
    BY <2>3, GroupThere
  <2>5. CASE Info(l, s, 1).role = "leader"
    <3>1. SummonGroup(k, s) = Info(l, s, 1).index
      BY <1>2, <2>1, <2>5 DEF SummonGroup
    <3> QED
      BY <2>1, <2>2, <2>4, <3>1
  <2>6. CASE Info(l, s, 1).role # "leader"
    <3>1. SummonGroup(k, s) = Info(l, s, 2).index /\ Info(l, s, 2).index # 0
      BY <1>2, <1>4, <2>1, <2>6 DEF SummonGroup
    <3>2. Info(l, s, 2).index \in GroupIndices /\ l.group[Info(l, s, 2).index] # NoGroup
      BY <3>1, GroupThere
    <3> QED
      BY <2>1, <2>2, <3>1, <3>2
  <2> QED
    BY <2>5, <2>6
<1> QED
  BY <1>3, <1>4

-----------------------------------------------------------------------------
(* The steps that place monsters keep the invariant.                       *)

\* What is left to show when the player stays where he is.
LEMMA SameLevelInv ==
    ASSUME ListInv, Sound(level', {}), Below(level'), bounds' = bounds,
           Cardinality(Alive(level')) <= bounds.alive,
           Follows(level', level), watched' = watched,
           duel' = duel, duel # Nobody => level'.slot[1] = duel
    PROVE  ListInv'
<1>1. Aimed(level)
  BY DEF ListInv, Aimed
<1> QED
  BY <1>1 DEF ListInv, Follows

\* How many monsters there may be.
LEMMA RoomEnough ==
    ASSUME ListInv, NEW n \in Nat, Room(n)
    PROVE  /\ Cardinality(Alive(level)) \in Nat /\ bounds.alive \in Nat
           /\ Cardinality(Alive(level)) + n <= bounds.alive
<1>1. bounds.alive \in Nat
  BY ListAssumption DEF ListInv
<1>2. Cardinality(Alive(level)) \in Nat
  BY FewPairs DEF ListInv, Sound
<1>3. Cardinality(Alive(level)) + n <= bounds.alive
  BY DEF Room, cave_monster_count
<1> QED
  BY <1>1, <1>2, <1>3

LEMMA FreshIs ==
    ASSUME ListInv, NEW m \in Fresh
    PROVE  m \in Monsters \ Alive(level)
  BY ListAssumption DEF ListInv, Fresh

\* What PlaceNew() is for no friend and for one.
LEMMA PlaceNewIs ==
    ASSUME NEW m, NEW friends, friends = <<>> \/ Len(friends) = 1, PlaceNew(m, friends)
    PROVE  LET g == monster_group_index_new(level)
               base == place_monster(level, m, Leader(g))
           IN  level' = IF mon_pop(level) = 0 \/ friends = <<>> THEN base
                        ELSE place_monster(base, friends[1], Member(g))
<1> DEFINE g == monster_group_index_new(level)
           base == place_monster(level, m, Leader(g))
           N == Len(friends)
           body(after, k) == IF k = 0 THEN base ELSE place_monster(after[k - 1], friends[k], Member(g))
           f == [k \in 0 .. N |-> IF k = 0 THEN base ELSE place_monster(base, friends[k], Member(g))]
           chosen == CHOOSE after : after = [k \in 0 .. N |-> body(after, k)]
<1>1. level' = chosen[IF mon_pop(level) = 0 THEN 0 ELSE N]
  BY Zenon DEF PlaceNew, Leader, Member
<1>2. N = 0 \/ N = 1
  OBVIOUS
<1> HIDE DEF N
<1>3. f[0] = base /\ \A k \in 0 .. N : k # 0 => k = 1
  BY <1>2
<1>4. \A k \in 0 .. N : f[k] = body(f, k)
  <2> SUFFICES ASSUME NEW k \in 0 .. N PROVE f[k] = body(f, k)
    OBVIOUS
  <2>1. CASE k = 0
    BY <1>3, <2>1
  <2>2. CASE k # 0
    <3>1. k = 1 /\ k - 1 = 0
      BY <1>3, <2>2
    <3>2. f[k] = place_monster(base, friends[k], Member(g))
      BY <2>2
    <3>3. body(f, k) = place_monster(f[k - 1], friends[k], Member(g))
      BY <2>2
    <3> HIDE DEF f, body
    <3> QED
      BY <1>3, <3>1, <3>2, <3>3
  <2> QED
    BY <2>1, <2>2
<1>5. f = [k \in 0 .. N |-> f[k]]
  OBVIOUS
<1> HIDE DEF f
<1>6. f = [k \in 0 .. N |-> body(f, k)]
  BY <1>4, <1>5
<1>7. chosen = [k \in 0 .. N |-> body(chosen, k)]
  BY <1>6, Zenon
<1> HIDE DEF chosen
<1>8. chosen[0] = base
  <2>1. 0 \in 0 .. N /\ body(chosen, 0) = base
    BY <1>2
  <2> HIDE DEF body
  <2> QED
    BY <1>7, <2>1
<1>9. CASE N = 0 \/ mon_pop(level) = 0
  <2>1. level' = chosen[0]
    BY <1>1, <1>9
  <2>2. friends = <<>> \/ mon_pop(level) = 0
    BY <1>9 DEF N
  <2> QED
    BY <1>8, <2>1, <2>2
<1>10. CASE N # 0 /\ mon_pop(level) # 0
  <2>1. N = 1 /\ level' = chosen[1] /\ friends # <<>>
    <3>1. N = 1 /\ mon_pop(level) # 0
      BY <1>2, <1>10
    <3>2. friends # <<>>
      <4>1. Len(friends) # 0
        BY <3>1 DEF N
      <4> QED
        BY <4>1
    <3> QED
      BY <1>1, <3>1, <3>2
  <2>2. 1 \in 0 .. N /\ body(chosen, 1) = place_monster(chosen[1 - 1], friends[1], Member(g)) /\ 1 - 1 = 0
    BY <2>1
  <2> HIDE DEF body
  <2>3. chosen[1] = place_monster(chosen[0], friends[1], Member(g))
    BY <1>7, <2>2
  <2> QED
    BY <1>8, <1>10, <2>1, <2>3
<1> QED
  BY <1>9, <1>10

\* place_new_monster().
LEMMA PlaceNewKeeps ==
    ASSUME ListInv, NEW m \in Fresh, NEW friends, PlaceNew(m, friends),
           friends = <<>> \/ \E f \in Fresh \ {m} : friends = <<f>>
    PROVE  ListInv'
<1> DEFINE g == monster_group_index_new(level)
           one == place_monster(level, m, Leader(g))
           f == friends[1]
           two == place_monster(one, f, Member(g))
           n == 1 + Len(friends)
           C == Cardinality(Alive(level))
<1>1. /\ Sound(level, {}) /\ Below(level) /\ level \in Levels /\ Indexed(level)
      /\ duel = Nobody /\ duel' = duel /\ bounds' = bounds /\ watched' = watched /\ Room(n)
  BY DEF ListInv, Sound, PlaceNew, OnLevel
<1>2. (friends = <<>> /\ n = 1) \/ (friends # <<>> /\ Len(friends) = 1 /\ n = 2 /\ f \in Fresh \ {m})
  <2>1. CASE friends = <<>>
    BY <2>1
  <2>2. ASSUME NEW fr \in Fresh \ {m}, friends = <<fr>>
        PROVE  friends # <<>> /\ Len(friends) = 1 /\ n = 2 /\ f \in Fresh \ {m}
    <3>1. Len(friends) = 1 /\ friends[1] = fr
      BY <2>2
    <3>2. friends # <<>>
      BY <3>1
    <3> QED
      BY <3>1, <3>2
  <2> QED
    BY <2>1, <2>2
<1>3. level' = IF mon_pop(level) = 0 \/ friends = <<>> THEN one ELSE two
  BY <1>2, PlaceNewIs
<1> HIDE DEF n, f
<1>4. C \in Nat /\ C + n <= bounds.alive /\ n \in Nat /\ bounds.alive \in Nat
  BY <1>1, <1>2, RoomEnough
<1>5. m \in Monsters \ Alive(level) /\ (friends # <<>> => f \in Monsters \ Alive(level) /\ f # m)
  BY <1>2, FreshIs
<1>6. g \in GroupIndices /\ level.group[g] = NoGroup
  <2> DEFINE Q == Pairs(level)
  <2>1. IsFiniteSet(Q) /\ Cardinality(Q) = 2 * C
    BY <1>1, FewPairs
  <2>2. 2 * C < MaxGroups
    <3>1. C \in Nat /\ C < LevelMax
      BY <1>1, FewPairs
    <3> QED
      BY <3>1, Sizes
  <2>3. ASSUME NEW h \in GroupIndices, level.group[h] # NoGroup
        PROVE  \E q \in Q : Info(level, q[1], q[2]).index = h
    <3>1. Agrees(level, GroupIndices, {}) /\ GroupIndices \in SUBSET GroupIndices
      BY <1>1 DEF Sound, Kept, Agrees
    <3>2. PICK x \in Alive(level), v \in 1 .. 2 : Info(level, x, v) = Leader(h)
      BY <1>1, <2>3, <3>1, SomeLeader
    <3>3. <<x, v>> \in Q /\ <<x, v>>[1] = x /\ <<x, v>>[2] = v /\ Leader(h).index = h
      BY InfoTypes DEF Pairs
    <3> QED
      BY <3>2, <3>3
  <2> HIDE DEF Q, C
  <2> QED
    BY <1>1, <2>1, <2>2, <2>3, SomeFree
<1>7. /\ Leader(g) \in Infos /\ Leader(g).index = g
      /\ Member(g) \in Infos /\ Member(g).index = g /\ Member(g).role # "leader"
  BY <1>6, InfoTypes DEF Member, Infos, Roles
<1>8. Welcome(level, Leader(g))
  BY <1>6, <1>7 DEF Welcome
<1> HIDE DEF g, one, two
<1>9. /\ Sound(one, {}) /\ Below(one) /\ Stay(one, level)
      /\ IF mon_pop(level) = 0 THEN one = level
         ELSE Alive(one) = Alive(level) \cup {m} /\ one.group[g] # NoGroup
  <2>1. Leader(g).index \in GroupIndices
    BY <1>6, <1>7
  <2>2. /\ Sound(one, {}) /\ Below(one) /\ Stay(one, level)
        /\ IF mon_pop(level) = 0 THEN one = level
           ELSE Alive(one) = Alive(level) \cup {m} /\ one.group[Leader(g).index] # NoGroup
    BY <1>1, <1>5, <1>7, <1>8, <2>1, Placed DEF one
  <2> QED
    BY <1>7, <2>2
<1>10. Cardinality(Alive(one)) <= C + 1 /\ Cardinality(Alive(one)) \in Nat
  <2>1. Cardinality(Alive(one)) \in Nat
    BY <1>9, FewPairs DEF Sound
  <2>2. CASE mon_pop(level) = 0
    BY <1>4, <1>9, <2>2
  <2>3. CASE mon_pop(level) # 0
    BY <1>1, <1>9, <2>1, <2>3, OneMoreAlive
  <2> QED
    BY <2>1, <2>2, <2>3
<1>11. CASE mon_pop(level) = 0 \/ friends = <<>>
  <2>1. level' = one
    BY <1>3, <1>11
  <2>2. Cardinality(Alive(level')) <= bounds.alive
    BY <1>2, <1>4, <1>10, <2>1
  <2>3. Follows(level', level)
    BY <1>1, <1>9, <2>1, StayFollows
  <2> QED
    BY <1>1, <1>9, <2>1, <2>2, <2>3, SameLevelInv
<1>12. CASE mon_pop(level) # 0 /\ friends # <<>>
  <2>1. level' = two /\ n = 2 /\ one \in Levels
    BY <1>2, <1>3, <1>9, <1>12 DEF Sound
  <2>2. f \in Monsters \ Alive(one)
    BY <1>5, <1>9, <1>12
  <2>3. Welcome(one, Member(g)) /\ Member(g).index \in GroupIndices
    BY <1>6, <1>7, <1>9, <1>12 DEF Welcome
  <2>5. /\ Sound(two, {}) /\ Below(two) /\ Stay(two, one)
        /\ IF mon_pop(one) = 0 THEN two = one
           ELSE Alive(two) = Alive(one) \cup {f} /\ two.group[Member(g).index] # NoGroup
    BY <1>7, <1>9, <2>2, <2>3, Placed DEF two
  <2>6. Cardinality(Alive(two)) <= Cardinality(Alive(one)) + 1
    <3>1. CASE mon_pop(one) = 0
      BY <1>10, <2>5, <3>1
    <3>2. CASE mon_pop(one) # 0
      BY <1>9, <2>5, <3>2, OneMoreAlive DEF Sound
    <3> QED
      BY <3>1, <3>2
  <2>7. Cardinality(Alive(two)) \in Nat
    BY <2>5, FewPairs DEF Sound
  <2>8. Cardinality(Alive(level')) <= bounds.alive
    BY <1>4, <1>10, <2>1, <2>6, <2>7
  <2>9. Follows(level', level)
    BY <1>1, <1>9, <2>1, <2>5, StayFollows, FollowsTwice
  <2> QED
    BY <1>1, <2>1, <2>5, <2>8, <2>9, SameLevelInv
<1> QED
  BY <1>11, <1>12

LEMMA SameListStays ==
    ASSUME NEW l, NEW k, SameList(k, l)
    PROVE  Stay(k, l) /\ (Below(k) <=> Below(l)) /\ mon_pop(k) = mon_pop(l)
  BY DEF SameList, Stay, Below, mon_pop, Holes

LEMMA StaysTwice ==
    ASSUME NEW l, NEW k, NEW j, Stay(k, l), Stay(j, k)
    PROVE  Stay(j, l)
  BY DEF Stay

\* summon_specific().
LEMMA SummonKeeps ==
    ASSUME ListInv, NEW s \in Alive(level), NEW m \in Fresh, Summon(s, m)
    PROVE  ListInv'
<1> DEFINE l == summon_group(level, s)
           g == SummonGroup(l, s)
           info == [index |-> g, role |-> "summon"]
           C == Cardinality(Alive(level))
<1>1. /\ Sound(level, {}) /\ Below(level) /\ level \in Levels
      /\ duel = Nobody /\ duel' = duel /\ bounds' = bounds /\ watched' = watched /\ Room(1)
      /\ level' = place_monster(l, m, info)
  BY DEF ListInv, Sound, Summon, OnLevel
<1> HIDE DEF l, g
<1>2. Sound(l, {}) /\ SameList(l, level) /\ g \in GroupIndices /\ l.group[g] # NoGroup
  BY <1>1, SummonsGroup DEF l, g
<1>3. Stay(l, level) /\ Below(l) /\ Alive(l) = Alive(level)
  BY <1>1, <1>2, SameListStays, SameLists
<1>4. C \in Nat /\ C + 1 <= bounds.alive /\ bounds.alive \in Nat
  BY <1>1, RoomEnough
<1>5. info \in Infos /\ info.index = g /\ info.role # "leader"
  BY <1>2, InfoTypes DEF Infos, Roles
<1> HIDE DEF info
<1>6. m \in Monsters \ Alive(l)
  BY <1>3, FreshIs
<1>7. Welcome(l, info) /\ info.index \in GroupIndices
  BY <1>2, <1>5 DEF Welcome
<1>8. /\ Sound(level', {}) /\ Below(level') /\ Stay(level', l)
      /\ IF mon_pop(l) = 0 THEN level' = l
         ELSE Alive(level') = Alive(l) \cup {m} /\ level'.group[info.index] # NoGroup
  BY <1>1, <1>2, <1>3, <1>5, <1>6, <1>7, Placed
<1>9. Cardinality(Alive(level')) <= bounds.alive
  <2>1. CASE mon_pop(l) = 0
    BY <1>3, <1>4, <1>8, <2>1
  <2>2. CASE mon_pop(l) # 0
    <3>1. Cardinality(Alive(level')) <= C + 1
      BY <1>1, <1>3, <1>4, <1>8, <2>2, OneMoreAlive DEF Sound
    <3>2. Cardinality(Alive(level')) \in Nat
      BY <1>8, FewPairs DEF Sound
    <3> QED
      BY <1>4, <3>1, <3>2
  <2> QED
    BY <2>1, <2>2
<1>10. Follows(level', level)
  BY <1>1, <1>3, <1>8, StaysTwice, StayFollows
<1> QED
  BY <1>1, <1>8, <1>9, <1>10, SameLevelInv

\* The group of the summons, without them.
LEMMA SummonFailsKeeps ==
    ASSUME ListInv, NEW s \in Alive(level), SummonFails(s)
    PROVE  ListInv'
<1> DEFINE l == summon_group(level, s)
<1>1. /\ Sound(level, {}) /\ Below(level) /\ level \in Levels
      /\ duel = Nobody /\ duel' = duel /\ bounds' = bounds /\ watched' = watched
      /\ level' = l
  BY DEF ListInv, Sound, SummonFails, OnLevel
<1> HIDE DEF l
<1>2. Sound(l, {}) /\ SameList(l, level)
  BY <1>1, SummonsGroup DEF l
<1>3. Stay(l, level) /\ Below(l) /\ Alive(l) = Alive(level)
  BY <1>1, <1>2, SameListStays, SameLists
<1>4. Follows(level', level)
  BY <1>1, <1>3, StayFollows
<1>5. Cardinality(Alive(level')) <= bounds.alive
  BY <1>1, <1>3 DEF ListInv
<1> QED
  BY <1>1, <1>2, <1>3, <1>4, <1>5, SameLevelInv

-----------------------------------------------------------------------------
(* The steps that take monsters away, or look at them.                     *)

\* The target and the health bar are unset if they meant the one that is gone.
LEMMA RemovedFollows ==
    ASSUME NEW l \in Levels, NEW k, NEW m, NEW i, Removed(k, l, m, i)
    PROVE  Follows(k, l) /\ (Below(l) => Below(k))
<1>1. /\ l.slot \in [Indices -> Monsters \cup {Nobody}] /\ l.target \in Places
      /\ l.health \in Arena .. LevelMax - 1
  BY LevelParts
<1>2. \A x \in Indices : x # i => k.slot[x] = l.slot[x]
  BY <1>1 DEF Removed
<1>3. l.target # 0 => l.target \in Indices
  BY <1>1, Sizes
<1>4. l.health > 0 => l.health \in Indices
  BY <1>1, Sizes DEF Indices
<1>5. ASSUME k.target # 0 PROVE l.target # 0 /\ k.slot[k.target] = l.slot[l.target]
  BY <1>2, <1>3, <1>5 DEF Removed, Lost
<1>6. ASSUME k.health > 0 PROVE l.health > 0 /\ k.slot[k.health] = l.slot[l.health]
  BY <1>2, <1>4, <1>6 DEF Removed, Lost
<1>7. ASSUME Below(l), NEW x \in Indices, k.slot[x] # Nobody PROVE x < k.max
  BY <1>1, <1>7 DEF Below, Removed
<1> QED
  BY <1>5, <1>6, <1>7 DEF Follows, Below

\* Fewer monsters are no more than the bound.
LEMMA FewerFit ==
    ASSUME ListInv, Alive(level') \subseteq Alive(level)
    PROVE  Cardinality(Alive(level')) <= bounds.alive
<1>1. IsFiniteSet(Alive(level)) /\ Cardinality(Alive(level)) \in Nat
  BY FewPairs DEF ListInv, Sound
<1>2. IsFiniteSet(Alive(level')) /\ Cardinality(Alive(level')) <= Cardinality(Alive(level))
  BY <1>1, FS_Subset
<1>3. Cardinality(Alive(level')) \in Nat /\ bounds.alive \in Nat
  BY <1>2, FS_CardinalityType, ListAssumption DEF ListInv
<1> QED
  BY <1>1, <1>2, <1>3 DEF ListInv

\* Whatever kills a monster.
LEMMA KillKeeps ==
    ASSUME ListInv, NEW m \in Alive(level), Kill(m)
    PROVE  ListInv'
<1> DEFINE i == level.rec[m].midx
<1>1. /\ Sound(level, {}) /\ Below(level) /\ level \in Levels
      /\ duel = Nobody /\ duel' = duel /\ bounds' = bounds /\ watched' = watched
      /\ level' = delete_monster_idx(level, m)
  BY DEF ListInv, Sound, Kill, OnLevel
<1> HIDE DEF i
<1>2. Sound(level', {}) /\ Removed(level', level, m, i)
  BY <1>1, DeletedOne DEF i
<1>3. Follows(level', level) /\ Below(level')
  BY <1>1, <1>2, RemovedFollows
<1>4. Cardinality(Alive(level')) <= bounds.alive
  BY <1>2, FewerFit DEF Removed
<1> QED
  BY <1>1, <1>2, <1>3, <1>4, SameLevelInv

\* A level with nobody on it.
LEMMA EmptyLevelSound ==
    /\ Sound(EmptyLevel, {}) /\ Below(EmptyLevel) /\ Alive(EmptyLevel) = {}
    /\ EmptyLevel.target = 0 /\ EmptyLevel.health = 0
<1> DEFINE slots == [i \in Indices |-> Nobody]
           recs == [m \in Monsters |-> NoRecord]
           groups == [g \in GroupIndices |-> NoGroup]
           l == LevelOf(slots, 1, recs, groups, 0, 0, FALSE, 0)
<1>1. l = EmptyLevel
  BY DEF LevelOf, EmptyLevel
<1>2. slots \in [Indices -> Monsters \cup {Nobody}] /\ recs \in [Monsters -> Recs]
  BY RecTypes
<1>3. groups \in [GroupIndices -> Groups] /\ 1 \in Indices /\ 0 \in Places /\ 0 \in Arena .. LevelMax - 1
  BY GroupTypes, Sizes DEF Indices, Arena
<1> HIDE DEF slots, recs, groups
<1>4. l \in Levels
  <2>1. 0 \in 0 .. LevelMax /\ FALSE \in BOOLEAN
    BY Sizes
  <2> QED
    BY <1>2, <1>3, <2>1, LevelTyped
<1>5. /\ l.slot = slots /\ l.rec = recs /\ l.group = groups
      /\ l.target = 0 /\ l.health = 0 /\ l.quit = FALSE /\ l.short = 0
  BY DEF LevelOf
<1> HIDE DEF l
<1>6. \A i \in Indices : l.slot[i] = Nobody
  BY <1>5 DEF slots
<1>7. Alive(l) = {}
  BY <1>6 DEF Alive
<1>8. Indexed(l) /\ WellGrouped(l) /\ Below(l)
  BY <1>5, <1>6, <1>7 DEF Indexed, WellGrouped, Below, recs
<1>9. Enough(l)
  BY <1>5 DEF Enough
<1>10. Kept(l.group, Joined(l) \ {}, Led(l) \ {})
  <2> SUFFICES ASSUME NEW g \in GroupIndices
               PROVE  KeptGroup(l.group[g], g, Joined(l) \ {}, Led(l) \ {})
    BY DEF Kept, KeptIn
  <2>1. l.group[g] = NoGroup
    BY <1>5 DEF groups
  <2>2. \A k \in Indices : <<k, g>> \notin Joined(l) \ {} /\ <<k, g>> \notin Led(l) \ {}
    BY <1>6, Claims
  <2> QED
    BY <2>1, <2>2, EndedGroup
<1> QED
  BY <1>1, <1>4, <1>5, <1>7, <1>8, <1>9, <1>10 DEF Sound

\* wipe_mon_list().
LEMMA WipeKeeps ==
    ASSUME ListInv, wipe_mon_list
    PROVE  ListInv'
<1>1. level' = EmptyLevel /\ duel = Nobody /\ duel' = duel /\ bounds' = bounds /\ watched' = watched
  BY DEF wipe_mon_list, OnLevel
<1>2. Follows(level', level)
  BY <1>1, EmptyLevelSound DEF Follows
<1>3. Cardinality(Alive(level')) <= bounds.alive
  BY <1>1, EmptyLevelSound, FewerFit
<1> QED
  BY <1>1, <1>2, <1>3, EmptyLevelSound, SameLevelInv

LEMMA ListInit == Init => ListInv
<1> SUFFICES ASSUME Init PROVE ListInv
  OBVIOUS
<1>1. level = EmptyLevel /\ duel = Nobody /\ bounds \in Bounds /\ watched \in Watched
  BY DEF Init, Watched
<1>2. Cardinality(Alive(level)) <= bounds.alive
  BY <1>1, EmptyLevelSound, FS_EmptySet, ListAssumption
<1> QED
  BY <1>1, <1>2, EmptyLevelSound DEF ListInv

\* The player looks at m, which is where its record says.
LEMMA LookKeeps ==
    ASSUME ListInv, NEW m \in Alive(level), Target(m) \/ HealthTrack(m)
    PROVE  ListInv'
<1> DEFINE i == level.rec[m].midx
           aimed == [level EXCEPT !.target = i]
           barred == [level EXCEPT !.health = i]
<1>1. /\ Sound(level, {}) /\ Below(level) /\ level \in Levels /\ Indexed(level)
      /\ duel = Nobody /\ duel' = Nobody /\ bounds' = bounds
  BY DEF ListInv, Sound, Target, HealthTrack, OnLevel
<1>2. i \in Slots /\ m \in Monsters /\ m # Nobody /\ level.slot[i] = m
  BY <1>1, AliveAt
<1>3. i \in Places /\ i \in Arena .. LevelMax - 1 /\ i # 0 /\ level.max \in Indices
  BY <1>1, <1>2, LevelParts, Sizes DEF Arena, Slots
<1> HIDE DEF i
<1>4. /\ SameBut(aimed, level) /\ SameBut(barred, level)
      /\ aimed.health = level.health /\ barred.target = level.target
      /\ aimed.target = i /\ barred.health = i /\ aimed.max = level.max /\ barred.max = level.max
  <2>1. SameBut(aimed, level) /\ aimed.max = level.max /\ aimed.target = i
        /\ aimed.health = level.health
    BY <1>1, <1>3, LookedAt
  <2>2. SameBut(barred, level) /\ barred.max = level.max /\ barred.target = level.target
        /\ barred.health = i
    BY <1>1, <1>3, LookedAtBar
  <2> QED
    BY <2>1, <2>2
<1>5. ASSUME NEW k, SameBut(k, level), k.max = level.max
      PROVE  Sound(k, {}) /\ Below(k) /\ Alive(k) = Alive(level) /\ k.slot = level.slot
  BY <1>1, <1>5, SoundSame DEF SameBut, Below, Alive
<1>6. Cardinality(Alive(level)) <= bounds.alive /\ watched \in Watched
  BY DEF ListInv
<1> HIDE DEF aimed, barred
<1>7. CASE Target(m)
  <2>1. level' = aimed /\ watched' = [watched EXCEPT !.target = m]
    BY <1>7 DEF Target, aimed, i
  <2>2. watched' \in Watched /\ watched'.target = m /\ watched'.health = watched.health
    BY <1>2, <1>6, <2>1 DEF Watched
  <2>3. Sound(level', {}) /\ Below(level') /\ Alive(level') = Alive(level) /\ level'.slot = level.slot
    BY <1>4, <1>5, <2>1
  <2>4. level'.target = i /\ level'.health = level.health
    BY <1>4, <2>1
  <2> QED
    BY <1>1, <1>2, <1>6, <2>2, <2>3, <2>4 DEF ListInv
<1>8. CASE HealthTrack(m)
  <2>1. level' = barred /\ watched' = [watched EXCEPT !.health = m]
    BY <1>8 DEF HealthTrack, barred, i
  <2>2. watched' \in Watched /\ watched'.health = m /\ watched'.target = watched.target
    BY <1>2, <1>6, <2>1 DEF Watched
  <2>3. Sound(level', {}) /\ Below(level') /\ Alive(level') = Alive(level) /\ level'.slot = level.slot
    BY <1>4, <1>5, <2>1
  <2>4. level'.health = i /\ level'.target = level.target
    BY <1>4, <2>1
  <2> QED
    BY <1>1, <1>2, <1>6, <2>2, <2>3, <2>4 DEF ListInv
<1> QED
  BY <1>7, <1>8

-----------------------------------------------------------------------------
(* compact_monsters().                                                     *)

\* The monsters in dead are on the list, each once.
Doomed(dead, l) ==
    /\ Len(dead) \in Nat
    /\ \A q \in 1 .. Len(dead) : dead[q] \in Alive(l)
    /\ \A p, q \in 1 .. Len(dead) : dead[p] = dead[q] => p = q

\* x is what is left of l after the first k are deleted.
Deleting(x, k, l, dead) ==
    /\ Sound(x, {}) /\ Below(x) /\ Follows(x, l) /\ (k = 0 => x = l)
    /\ \A n : n \in Alive(x) <=> n \in Alive(l) /\ \A q \in 1 .. k : n # dead[q]

LEMMA DeleteStarts ==
    ASSUME NEW l, Sound(l, {}), Below(l), NEW dead
    PROVE  Deleting(l, 0, l, dead)
<1>1. Follows(l, l)
  BY DEF Follows
<1>2. 1 .. 0 = {}
  OBVIOUS
<1> QED
  BY <1>1, <1>2 DEF Deleting

\* One turn of the loop that deletes.
LEMMA DeleteTurn ==
    ASSUME NEW l, NEW dead, Doomed(dead, l), NEW k \in 1 .. Len(dead),
           NEW x, Deleting(x, k - 1, l, dead)
    PROVE  Deleting(delete_monster_idx(x, dead[k]), k, l, dead)
<1> DEFINE m == dead[k]
           i == x.rec[m].midx
           y == delete_monster_idx(x, m)
<1>1. Len(dead) \in Nat
  BY DEF Doomed
<1>2. m \in Alive(x)
  <2>1. \A q \in 1 .. k - 1 : q \in 1 .. Len(dead) /\ q # k
    BY <1>1
  <2>2. \A q \in 1 .. k - 1 : m # dead[q]
    BY <2>1 DEF Doomed
  <2>3. m \in Alive(l)
    BY DEF Doomed
  <2> HIDE DEF m
  <2> QED
    BY <2>2, <2>3 DEF Deleting
<1>3. Sound(x, {}) /\ Below(x) /\ Follows(x, l) /\ x \in Levels
  BY DEF Deleting, Sound
<1> HIDE DEF m, i
<1>4. Sound(y, {}) /\ Removed(y, x, m, i)
  BY <1>2, <1>3, DeletedOne DEF i
<1> HIDE DEF y
<1>5. Follows(y, l) /\ Below(y)
  BY <1>3, <1>4, RemovedFollows, FollowsTwice
<1>6. ASSUME NEW n PROVE n \in Alive(y) <=> n \in Alive(l) /\ \A q \in 1 .. k : n # dead[q]
  <2>1. n \in Alive(y) <=> n \in Alive(x) /\ n # m
    BY <1>4 DEF Removed
  <2>2. n \in Alive(x) <=> n \in Alive(l) /\ \A q \in 1 .. k - 1 : n # dead[q]
    BY DEF Deleting
  <2>3. (\A q \in 1 .. k : n # dead[q]) <=> (\A q \in 1 .. k - 1 : n # dead[q]) /\ n # m
    <3>1. \A q : q \in 1 .. k <=> q \in 1 .. k - 1 \/ q = k
      BY <1>1
    <3> QED
      BY <3>1 DEF m
  <2> QED
    BY <2>1, <2>2, <2>3
<1> QED
  BY <1>4, <1>5, <1>6 DEF Deleting, y, m

\* All of them are deleted.
LEMMA Deleted ==
    ASSUME NEW l, Sound(l, {}), Below(l), NEW dead, Doomed(dead, l)
    PROVE  Deleting(DeleteAll(l, dead), Len(dead), l, dead)
<1> DEFINE N == Len(dead)
           Turn(x, i) == delete_monster_idx(x, dead[i])
           step == [q \in (1 .. N) \X Levels |-> Turn(q[2], q[1])]
           S == [n \in 0 .. N |-> {x \in Levels : Deleting(x, n, l, dead)}]
<1>1. N \in Nat
  BY DEF Doomed
<1>2. l \in S[0]
  <2>1. l \in Levels /\ 0 \in 0 .. N
    BY <1>1 DEF Sound
  <2> QED
    BY <2>1, DeleteStarts
<1>3. ASSUME NEW i \in 1 .. N, NEW x \in S[i - 1]
      PROVE  step[<<i, x>>] = Turn(x, i) /\ step[<<i, x>>] \in S[i]
  <2> HIDE DEF Turn
  <2>1. i - 1 \in 0 .. N /\ i \in 0 .. N
    BY <1>1
  <2>2. x \in Levels /\ Deleting(x, i - 1, l, dead)
    BY <2>1
  <2>3. step[<<i, x>>] = Turn(x, i)
    BY <2>2
  <2>4. Deleting(Turn(x, i), i, l, dead)
    BY <2>2, DeleteTurn DEF Turn
  <2>5. Turn(x, i) \in Levels
    BY <2>4 DEF Deleting, Sound
  <2> QED
    BY <2>1, <2>3, <2>4, <2>5
<1>4. S[N] = {x \in Levels : Deleting(x, N, l, dead)}
  BY <1>1
<1> HIDE DEF step, S, N, Turn
<1>5. PICK f : Stages(f, step, N, S, l)
  BY <1>1, <1>2, <1>3, StagedRecursion
<1> DEFINE body(after, k) == IF k = 0 THEN l ELSE delete_monster_idx(after[k - 1], dead[k])
           chosen == CHOOSE after : after = [k \in 0 .. N |-> body(after, k)]
<1>6. DeleteAll(l, dead) = chosen[N]
  BY Zenon DEF DeleteAll, N
<1>7. ASSUME NEW after
      PROVE  body(after, 0) = l /\ \A d \in 1 .. N : body(after, d) = Turn(after[d - 1], d)
  <2>1. \A d \in 1 .. N : d # 0
    BY <1>1
  <2> QED
    BY <2>1, Zenon DEF Turn
<1> HIDE DEF body
<1>8. f = [d \in 0 .. N |-> body(f, d)]
  <2>1. ASSUME NEW d \in 0 .. N PROVE f[d] = body(f, d)
    <3>1. d = 0 \/ d \in 1 .. N
      BY <1>1
    <3>2. f[0] = l /\ \A i \in 1 .. N : f[i] = Turn(f[i - 1], i)
      BY <1>3, <1>5 DEF Stages
    <3> QED
      BY <1>7, <3>1, <3>2, Zenon
  <2> QED
    BY <1>5, <2>1, Zenon DEF Stages
<1>9. chosen = [d \in 0 .. N |-> body(chosen, d)]
  BY <1>8, Zenon
<1> HIDE DEF chosen
<1>10. chosen[0] = l /\ \A i \in 1 .. N : chosen[i] = Turn(chosen[i - 1], i)
  <2>1. 0 \in 0 .. N /\ \A i \in 1 .. N : i \in 0 .. N
    BY <1>1
  <2>2. \A d \in 0 .. N : chosen[d] = body(chosen, d)
    BY <1>9, Zenon
  <2> QED
    BY <1>7, <2>1, <2>2, Zenon
<1>11. chosen[N] \in S[N]
  <2>1. chosen[0] \in S[0]
    BY <1>2, <1>10
  <2>2. \A i \in 1 .. N : chosen[i - 1] \in S[i - 1] => chosen[i] \in S[i]
    BY <1>3, <1>10
  <2> QED
    BY <1>1, <2>1, <2>2, StagesKept
<1> QED
  BY <1>4, <1>6, <1>11 DEF N

-----------------------------------------------------------------------------

\* The first of the list, if it is there, remains the first.
First(k, l) == l.slot[1] # Nobody => k.slot[1] = l.slot[1]
SameAlive(k, l) == Alive(k) = Alive(l)

\* The health bar goes with the monster, and the target is lost.
LEMMA MovedFollows ==
    ASSUME NEW l, NEW m, NEW i, NEW j, Moving(l, m, i, j), NEW k, IndexMoved(k, l, m, i, j)
    PROVE  Follows(k, l)
<1>1. /\ l.target \in Places /\ l.health \in Arena .. LevelMax - 1
      /\ l.slot[j] = Nobody /\ l.slot[i] = m
  BY LevelParts DEF Moving, Sound
<1>2. (l.target # 0 => l.target \in Indices) /\ (l.health > 0 => l.health \in Indices)
  BY <1>1, Sizes DEF Indices
<1>3. ASSUME Aimed(l), k.target # 0 PROVE l.target # 0 /\ k.slot[k.target] = l.slot[l.target]
  <2>1. k.target = l.target /\ l.target # i /\ l.target # 0 /\ l.target \in Indices
    BY <1>2, <1>3 DEF IndexMoved, Lost
  <2>2. l.target # j
    BY <1>1, <1>3, <2>1 DEF Aimed
  <2> QED
    BY <2>1, <2>2 DEF IndexMoved
<1>4. ASSUME Aimed(l), k.health > 0 PROVE l.health > 0 /\ k.slot[k.health] = l.slot[l.health]
  <2>1. CASE l.health = i
    <3>1. k.health = j /\ k.slot[j] = m /\ i > 0
      BY <2>1, Sizes DEF IndexMoved, Follow, Moving
    <3> QED
      BY <1>1, <2>1, <3>1
  <2>2. CASE l.health # i
    <3>1. k.health = l.health /\ l.health > 0 /\ l.health \in Indices
      BY <1>2, <1>4, <2>2 DEF IndexMoved, Follow
    <3>2. l.health # j
      BY <1>1, <1>4, <3>1 DEF Aimed
    <3> QED
      BY <2>2, <3>1, <3>2 DEF IndexMoved
  <2> QED
    BY <2>1, <2>2
<1> QED
  BY <1>3, <1>4 DEF Follows

\* x is what is made of l, and has no hole from i on.
Closing(x, i, l) ==
    /\ Sound(x, {}) /\ Below(x) /\ Follows(x, l) /\ First(x, l) /\ SameAlive(x, l)
    /\ i <= x.max
    /\ \A q \in Indices : i <= q /\ q < x.max => x.slot[q] # Nobody

LEMMA FollowsSame ==
    ASSUME NEW l, NEW k, k.slot = l.slot, k.target = l.target, k.health = l.health
    PROVE  Follows(k, l) /\ First(k, l)
  BY DEF Follows, First

\* The top of the list comes down by one, past nobody.
LEMMA Lowered ==
    ASSUME NEW x, Sound(x, {}), NEW top \in Indices, NEW k, k = [x EXCEPT !.max = top]
    PROVE  /\ Sound(k, {}) /\ Follows(k, x) /\ First(k, x) /\ SameAlive(k, x)
           /\ k.slot = x.slot /\ k.max = top
<1>1. x \in Levels /\ x.target \in Places /\ x.health \in Arena .. LevelMax - 1
  BY LevelParts DEF Sound
<1>2. SameBut(k, x)
  BY <1>1, OtherEnd
<1>3. k.target = x.target /\ k.health = x.health /\ k.max = top /\ k.slot = x.slot
  BY <1>1 DEF Levels
<1>4. Sound(k, {}) /\ Follows(k, x) /\ First(k, x)
  BY <1>2, <1>3, SoundSame, FollowsSame
<1> QED
  BY <1>3, <1>4 DEF SameAlive, Alive

\* The last monster, at j, fills the hole i.
LEMMA HoleFilled ==
    ASSUME NEW l, NEW x, NEW i \in Slots, Closing(x, i + 1, l), x.slot[i] = Nobody,
           NEW j, j = x.max - 1, i # j, NEW y, y = monster_index_move(x, j, i)
    PROVE  /\ Sound(y, {}) /\ Follows(y, l) /\ First(y, l) /\ SameAlive(y, l)
           /\ i < j /\ j \in Indices /\ y.max = x.max
           /\ \A q \in Indices : i <= q /\ q < j => y.slot[q] # Nobody
           /\ \A q \in Indices : y.slot[q] # Nobody => q < j
<1> DEFINE m == x.slot[j]
<1>1. /\ Sound(x, {}) /\ Below(x) /\ Follows(x, l) /\ First(x, l) /\ SameAlive(x, l)
      /\ i + 1 <= x.max /\ x \in Levels
  BY DEF Closing, Sound
<1>2. x.max \in Indices /\ x.max \in Int /\ i \in Int /\ 1 <= i /\ i < LevelMax
  BY <1>1, LevelParts, Sizes DEF Slots
<1>3. i < j /\ j \in Indices /\ j \in Int
  BY <1>1, <1>2, Sizes DEF Indices
<1>4. m # Nobody
  BY <1>2, <1>3 DEF Closing
<1> HIDE DEF m
<1>5. Moving(x, m, j, i)
  BY <1>1, <1>3, <1>4 DEF Moving, m
<1>6. Sound(y, {}) /\ IndexMoved(y, x, m, j, i)
  BY <1>5, IndexMoves
<1>7. Follows(y, l)
  BY <1>1, <1>5, <1>6, MovedFollows, FollowsTwice
<1>8. /\ y.slot[i] = m /\ y.slot[j] = Nobody /\ y.max = x.max
      /\ \A q \in Indices \ {i, j} : y.slot[q] = x.slot[q]
  BY <1>6 DEF IndexMoved
<1>9. First(y, l)
  <2> SUFFICES ASSUME l.slot[1] # Nobody PROVE y.slot[1] = l.slot[1]
    BY DEF First
  <2>1. x.slot[1] = l.slot[1]
    BY <1>1 DEF First
  <2>2. 1 # i /\ 1 # j /\ 1 \in Indices
    BY <1>2, <1>3, <2>1, Sizes DEF Indices
  <2> QED
    BY <1>8, <2>1, <2>2
<1>10. SameAlive(y, l)
  BY <1>1, <1>6 DEF IndexMoved, SameAlive
<1>11. ASSUME NEW q \in Indices, i <= q, q < j PROVE y.slot[q] # Nobody
  <2>1. CASE q = i
    BY <1>4, <1>8, <2>1
  <2>2. CASE q # i
    <3>1. q \in Int
      BY Sizes
    <3>2. q # j /\ i + 1 <= q /\ q < x.max
      BY <1>2, <1>3, <1>11, <2>2, <3>1
    <3> QED
      BY <1>8, <2>2, <3>2 DEF Closing
  <2> QED
    BY <2>1, <2>2
<1>12. ASSUME NEW q \in Indices, y.slot[q] # Nobody PROVE q < j
  <2>1. q \in Int
    BY Sizes
  <2>2. CASE q = i
    BY <1>3, <2>2
  <2>3. CASE q # i
    <3>1. q # j /\ x.slot[q] # Nobody
      BY <1>8, <1>12, <2>3
    <3>2. q < x.max
      BY <1>1, <3>1 DEF Below
    <3> QED
      BY <1>2, <2>1, <3>1, <3>2
  <2> QED
    BY <2>2, <2>3
<1> QED
  BY <1>3, <1>6, <1>7, <1>8, <1>9, <1>10, <1>11, <1>12

\* One turn of the loop that closes the holes.
LEMMA ExciseTurn ==
    ASSUME NEW l, NEW x, NEW i \in Slots, Closing(x, i + 1, l)
    PROVE  Closing(Excise(x, i), i, l)
<1> DEFINE j == x.max - 1
           y == monster_index_move(x, j, i)
           z == [y EXCEPT !.max = j]
           e == Excise(x, i)
<1>1. /\ Sound(x, {}) /\ Below(x) /\ Follows(x, l) /\ First(x, l) /\ SameAlive(x, l)
      /\ i + 1 <= x.max /\ x \in Levels
  BY DEF Closing, Sound
<1>2. x.max \in Indices /\ x.max \in Int /\ i \in Int /\ 1 <= i /\ i < LevelMax
  BY <1>1, LevelParts, Sizes DEF Slots
<1>3. CASE x.slot[i] # Nobody
  <2>1. e = x
    BY <1>3 DEF Excise
  <2>2. ASSUME NEW q \in Indices, i <= q, q < x.max PROVE x.slot[q] # Nobody
    <3>1. q = i \/ i + 1 <= q
      BY <1>2, <2>2, Sizes
    <3> QED
      BY <1>3, <2>2, <3>1 DEF Closing
  <2> QED
    BY <1>1, <1>2, <2>1, <2>2 DEF Closing
<1>4. CASE x.slot[i] = Nobody
  <2>1. e = [y EXCEPT !.max = @ - 1]
    BY <1>4 DEF Excise
  <2> HIDE DEF y, e
  <2>2. j \in Indices /\ j \in Int /\ i <= j
    BY <1>1, <1>2, Sizes DEF Indices
  <2> HIDE DEF j
  <2>3. /\ Sound(y, {}) /\ Follows(y, l) /\ First(y, l) /\ SameAlive(y, l) /\ y.max = x.max
        /\ \A q \in Indices : i <= q /\ q < j => y.slot[q] # Nobody
        /\ \A q \in Indices : y.slot[q] # Nobody => q < j
    <3>1. CASE i = j
      <4>1. y = x
        BY <3>1 DEF y, monster_index_move
      <4>2. ASSUME NEW q \in Indices, y.slot[q] # Nobody PROVE q < j
        <5>1. q < x.max /\ q # i /\ q \in Int
          BY <1>1, <1>4, <4>1, <4>2, Sizes DEF Below
        <5> QED
          BY <1>2, <3>1, <5>1 DEF j
      <4>3. ASSUME NEW q \in Indices, i <= q, q < j PROVE FALSE
        BY <1>2, <2>2, <3>1, <4>3, Sizes
      <4> QED
        BY <1>1, <4>1, <4>2, <4>3
    <3>2. CASE i # j
      BY <1>4, <3>2, HoleFilled DEF j, y
    <3> QED
      BY <3>1, <3>2
  <2>4. y \in Levels
    BY <2>3 DEF Sound
  <2>5. e = z
    BY <2>1, <2>3 DEF j
  <2> HIDE DEF z
  <2>6. /\ Sound(e, {}) /\ Follows(e, y) /\ First(e, y) /\ SameAlive(e, y)
        /\ e.slot = y.slot /\ e.max = j
    BY <2>2, <2>3, <2>5, Lowered DEF z
  <2>7. Follows(e, l) /\ First(e, l) /\ SameAlive(e, l)
    BY <2>3, <2>6, FollowsTwice DEF First, SameAlive
  <2>8. Below(e)
    BY <2>3, <2>6 DEF Below
  <2> QED
    BY <2>2, <2>3, <2>6, <2>7, <2>8 DEF Closing, e
<1> QED
  BY <1>3, <1>4

\* The list without holes.
Packed(x) == \A q \in Indices : q < x.max => x.slot[q] # Nobody
Compacted(x, l) ==
    /\ Sound(x, {}) /\ Below(x) /\ Follows(x, l) /\ First(x, l) /\ SameAlive(x, l) /\ Packed(x)

\* The holes are closed when the loop is over.
LEMMA Excised ==
    ASSUME NEW l, Sound(l, {}), Below(l)
    PROVE  Compacted(ExciseAll(l), l)
<1> DEFINE N == l.max - 1
           Turn(x, k) == Excise(x, l.max - k)
           step == [q \in (1 .. N) \X Levels |-> Turn(q[2], q[1])]
           S == [n \in 0 .. N |-> {x \in Levels : Closing(x, l.max - n, l)}]
<1>1. l \in Levels /\ l.max \in Int /\ 1 <= l.max /\ l.max <= LevelMax /\ N \in Nat
  BY LevelParts, Sizes DEF Sound
<1>2. l \in S[0]
  <2>1. 0 \in 0 .. N /\ l.max - 0 = l.max
    BY <1>1
  <2>2. Follows(l, l) /\ First(l, l) /\ SameAlive(l, l)
    BY FollowsSame DEF SameAlive
  <2>3. ASSUME NEW q \in Indices, l.max <= q, q < l.max PROVE FALSE
    BY <1>1, <2>3, Sizes
  <2>4. Closing(l, l.max, l)
    BY <1>1, <2>2, <2>3 DEF Closing
  <2> QED
    BY <1>1, <2>1, <2>4
<1>3. ASSUME NEW i \in 1 .. N, NEW x \in S[i - 1]
      PROVE  step[<<i, x>>] = Turn(x, i) /\ step[<<i, x>>] \in S[i]
  <2> DEFINE p == l.max - i
  <2>1. /\ i - 1 \in 0 .. N /\ i \in 0 .. N /\ l.max - (i - 1) = p + 1 /\ p \in Slots
    BY <1>1, Sizes DEF Slots
  <2>2. x \in Levels /\ Closing(x, l.max - (i - 1), l)
    BY <2>1
  <2>3. step[<<i, x>>] = Turn(x, i)
    <3> HIDE DEF Turn
    <3> QED
      BY <2>2
  <2> HIDE DEF p
  <2>4. Closing(x, p + 1, l)
    BY <2>1, <2>2
  <2>5. Closing(Excise(x, p), p, l)
    BY <2>1, <2>4, ExciseTurn
  <2>6. Excise(x, p) \in Levels
    BY <2>5 DEF Closing, Sound
  <2>7. Turn(x, i) = Excise(x, p)
    BY DEF p
  <2> HIDE DEF Turn
  <2> QED
    BY <2>1, <2>3, <2>5, <2>6, <2>7 DEF p
<1>4. S[N] = {x \in Levels : Closing(x, 1, l)}
  <2>1. l.max - N = 1 /\ N \in 0 .. N
    BY <1>1
  <2> HIDE DEF N
  <2> QED
    BY <2>1
<1> HIDE DEF step, S, N, Turn
<1>5. PICK f : Stages(f, step, N, S, l)
  BY <1>1, <1>2, <1>3, StagedRecursion
<1> DEFINE body(after, k) == IF k = 0 THEN l ELSE Excise(after[k - 1], l.max - k)
           chosen == CHOOSE after : after = [k \in 0 .. N |-> body(after, k)]
<1>6. ExciseAll(l) = chosen[N]
  BY Zenon DEF ExciseAll, N
<1>7. ASSUME NEW after
      PROVE  body(after, 0) = l /\ \A d \in 1 .. N : body(after, d) = Turn(after[d - 1], d)
  <2>1. \A d \in 1 .. N : d # 0
    BY <1>1
  <2> QED
    BY <2>1, Zenon DEF Turn
<1> HIDE DEF body
<1>8. f = [d \in 0 .. N |-> body(f, d)]
  <2>1. ASSUME NEW d \in 0 .. N PROVE f[d] = body(f, d)
    <3>1. d = 0 \/ d \in 1 .. N
      BY <1>1
    <3>2. f[0] = l /\ \A i \in 1 .. N : f[i] = Turn(f[i - 1], i)
      BY <1>3, <1>5 DEF Stages
    <3> QED
      BY <1>7, <3>1, <3>2, Zenon
  <2> QED
    BY <1>5, <2>1, Zenon DEF Stages
<1>9. chosen = [d \in 0 .. N |-> body(chosen, d)]
  BY <1>8, Zenon
<1> HIDE DEF chosen
<1>10. chosen[0] = l /\ \A i \in 1 .. N : chosen[i] = Turn(chosen[i - 1], i)
  <2>1. 0 \in 0 .. N /\ \A i \in 1 .. N : i \in 0 .. N
    BY <1>1
  <2>2. \A d \in 0 .. N : chosen[d] = body(chosen, d)
    BY <1>9, Zenon
  <2> QED
    BY <1>7, <2>1, <2>2, Zenon
<1>11. chosen[N] \in S[N]
  <2>1. chosen[0] \in S[0]
    BY <1>2, <1>10
  <2>2. \A i \in 1 .. N : chosen[i - 1] \in S[i - 1] => chosen[i] \in S[i]
    BY <1>3, <1>10
  <2> QED
    BY <1>1, <2>1, <2>2, StagesKept
<1>12. Closing(ExciseAll(l), 1, l)
  BY <1>4, <1>6, <1>11
<1> HIDE DEF chosen
<1> QED
  BY <1>12, Sizes DEF Closing, Compacted, Packed

\* The list without holes, less the monsters in dead.
LEMMA Compacts ==
    ASSUME NEW l, Sound(l, {}), Below(l), NEW dead, Doomed(dead, l)
    PROVE  LET k == compact_monsters(l, dead)
           IN  /\ Sound(k, {}) /\ Below(k) /\ Follows(k, l) /\ Alive(k) \subseteq Alive(l)
               /\ Len(dead) = 0 => Compacted(k, l)
<1> DEFINE d == DeleteAll(l, dead)
           k == compact_monsters(l, dead)
<1>1. k = ExciseAll(d)
  BY DEF compact_monsters
<1> HIDE DEF d, k
<1>2. Deleting(d, Len(dead), l, dead)
  BY Deleted DEF d
<1>3. Sound(d, {}) /\ Below(d) /\ Follows(d, l) /\ Alive(d) \subseteq Alive(l) /\ (Len(dead) = 0 => d = l)
  BY <1>2 DEF Deleting
<1>4. Compacted(k, d)
  BY <1>1, <1>3, Excised
<1>5. Follows(k, l)
  BY <1>3, <1>4, FollowsTwice DEF Compacted
<1>6. Alive(k) \subseteq Alive(l)
  BY <1>3, <1>4 DEF Compacted, SameAlive
<1> QED
  BY <1>3, <1>4, <1>5, <1>6 DEF Compacted, k

LEMMA HolesClosed ==
    ASSUME NEW l, Sound(l, {}), Below(l)
    PROVE  Compacted(compact_monsters(l, <<>>), l)
<1>1. Len(<<>>) = 0
  OBVIOUS
<1>2. Doomed(<<>>, l)
  BY <1>1 DEF Doomed
<1> QED
  BY <1>1, <1>2, Compacts

\* wr_dungeon() closes all holes.
LEMMA SaveKeeps ==
    ASSUME ListInv, Save
    PROVE  ListInv' /\ Packed(level')
<1>1. /\ level' = compact_monsters(level, <<>>) /\ Sound(level, {}) /\ Below(level)
      /\ duel = Nobody /\ duel' = duel /\ bounds' = bounds /\ watched' = watched
  BY DEF Save, OnLevel, ListInv
<1>2. Compacted(level', level)
  BY <1>1, HolesClosed
<1>3. Cardinality(Alive(level')) <= bounds.alive
  BY <1>2, FewerFit DEF Compacted, SameAlive
<1> QED
  BY <1>1, <1>2, <1>3, SameLevelInv DEF Compacted

LEMMA OrderDoomed ==
    ASSUME NEW l, NEW n \in NumToCompact .. LevelMax, NEW dead \in Injection(1 .. n, Alive(l))
    PROVE  Doomed(dead, l)
<1>1. n \in Nat
  BY ListAssumption, Sizes
<1>2. dead \in [1 .. n -> Alive(l)] /\ IsInjective(dead)
  BY DEF Injection
<1>3. Len(dead) = n
  BY <1>1, <1>2
<1> QED
  BY <1>1, <1>2, <1>3 DEF Doomed, IsInjective

\* process_world() compacts once, twice or not at all.
LEMMA WorldKeeps ==
    ASSUME ListInv, process_world
    PROVE  ListInv'
<1> DEFINE few == cave_monster_count(level) + Spare <= LevelMax
           Orders == UNION {Injection(1 .. n, Alive(level)) : n \in NumToCompact .. LevelMax}
<1>1. /\ Sound(level, {}) /\ Below(level)
      /\ duel = Nobody /\ duel' = duel /\ bounds' = bounds /\ watched' = watched
  BY DEF process_world, OnLevel, ListInv
<1>2. PICK dead \in IF few THEN {<<>>} ELSE Orders :
          LET l == IF few THEN level ELSE compact_monsters(level, dead)
          IN  level' = IF cave_monster_count(l) + Spare < l.max
                       THEN compact_monsters(l, <<>>) ELSE l
  BY Zenon DEF process_world
<1> DEFINE l == IF few THEN level ELSE compact_monsters(level, dead)
<1>3. level' = compact_monsters(l, <<>>) \/ level' = l
  BY <1>2, Zenon
<1>4. Sound(l, {}) /\ Below(l) /\ Follows(l, level) /\ Alive(l) \subseteq Alive(level)
  <2>1. CASE few
    <3>1. l = level
      BY <2>1, Zenon
    <3> HIDE DEF l
    <3> QED
      BY <1>1, <3>1 DEF Follows
  <2>2. CASE ~few
    <3>1. l = compact_monsters(level, dead) /\ dead \in Orders
      BY <2>2, Zenon
    <3>2. PICK n \in NumToCompact .. LevelMax : dead \in Injection(1 .. n, Alive(level))
      BY <3>1
    <3>3. Doomed(dead, level)
      BY <3>2, OrderDoomed
    <3> HIDE DEF l
    <3> QED
      BY <1>1, <3>1, <3>3, Compacts
  <2> QED
    BY <2>1, <2>2
<1> HIDE DEF l, few, Orders
<1>5. Compacted(compact_monsters(l, <<>>), l)
  BY <1>4, HolesClosed
<1>6. CASE level' = l
  <2>1. Cardinality(Alive(level')) <= bounds.alive
    BY <1>4, <1>6, FewerFit
  <2> QED
    BY <1>1, <1>4, <1>6, <2>1, SameLevelInv
<1>7. CASE level' = compact_monsters(l, <<>>)
  <2>1. Compacted(level', l)
    BY <1>5, <1>7
  <2>2. Cardinality(Alive(level')) <= bounds.alive
    BY <1>4, <2>1, FewerFit DEF Compacted, SameAlive
  <2>3. Follows(level', level)
    BY <1>4, <2>1, FollowsTwice DEF Compacted
  <2> QED
    BY <1>1, <2>1, <2>2, <2>3, SameLevelInv DEF Compacted
<1> QED
  BY <1>3, <1>6, <1>7

-----------------------------------------------------------------------------
(* Loading.                                                                *)

\* The group lists those that the records of the first i put in it.
Filled(group, g, i, x) ==
    /\ IsInjective(group.members)
    /\ \A k \in Indices : k \in ToSet(group.members) <=> <<k, g>> \in Joined(x) /\ k <= i
    /\ \A k \in Indices : <<k, g>> \in Led(x) /\ k <= i <=> k = group.leader
    /\ group.members = <<>> => group = NoGroup
LedBy(x, g, boss) == \A k \in Indices : <<k, g>> \in Led(x) <=> k = boss
Enlisted(group, i, role) ==
    [leader |-> IF role = "leader" THEN i ELSE group.leader, members |-> <<i>> \o group.members]

\* The next monster is not in group g.
LEMMA FilledSame ==
    ASSUME NEW x, NEW g, NEW i \in Slots, NEW group, Filled(group, g, i - 1, x),
           <<i, g>> \notin Joined(x), <<i, g>> \notin Led(x)
    PROVE  Filled(group, g, i, x)
<1>1. \A k \in Indices : k <= i <=> k <= i - 1 \/ k = i
  BY Sizes
<1> QED
  BY <1>1 DEF Filled

\* The next monster is in group g, and leads it if its record says so.
LEMMA FilledMore ==
    ASSUME NEW x, NEW g, NEW i \in Slots, NEW group \in Groups, Filled(group, g, i - 1, x),
           <<i, g>> \in Joined(x), NEW boss, LedBy(x, g, boss),
           NEW role, role = "leader" <=> <<i, g>> \in Led(x)
    PROVE  Enlisted(group, i, role) \in Groups /\ Filled(Enlisted(group, i, role), g, i, x)
<1> DEFINE ms == <<i>> \o group.members
           boss2 == IF role = "leader" THEN i ELSE group.leader
           new == Enlisted(group, i, role)
<1>1. new.leader = boss2 /\ new.members = ms /\ new = [leader |-> boss2, members |-> ms]
  BY DEF Enlisted
<1>2. group.leader \in Places /\ group.members \in Seq(Slots)
  BY GroupTypes
<1>3. i \in Indices /\ i \in Places /\ i \in Int /\ \A k \in Indices : k <= i <=> k <= i - 1 \/ k = i
  BY Sizes
<1>4. i \notin ToSet(group.members)
  BY <1>3 DEF Filled
<1>5. IsInjective(group.members)
  BY DEF Filled
<1>6. ms \in Seq(Slots) /\ ms # <<>> /\ ToSet(ms) = {i} \cup ToSet(group.members) /\ IsInjective(ms)
  BY <1>2, <1>4, <1>5, MemberAdded
<1> HIDE DEF ms, boss2, new
<1>7. boss2 \in Places
  BY <1>2, <1>3 DEF boss2
<1>8. new \in Groups
  BY <1>1, <1>6, <1>7, GroupTypes
<1>9. ASSUME NEW k \in Indices PROVE k \in ToSet(ms) <=> <<k, g>> \in Joined(x) /\ k <= i
  BY <1>3, <1>6 DEF Filled
<1>10. ASSUME NEW k \in Indices PROVE <<k, g>> \in Led(x) /\ k <= i <=> k = boss2
  <2>1. CASE role = "leader"
    <3>1. i = boss /\ boss2 = i
      BY <1>3, <2>1 DEF LedBy, boss2
    <3> QED
      BY <1>3, <3>1 DEF LedBy
  <2>2. CASE role # "leader"
    <3>1. boss2 = group.leader /\ <<i, g>> \notin Led(x)
      BY <2>2 DEF boss2
    <3> QED
      BY <1>3, <3>1 DEF Filled
  <2> QED
    BY <2>1, <2>2
<1> QED
  BY <1>1, <1>6, <1>8, <1>9, <1>10 DEF Filled, new

LEMMA EnlistIs ==
    ASSUME NEW groups \in [GroupIndices -> Groups], NEW r \in Recs, NEW w \in 1 .. 2, NEW i \in Slots,
           r.midx = i, NEW e, e = Enlist(groups, r, w)
    PROVE  /\ e \in [GroupIndices -> Groups]
           /\ \A g \in GroupIndices :
                 e[g] = IF r.info[w].index = g THEN Enlisted(groups[g], i, r.info[w].role)
                        ELSE groups[g]
<1> DEFINE info == r.info[w]
           h == info.index
<1>1. info \in Infos /\ h \in 0 .. MaxGroups
  BY RecTypes, InfoTypes
<1>2. CASE h = 0
  <2>1. e = groups
    BY <1>2 DEF Enlist
  <2>2. \A g \in GroupIndices : g # h
    BY <1>2, Sizes
  <2> QED
    BY <2>1, <2>2
<1>3. CASE h # 0
  <2>1. h \in GroupIndices
    BY <1>1, <1>3, Sizes DEF GroupIndices
  <2>2. e = [groups EXCEPT ![h] = [leader |-> IF info.role = "leader" THEN r.midx ELSE @.leader,
                                   members |-> <<r.midx>> \o @.members]]
    BY <1>3 DEF Enlist
  <2>3. e = [groups EXCEPT ![h] = Enlisted(groups[h], i, info.role)]
    BY <2>1, <2>2 DEF Enlisted
  <2>4. Enlisted(groups[h], i, info.role) \in Groups
    <3>1. groups[h] \in Groups
      BY <2>1
    <3>2. groups[h].leader \in Places /\ groups[h].members \in Seq(Slots) /\ i \in Places
      BY <3>1, GroupTypes, Sizes
    <3>3. <<i>> \o groups[h].members \in Seq(Slots)
      BY <3>2, MemberAdded
    <3> QED
      BY <3>2, <3>3, GroupTypes DEF Enlisted
  <2> HIDE DEF info, h
  <2> QED
    BY <2>1, <2>3, <2>4 DEF info, h
<1> QED
  BY <1>2, <1>3

\* What the records of the first i say.
FilledAll(groups, i, x) ==
    /\ groups \in [GroupIndices -> Groups]
    /\ \A g \in GroupIndices : Filled(groups[g], g, i, x)
Enrol(x, groups, i) ==
    IF x.slot[i] = Nobody THEN groups
    ELSE LET r == x.rec[x.slot[i]] IN Enlist(Enlist(groups, r, Primary), r, Second)

\* One turn of the loop over the monsters that are loaded.
LEMMA EnrolTurn ==
    ASSUME NEW x, Sound(x, {}), NEW i \in Slots, NEW groups, FilledAll(groups, i - 1, x)
    PROVE  FilledAll(Enrol(x, groups, i), i, x)
<1>1. x \in Levels /\ Indexed(x) /\ WellGrouped(x) /\ i \in Indices /\ groups \in [GroupIndices -> Groups]
  BY Sizes DEF Sound, FilledAll
<1>2. CASE x.slot[i] = Nobody
  <2>1. Enrol(x, groups, i) = groups
    BY <1>2 DEF Enrol
  <2>2. ASSUME NEW g \in GroupIndices PROVE Filled(groups[g], g, i, x)
    <3>1. <<i, g>> \notin Joined(x) /\ <<i, g>> \notin Led(x)
      BY <1>1, <1>2, Claims
    <3>2. Filled(groups[g], g, i - 1, x)
      BY DEF FilledAll
    <3> QED
      BY <3>1, <3>2, FilledSame
  <2> QED
    BY <1>1, <2>1, <2>2 DEF FilledAll
<1>3. CASE x.slot[i] # Nobody
  <2> DEFINE m == x.slot[i]
             r == x.rec[m]
             one == Enlist(groups, r, 1)
             two == Enlist(one, r, 2)
  <2>1. Enrol(x, groups, i) = two
    BY <1>3 DEF Enrol, Primary, Second
  <2>2. m \in Alive(x) /\ m \in Monsters /\ r.midx = i
    BY <1>1, <1>3, AliveAt
  <2>3. r \in Recs
    BY <1>1, <2>2, LevelParts
  <2>4. r.info[1] = Info(x, m, 1) /\ r.info[2] = Info(x, m, 2)
    BY DEF Info
  <2> HIDE DEF m, r, one, two
  <2>5. /\ one \in [GroupIndices -> Groups]
        /\ \A g \in GroupIndices :
              one[g] = IF r.info[1].index = g THEN Enlisted(groups[g], i, r.info[1].role) ELSE groups[g]
    BY <1>1, <2>2, <2>3, EnlistIs DEF one
  <2>6. /\ two \in [GroupIndices -> Groups]
        /\ \A g \in GroupIndices :
              two[g] = IF r.info[2].index = g THEN Enlisted(one[g], i, r.info[2].role) ELSE one[g]
    BY <2>2, <2>3, <2>5, EnlistIs DEF two
  <2>7. Info(x, m, 2).index # Info(x, m, 1).index
    BY <1>1, <2>2 DEF WellGrouped
  <2>8. Info(x, m, 1) \in Infos /\ Info(x, m, 2) \in Infos
    BY <1>1, <2>2, InfoIs
  <2>9. ASSUME NEW g \in GroupIndices PROVE Filled(two[g], g, i, x)
    <3>1. Filled(groups[g], g, i - 1, x) /\ groups[g] \in Groups
      BY <1>1 DEF FilledAll
    <3>2. /\ <<i, g>> \in Joined(x) <=> Info(x, m, 1).index = g \/ Info(x, m, 2).index = g
          /\ <<i, g>> \in Led(x) <=> Info(x, m, 1) = Leader(g) \/ Info(x, m, 2) = Leader(g)
      BY <1>1, <1>3, Claims DEF m
    <3>3. \A w \in 1 .. 2 : Info(x, m, w) = Leader(g) <=> Info(x, m, w).index = g /\ Info(x, m, w).role = "leader"
      <4> SUFFICES ASSUME NEW w \in 1 .. 2
                   PROVE  Info(x, m, w) = Leader(g) <=> Info(x, m, w).index = g /\ Info(x, m, w).role = "leader"
        OBVIOUS
      <4>1. Info(x, m, w) \in Infos
        BY <2>8
      <4> QED
        BY <4>1, InfoTypes
    <3>4. LedBy(x, g, x.group[g].leader)
      BY DEF Sound, Kept, KeptIn, KeptGroup, LedBy
    <3>5. CASE Info(x, m, 1).index = g
      <4>1. two[g] = Enlisted(groups[g], i, Info(x, m, 1).role)
        BY <2>4, <2>5, <2>6, <2>7, <3>5
      <4>2. <<i, g>> \in Joined(x) /\ (Info(x, m, 1).role = "leader" <=> <<i, g>> \in Led(x))
        BY <2>7, <3>2, <3>3, <3>5
      <4> QED
        BY <3>1, <3>4, <4>1, <4>2, FilledMore
    <3>6. CASE Info(x, m, 2).index = g
      <4>1. two[g] = Enlisted(groups[g], i, Info(x, m, 2).role)
        BY <2>4, <2>5, <2>6, <2>7, <3>6
      <4>2. <<i, g>> \in Joined(x) /\ (Info(x, m, 2).role = "leader" <=> <<i, g>> \in Led(x))
        BY <2>7, <3>2, <3>3, <3>6
      <4> QED
        BY <3>1, <3>4, <4>1, <4>2, FilledMore
    <3>7. CASE Info(x, m, 1).index # g /\ Info(x, m, 2).index # g
      <4>1. two[g] = groups[g]
        BY <2>4, <2>5, <2>6, <3>7
      <4>2. <<i, g>> \notin Joined(x) /\ <<i, g>> \notin Led(x)
        BY <3>2, <3>3, <3>7
      <4> QED
        BY <3>1, <4>1, <4>2, FilledSame
    <3> QED
      BY <3>5, <3>6, <3>7
  <2> QED
    BY <2>1, <2>6, <2>9 DEF FilledAll
<1> QED
  BY <1>2, <1>3

\* The groups that loading makes of the records.
Rebuilt(x) == monster_group_assign_loading(x).group

\* The loop has seen them all.
LEMMA RebuiltFilled ==
    ASSUME NEW x, Sound(x, {})
    PROVE  FilledAll(Rebuilt(x), x.max - 1, x)
<1> DEFINE N == x.max - 1
           base == [g \in GroupIndices |-> NoGroup]
           All == [GroupIndices -> Groups]
           step == [q \in (1 .. N) \X All |-> Enrol(x, q[2], q[1])]
           S == [n \in 0 .. N |-> {y \in All : FilledAll(y, n, x)}]
<1>1. x \in Levels /\ x.max \in Int /\ 1 <= x.max /\ x.max <= LevelMax /\ N \in Nat
  BY LevelParts, Sizes DEF Sound
<1>2. base \in S[0]
  <2>1. base \in All /\ 0 \in 0 .. N
    BY <1>1, GroupTypes
  <2>2. ASSUME NEW g \in GroupIndices PROVE Filled(base[g], g, 0, x)
    <3>1. base[g] = NoGroup /\ NoGroup.members = <<>> /\ NoGroup.leader = 0
      BY GroupTypes
    <3>2. \A k \in Indices : ~(k <= 0) /\ k # 0
      BY Sizes
    <3> HIDE DEF base
    <3> QED
      BY <3>1, <3>2, NoMember DEF Filled
  <2> QED
    BY <2>1, <2>2 DEF FilledAll
<1>3. ASSUME NEW i \in 1 .. N, NEW y \in S[i - 1]
      PROVE  step[<<i, y>>] = Enrol(x, y, i) /\ step[<<i, y>>] \in S[i]
  <2>1. i - 1 \in 0 .. N /\ i \in 0 .. N /\ i \in Slots
    BY <1>1, Sizes DEF Slots
  <2>2. y \in All /\ FilledAll(y, i - 1, x)
    BY <2>1
  <2>3. step[<<i, y>>] = Enrol(x, y, i)
    BY <2>2
  <2>4. FilledAll(Enrol(x, y, i), i, x)
    BY <2>1, <2>2, EnrolTurn
  <2>5. Enrol(x, y, i) \in All
    BY <2>4 DEF FilledAll
  <2> QED
    BY <2>1, <2>3, <2>4, <2>5
<1>4. S[N] = {y \in All : FilledAll(y, N, x)}
  BY <1>1
<1> HIDE DEF step, S, N, base
<1>5. PICK f : Stages(f, step, N, S, base)
  BY <1>1, <1>2, <1>3, StagedRecursion
<1> DEFINE body(after, i) ==
             IF i = 0 THEN base
             ELSE IF x.slot[i] = Nobody THEN after[i - 1]
             ELSE LET r == x.rec[x.slot[i]] IN Enlist(Enlist(after[i - 1], r, Primary), r, Second)
           chosen == CHOOSE after : after = [i \in 0 .. N |-> body(after, i)]
<1>6. Rebuilt(x) = chosen[N]
  <2> DEFINE q == x.quit \/ \E m \in Alive(x) : GroupOf(x, m, Primary) = 0
  <2>1. monster_group_assign_loading(x) = [x EXCEPT !.group = chosen[N], !.quit = q]
    BY Zenon DEF monster_group_assign_loading, base, N
  <2> HIDE DEF chosen, q
  <2> QED
    BY <1>1, <2>1 DEF Rebuilt, Levels
<1>7. ASSUME NEW after
      PROVE  body(after, 0) = base /\ \A d \in 1 .. N : body(after, d) = Enrol(x, after[d - 1], d)
  <2>1. \A d \in 1 .. N : d # 0
    BY <1>1
  <2> QED
    BY <2>1, Zenon DEF Enrol
<1> HIDE DEF body
<1>8. f = [d \in 0 .. N |-> body(f, d)]
  <2>1. ASSUME NEW d \in 0 .. N PROVE f[d] = body(f, d)
    <3>1. d = 0 \/ d \in 1 .. N
      BY <1>1
    <3>2. f[0] = base /\ \A i \in 1 .. N : f[i] = Enrol(x, f[i - 1], i)
      BY <1>3, <1>5 DEF Stages
    <3> QED
      BY <1>7, <3>1, <3>2, Zenon
  <2> QED
    BY <1>5, <2>1, Zenon DEF Stages
<1>9. chosen = [d \in 0 .. N |-> body(chosen, d)]
  BY <1>8, Zenon
<1> HIDE DEF chosen
<1>10. chosen[0] = base /\ \A i \in 1 .. N : chosen[i] = Enrol(x, chosen[i - 1], i)
  <2>1. 0 \in 0 .. N /\ \A i \in 1 .. N : i \in 0 .. N
    BY <1>1
  <2>2. \A d \in 0 .. N : chosen[d] = body(chosen, d)
    BY <1>9, Zenon
  <2> QED
    BY <1>7, <2>1, <2>2, Zenon
<1>11. chosen[N] \in S[N]
  <2>1. chosen[0] \in S[0]
    BY <1>2, <1>10
  <2>2. \A i \in 1 .. N : chosen[i - 1] \in S[i - 1] => chosen[i] \in S[i]
    BY <1>3, <1>10
  <2> QED
    BY <1>1, <2>1, <2>2, StagesKept
<1> QED
  BY <1>4, <1>6, <1>11 DEF N

\* They are what the groups were to be.
LEMMA RebuiltKept ==
    ASSUME NEW x, Sound(x, {}), Below(x)
    PROVE  /\ Rebuilt(x) \in [GroupIndices -> Groups]
           /\ Kept(Rebuilt(x), Joined(x) \ {}, Led(x) \ {})
<1> DEFINE N == x.max - 1
<1>1. x \in Levels /\ x.max \in Int /\ FilledAll(Rebuilt(x), N, x)
  BY LevelParts, RebuiltFilled, Sizes DEF Sound
<1>2. ASSUME NEW k \in Indices, NEW g \in GroupIndices, <<k, g>> \in Joined(x) \/ <<k, g>> \in Led(x)
      PROVE  k <= N
  <2>1. x.slot[k] # Nobody /\ k \in Int
    BY <1>2, Claims, Sizes
  <2> QED
    BY <1>1, <2>1 DEF Below
<1> HIDE DEF N
<1>3. ASSUME NEW g \in GroupIndices PROVE KeptGroup(Rebuilt(x)[g], g, Joined(x) \ {}, Led(x) \ {})
  <2> DEFINE new == Rebuilt(x)[g]
             old == x.group[g]
  <2>1. Filled(new, g, N, x) /\ new \in Groups
    BY <1>1 DEF FilledAll
  <2>2. KeptGroup(old, g, Joined(x) \ {}, Led(x) \ {}) /\ old \in Groups
    BY <1>1, LevelParts DEF Sound, Kept, KeptIn
  <2> HIDE DEF new, old
  <2>3. ASSUME new.members # <<>> PROVE new.leader # 0
    <3>1. new.members \in Seq(Slots) /\ old.members \in Seq(Slots) /\ old.leader \in Places
      BY <2>1, <2>2, GroupTypes
    <3>2. PICK k \in Slots : k \in ToSet(new.members)
      <4>1. ToSet(new.members) # {} /\ ToSet(new.members) \subseteq Slots
        BY <2>3, <3>1, MembersOf
      <4> QED
        BY <4>1
    <3>3. k \in Indices /\ <<k, g>> \in Joined(x)
      BY <2>1, <3>2, Sizes DEF Filled
    <3>4. k \in ToSet(old.members)
      BY <2>2, <3>3 DEF KeptGroup
    <3>5. old.members # <<>>
      BY <3>1, <3>4, MembersOf
    <3>6. old.leader \in Indices /\ <<old.leader, g>> \in Led(x)
      <4>1. old.leader # 0
        BY <2>2, <3>5 DEF KeptGroup
      <4>2. old.leader \in Indices
        BY <3>1, <4>1, Sizes
      <4> QED
        BY <2>2, <4>2 DEF KeptGroup
    <3>7. new.leader = old.leader
      BY <1>2, <2>1, <3>6 DEF Filled
    <3> QED
      BY <3>6, <3>7, Sizes
  <2>4. ASSUME NEW k \in Indices
        PROVE  /\ k \in ToSet(new.members) <=> <<k, g>> \in Joined(x) \ {}
               /\ <<k, g>> \in Led(x) \ {} <=> k = new.leader
    BY <1>2, <2>1 DEF Filled
  <2> QED
    BY <2>1, <2>3, <2>4 DEF Filled, KeptGroup, new
<1> QED
  BY <1>1, <1>3 DEF FilledAll, Kept, KeptIn

\* A level with other groups.
Grouped(l, groups) ==
    LevelOf(l.slot, l.max, l.rec, groups, l.target, l.health, l.quit, l.short)

LEMMA LoadingIs ==
    ASSUME NEW x, Sound(x, {})
    PROVE  monster_group_assign_loading(x) = Grouped(x, Rebuilt(x))
<1> DEFINE q == x.quit \/ \E m \in Alive(x) : GroupOf(x, m, Primary) = 0
           y == monster_group_assign_loading(x)
<1>1. x \in Levels /\ WellGrouped(x) /\ ~x.quit
  BY DEF Sound
<1>2. q = x.quit
  <2>1. x.quit \in BOOLEAN /\ x.short \in 0 .. LevelMax
    BY <1>1, LevelParts
  <2> QED
    BY <1>1, <2>1 DEF WellGrouped, GroupOf, Info, Primary
<1>3. \E groups : y = [x EXCEPT !.group = groups, !.quit = q]
  BY Zenon DEF monster_group_assign_loading
<1> HIDE DEF q, y
<1>4. PICK groups : y = [x EXCEPT !.group = groups, !.quit = x.quit]
  BY <1>2, <1>3
<1>5. x = LevelOf(x.slot, x.max, x.rec, x.group, x.target, x.health, x.quit, x.short)
  BY <1>1, LevelParts
<1>6. y = LevelOf(x.slot, x.max, x.rec, groups, x.target, x.health, x.quit, x.short)
  BY <1>4, <1>5 DEF LevelOf
<1>7. y.group = groups
  BY <1>6, LevelFields
<1> QED
  BY <1>6, <1>7 DEF Grouped, Rebuilt, y

LEMMA Loaded ==
    ASSUME NEW x, Sound(x, {}), Below(x), NEW y, y = monster_group_assign_loading(x)
    PROVE  Sound(y, {}) /\ SameList(y, x)
<1>1. x \in Levels /\ Indexed(x) /\ WellGrouped(x) /\ Enough(x) /\ ~x.quit
  BY DEF Sound
<1>2. y = Grouped(x, Rebuilt(x))
  BY LoadingIs
<1>3. Rebuilt(x) \in [GroupIndices -> Groups] /\ Kept(Rebuilt(x), Joined(x) \ {}, Led(x) \ {})
  BY RebuiltKept
<1>4. /\ x.slot \in [Indices -> Monsters \cup {Nobody}] /\ x.max \in Indices
      /\ x.rec \in [Monsters -> Recs] /\ x.target \in Places /\ x.health \in Arena .. LevelMax - 1
      /\ x.quit \in BOOLEAN /\ x.short \in 0 .. LevelMax
  BY <1>1, LevelParts
<1>5. y \in Levels
  BY <1>2, <1>3, <1>4, LevelTyped DEF Grouped
<1>6. /\ y.slot = x.slot /\ y.max = x.max /\ y.rec = x.rec /\ y.group = Rebuilt(x)
      /\ y.target = x.target /\ y.health = x.health /\ y.quit = x.quit /\ y.short = x.short
  BY <1>2 DEF Grouped, LevelOf
<1>7. Put(y, x) /\ SameList(y, x)
  BY <1>4, <1>5, <1>6 DEF Put, SameList, Enough
<1>8. /\ Joined(y) = Joined(x) /\ Led(y) = Led(x) /\ Indexed(y) /\ WellGrouped(y) /\ Enough(y)
  BY <1>1, <1>7, PutSame
<1> QED
  BY <1>3, <1>5, <1>6, <1>7, <1>8 DEF Sound

\* Loading: the groups are as they were, and nothing is looked at.
LEMMA LoadKeeps ==
    ASSUME ListInv, Load
    PROVE  ListInv'
<1> DEFINE x == compact_monsters(level, <<>>)
           y == monster_group_assign_loading(x)
<1>1. /\ Sound(level, {}) /\ Below(level)
      /\ duel' = duel /\ bounds' = bounds /\ watched' = watched
      /\ level' = [y EXCEPT !.target = 0, !.health = 0]
  BY DEF Load, ListInv
<1> HIDE DEF x, y
<1>2. Compacted(x, level)
  BY <1>1, HolesClosed DEF x
<1>3. Sound(y, {}) /\ SameList(y, x)
  BY <1>2, Loaded DEF Compacted, y
<1>4. SameBut(level', y) /\ level'.max = y.max /\ level'.target = 0 /\ level'.health = 0
  <2>1. y \in Levels /\ 0 \in Places /\ 0 \in Arena .. LevelMax - 1
    BY <1>3, Sizes DEF Sound, Arena
  <2>2. Looks(level', y, 0, 0)
    BY <1>1 DEF Looks
  <2> QED
    BY <2>1, <2>2, LookedAtBoth DEF Looking
<1>5. Sound(level', {})
  BY <1>3, <1>4, SoundSame
<1>6. level'.slot = x.slot /\ level'.max = x.max
  BY <1>3, <1>4 DEF SameBut, SameList
<1>7. Below(level')
  BY <1>2, <1>6 DEF Compacted, Below
<1>8. Cardinality(Alive(level')) <= bounds.alive
  <2>1. Alive(level') = Alive(level)
    BY <1>2, <1>6 DEF Compacted, SameAlive, Alive
  <2> QED
    BY <2>1, FewerFit
<1>9. Follows(level', level)
  BY <1>4 DEF Follows
<1>10. ASSUME duel # Nobody PROVE level'.slot[1] = duel
  BY <1>2, <1>6, <1>10 DEF ListInv, Compacted, First
<1> QED
  BY <1>1, <1>5, <1>7, <1>8, <1>9, <1>10, SameLevelInv

-----------------------------------------------------------------------------
(* Single combat.                                                          *)

Swapped(k, l, old) ==
    /\ Sound(k, {}) /\ Below(k) /\ SameAlive(k, l) /\ k.slot[1] = l.slot[old]

\* The two change places by way of the index after the last.
LEMMA ThreeMoves ==
    ASSUME NEW l, Sound(l, {}), Below(l), l.max < LevelMax, NEW old \in Slots, old # 1,
           l.slot[old] # Nobody, l.slot[1] # Nobody,
           NEW a, a = monster_index_move(l, old, l.max),
           NEW b, b = monster_index_move(a, 1, old),
           NEW c, c = monster_index_move(b, l.max, 1)
    PROVE  Swapped(c, l, old)
<1> DEFINE m == l.slot[old]
           p == l.slot[1]
           top == l.max
<1>1. l \in Levels /\ l.max \in Indices
  BY LevelParts DEF Sound
<1>2. /\ old \in Indices /\ 1 \in Indices /\ 1 \in Slots /\ top \in Slots /\ top \in Indices
      /\ old \in Int /\ top \in Int /\ 1 < old
  BY <1>1, Sizes DEF Slots, Indices
<1>3. old < top /\ l.slot[top] = Nobody
  BY <1>2 DEF Below
<1>4. top # old /\ top # 1
  BY <1>2, <1>3
<1> HIDE DEF m, p, top
<1>5. Moving(l, m, old, top)
  BY <1>2, <1>3, <1>4 DEF Moving, m, p, top
<1>6. Sound(a, {}) /\ IndexMoved(a, l, m, old, top)
  BY <1>5, IndexMoves DEF top
<1>7. /\ a.slot[top] = m /\ a.slot[old] = Nobody /\ a.slot[1] = p /\ a.max = top
      /\ m # Nobody /\ p # Nobody
      /\ \A x \in Indices \ {old, top} : a.slot[x] = l.slot[x]
  BY <1>2, <1>4, <1>6 DEF IndexMoved, p, m, top
<1>8. Moving(a, p, 1, old)
  BY <1>2, <1>6, <1>7 DEF Moving
<1>9. Sound(b, {}) /\ IndexMoved(b, a, p, 1, old)
  BY <1>8, IndexMoves
<1>10. /\ b.slot[old] = p /\ b.slot[1] = Nobody /\ b.slot[top] = m /\ b.max = top
       /\ \A x \in Indices \ {1, old} : b.slot[x] = a.slot[x]
  BY <1>2, <1>4, <1>7, <1>9 DEF IndexMoved
<1>11. Moving(b, m, top, 1)
  BY <1>2, <1>4, <1>7, <1>9, <1>10 DEF Moving
<1>12. Sound(c, {}) /\ IndexMoved(c, b, m, top, 1)
  BY <1>11, IndexMoves DEF top
<1>13. /\ c.slot[1] = m /\ c.slot[top] = Nobody /\ c.max = top
       /\ \A x \in Indices \ {1, top} : c.slot[x] = b.slot[x]
  BY <1>10, <1>12 DEF IndexMoved
<1>14. ASSUME NEW x \in Indices, c.slot[x] # Nobody PROVE x < top
  <2>1. x # top
    BY <1>13, <1>14
  <2>2. CASE x = 1 \/ x = old
    BY <1>2, <1>3, <2>2
  <2>3. CASE x # 1 /\ x # old
    <3>1. l.slot[x] # Nobody
      BY <1>7, <1>10, <1>13, <1>14, <2>1, <2>3
    <3> QED
      BY <3>1 DEF Below, top
  <2> QED
    BY <2>2, <2>3
<1>15. SameAlive(c, l)
  BY <1>6, <1>9, <1>12 DEF IndexMoved, SameAlive
<1> QED
  BY <1>12, <1>13, <1>14, <1>15 DEF Swapped, Below, m

\* The three cases of the swap in effect_handler_SINGLE_COMBAT().
LEMMA Swaps ==
    ASSUME NEW l, Sound(l, {}), Below(l), l.max < LevelMax, NEW old \in Slots,
           l.slot[old] # Nobody
    PROVE  Swapped(Swap(l, old), l, old)
<1>1. l \in Levels /\ l.max \in Int /\ 1 \in Indices /\ 1 \in Slots /\ old \in Indices /\ old \in Int /\ 1 <= old
  BY LevelParts, Sizes DEF Sound, Slots, Indices
<1>2. CASE old = 1
  BY <1>2 DEF Swap, Swapped, SameAlive
<1>3. CASE old # 1 /\ l.slot[1] = Nobody
  <2> DEFINE k == monster_index_move(l, old, 1)
             m == l.slot[old]
  <2>1. Swap(l, old) = k
    BY <1>3 DEF Swap
  <2> HIDE DEF k, m
  <2>2. Moving(l, m, old, 1)
    BY <1>1, <1>3 DEF Moving, m
  <2>3. Sound(k, {}) /\ IndexMoved(k, l, m, old, 1)
    BY <2>2, IndexMoves DEF k
  <2>4. old < l.max
    BY <1>1 DEF Below
  <2>5. ASSUME NEW x \in Indices, k.slot[x] # Nobody PROVE x < k.max
    <3>1. CASE x = 1
      BY <1>1, <1>3, <2>3, <2>4, <3>1 DEF IndexMoved
    <3>2. CASE x # 1
      <4>1. x # old
        BY <2>3, <2>5 DEF IndexMoved
      <4>2. l.slot[x] # Nobody
        BY <2>3, <2>5, <3>2, <4>1 DEF IndexMoved
      <4> QED
        BY <2>3, <4>2 DEF Below, IndexMoved
    <3> QED
      BY <3>1, <3>2
  <2> QED
    BY <2>1, <2>3, <2>5 DEF Swapped, Below, IndexMoved, SameAlive, m
<1>4. CASE old # 1 /\ l.slot[1] # Nobody
  BY <1>4, ThreeMoves DEF Swap
<1> QED
  BY <1>2, <1>3, <1>4

\* effect_handler_SINGLE_COMBAT(): the opponent is the first of what is stored.
LEMMA CombatKeeps ==
    ASSUME ListInv, SingleCombat
    PROVE  ListInv' /\ Packed(level')
<1> DEFINE old == level.target
           m == level.slot[old]
           k == Swap(level, old)
<1>1. /\ Sound(level, {}) /\ Below(level) /\ level \in Levels /\ level.max < LevelMax
      /\ bounds' = bounds /\ bounds \in Bounds /\ old # 0 /\ m # Nobody
      /\ duel' = m /\ watched \in Watched /\ watched' = [watched EXCEPT !.target = duel']
  BY DEF ListInv, Sound, SingleCombat
<1>2. PICK t \in {0, 1} :
          level' = compact_monsters([k EXCEPT !.target = t, !.health = Arena], <<>>)
  BY DEF SingleCombat
<1>3. old \in Slots /\ m \in Monsters
  <2>1. old \in Places /\ level.slot \in [Indices -> Monsters \cup {Nobody}]
    BY <1>1, LevelParts
  <2>2. old \in Slots /\ old \in Indices
    BY <1>1, <2>1, Sizes
  <2> QED
    BY <1>1, <2>1, <2>2
<1> DEFINE s == [k EXCEPT !.target = t, !.health = Arena]
<1> HIDE DEF old, k
<1>4. Swapped(k, level, old)
  BY <1>1, <1>3, Swaps DEF k
<1>5. SameBut(s, k) /\ s.max = k.max /\ s.target = t /\ s.health = Arena
  <2>1. k \in Levels /\ t \in Places /\ Arena \in Arena .. LevelMax - 1
    BY <1>4, Sizes DEF Swapped, Sound, Arena, Places
  <2>2. Looks(s, k, t, Arena)
    BY DEF Looks
  <2> HIDE DEF s
  <2> QED
    BY <2>1, <2>2, LookedAtBoth DEF Looking
<1>6. level' = compact_monsters(s, <<>>)
  BY <1>2
<1> HIDE DEF s, m
<1>7. Sound(s, {}) /\ Below(s) /\ s.slot = k.slot /\ s.slot[1] = m /\ Alive(s) = Alive(level)
  <2>1. Sound(s, {})
    BY <1>4, <1>5, SoundSame DEF Swapped
  <2>2. s.slot = k.slot
    BY <1>5 DEF SameBut
  <2>3. Below(s)
    BY <1>4, <1>5, <2>2 DEF Swapped, Below
  <2>4. Alive(s) = Alive(level)
    BY <1>4, <2>2 DEF Swapped, SameAlive, Alive
  <2> QED
    BY <1>4, <2>1, <2>2, <2>3, <2>4 DEF Swapped, m
<1>8. Compacted(level', s)
  BY <1>6, <1>7, HolesClosed
<1>9. level'.slot[1] = m
  BY <1>1, <1>7, <1>8 DEF Compacted, First
<1>10. Aimed(s)
  <2>1. ~(Arena > 0)
    BY DEF Arena
  <2> QED
    BY <1>1, <1>5, <1>7, <2>1 DEF Aimed
<1>11. /\ level'.target # 0 => level'.slot[level'.target] = m
       /\ ~(level'.health > 0)
  <2>1. ~(Arena > 0)
    BY DEF Arena
  <2>2. level'.target # 0 => s.target # 0 /\ level'.slot[level'.target] = s.slot[s.target]
    BY <1>8, <1>10 DEF Compacted, Follows
  <2>3. level'.health > 0 => s.health > 0
    BY <1>8, <1>10 DEF Compacted, Follows
  <2> QED
    BY <1>5, <1>7, <2>1, <2>2, <2>3
<1>12. Cardinality(Alive(level')) <= bounds.alive
  BY <1>7, <1>8, FewerFit DEF Compacted, SameAlive
<1>13. watched' \in Watched /\ watched'.target = m
  BY <1>1, <1>3 DEF Watched
<1> QED
  BY <1>1, <1>3, <1>8, <1>9, <1>11, <1>12, <1>13 DEF ListInv, Compacted

\* kill_arena_monster(): the first dies, who is the opponent.
LEMMA ArenaKeeps ==
    ASSUME ListInv, kill_arena_monster
    PROVE  ListInv'
<1> DEFINE m == level.slot[1]
           s == [level EXCEPT !.health = Arena]
           i == s.rec[m].midx
<1>1. /\ Sound(level, {}) /\ Below(level) /\ level \in Levels
      /\ m # Nobody /\ duel' = Nobody /\ bounds' = bounds /\ watched' = watched
      /\ level' = delete_monster_idx(s, m)
  BY DEF ListInv, Sound, kill_arena_monster
<1>2. Aimed(level) /\ ListInv
  BY DEF ListInv, Aimed
<1>3. m \in Alive(level)
  <2>1. 1 \in Indices
    BY Sizes DEF Indices
  <2> QED
    BY <1>1, <2>1 DEF Alive
<1>4. SameBut(s, level) /\ s.target = level.target /\ s.health = Arena /\ s.max = level.max
  <2>1. Arena \in Arena .. LevelMax - 1
    BY Sizes DEF Arena
  <2> QED
    BY <1>1, <2>1, LookedAtBar
<1> HIDE DEF m, s, i
<1>5. Sound(s, {}) /\ s.slot = level.slot /\ Alive(s) = Alive(level) /\ Below(s) /\ s \in Levels
  BY <1>1, <1>4, SoundSame DEF SameBut, Alive, Below
<1>6. Sound(level', {}) /\ Removed(level', s, m, i)
  BY <1>1, <1>3, <1>5, DeletedOne DEF i
<1>7. Follows(level', s) /\ Below(level')
  BY <1>5, <1>6, RemovedFollows
<1>8. Follows(s, level)
  <2>1. ~(Arena > 0)
    BY DEF Arena
  <2> QED
    BY <1>4, <1>5, <2>1 DEF Follows
<1>9. Follows(level', level)
  BY <1>7, <1>8, FollowsTwice
<1>10. Cardinality(Alive(level')) <= bounds.alive
  BY <1>5, <1>6, FewerFit DEF Removed
<1> QED
  BY <1>1, <1>2, <1>6, <1>7, <1>9, <1>10 DEF ListInv, Follows

-----------------------------------------------------------------------------
(* The theorems.                                                           *)

LEMMA ListStep == ListInv /\ [Next]_vars => ListInv'
<1> SUFFICES ASSUME ListInv, [Next]_vars PROVE ListInv'
  OBVIOUS
<1>1. CASE \E m \in Fresh : \E friends \in {<<>>} \cup {<<f>> : f \in (Fresh \ {m}) \ Uniques} :
              PlaceNew(m, friends)
  <2>1. PICK m \in Fresh : \E friends \in {<<>>} \cup {<<f>> : f \in (Fresh \ {m}) \ Uniques} :
                              PlaceNew(m, friends)
    BY <1>1, Zenon
  <2>2. PICK friends \in {<<>>} \cup {<<f>> : f \in (Fresh \ {m}) \ Uniques} : PlaceNew(m, friends)
    BY <2>1, Zenon
  <2>3. friends = <<>> \/ \E f \in Fresh \ {m} : friends = <<f>>
    BY <2>2, Zenon
  <2> QED
    BY <2>2, <2>3, PlaceNewKeeps
<1>2. CASE \E s \in Alive(level) \cap bounds.summoners :
              SummonFails(s) \/ \E m \in Fresh : Summon(s, m)
  BY <1>2, SummonKeeps, SummonFailsKeeps
<1>3. CASE \E m \in Alive(level) : Kill(m)
  BY <1>3, KillKeeps
<1>4. CASE \E m \in Alive(level) \cap bounds.looked : Target(m) \/ HealthTrack(m)
  BY <1>4, LookKeeps
<1>5. CASE process_world \/ Save \/ Load \/ wipe_mon_list
  BY <1>5, WorldKeeps, SaveKeeps, LoadKeeps, WipeKeeps, Zenon
<1>6. CASE SingleCombat \/ kill_arena_monster
  BY <1>6, CombatKeeps, ArenaKeeps, Zenon
<1>7. CASE UNCHANGED vars
  <2>1. level' = level /\ duel' = duel /\ watched' = watched /\ bounds' = bounds
    BY <1>7 DEF vars
  <2> QED
    BY <2>1 DEF ListInv
<1> QED
  BY <1>1, <1>2, <1>3, <1>4, <1>5, <1>6, <1>7, Zenon DEF Next

LEMMA ListAlways == Spec => []ListInv
  BY ListInit, ListStep, PTL DEF Spec

LEMMA InvTypes == ListInv => TypeOK
<1> SUFFICES ASSUME ListInv PROVE TypeOK
  OBVIOUS
<1>1. /\ level \in Levels /\ level.slot \in [Indices -> Monsters \cup {Nobody}]
      /\ level.max \in Indices /\ level.rec \in [Monsters -> Recs]
      /\ level.group \in [GroupIndices -> Groups]
      /\ level.target \in Places /\ level.health \in Arena .. LevelMax - 1
      /\ level.short \in 0 .. LevelMax
  BY LevelParts DEF ListInv, Sound
<1>2. ASSUME NEW m \in Monsters, NEW r, r = level.rec[m]
      PROVE  /\ {r.midx, r.square, r.object} \subseteq 0 .. LevelMax - 1
             /\ r.info \in Seq([index : 0 .. MaxGroups, role : Roles])
  <2>1. r \in Recs
    BY <1>1, <1>2
  <2>2. r.midx \in Places /\ r.square \in Places /\ r.object \in Places /\ r.info \in [1 .. 2 -> Infos]
    BY <2>1, RecTypes
  <2>3. r.info \in Seq(Infos)
    <3>1. 2 \in Nat /\ \A n \in Nat : [1 .. n -> Infos] \subseteq Seq(Infos)
      OBVIOUS
    <3> QED
      BY <2>2, <3>1
  <2> QED
    BY <2>2, <2>3 DEF Places, Infos
<1>3. ASSUME NEW g \in GroupIndices
      PROVE  level.group[g].leader \in Places /\ level.group[g].members \in Seq(Slots)
  BY <1>1, GroupTypes
<1> QED
  BY <1>1, <1>2, <1>3 DEF ListInv, TypeOK, Places, Slots

LEMMA InvIndices == ListInv => IndicesAgree
<1> SUFFICES ASSUME ListInv PROVE IndicesAgree
  OBVIOUS
<1>1. Indexed(level) /\ Below(level)
  BY DEF ListInv, Sound
<1> QED
  BY <1>1 DEF Indexed, Below, IndicesAgree

LEMMA InvTracking == ListInv => TrackingFollows
<1> SUFFICES ASSUME ListInv PROVE TrackingFollows
  OBVIOUS
<1>1. level.health \in Int
  BY LevelParts, Sizes DEF ListInv, Sound, Arena
<1> QED
  BY <1>1 DEF ListInv, TrackingFollows

\* From pairs of an index and a group to the sets of the property.
LEMMA InvGroups == ListInv => GroupsSurvive
<1> SUFFICES ASSUME ListInv PROVE GroupsSurvive
  OBVIOUS
<1>1. /\ level \in Levels /\ ~level.quit /\ level.group \in [GroupIndices -> Groups]
      /\ Kept(level.group, Joined(level) \ {}, Led(level) \ {})
      /\ Enough(level)
  BY LevelParts DEF ListInv, Sound
<1>2. ASSUME NEW g \in GroupIndices, NEW group, group = level.group[g]
      PROVE  /\ ToSet(group.members) = Listed(level, g)
             /\ Leads(level, g) = IF group = NoGroup THEN {} ELSE {group.leader}
  <2>1. group \in Groups /\ KeptGroup(group, g, Joined(level) \ {}, Led(level) \ {})
    BY <1>1, <1>2 DEF Kept, KeptIn
  <2>2. /\ ToSet(group.members) \subseteq Slots /\ group.leader \in Places
        /\ Slots \subseteq Indices /\ 0 \notin Indices
    BY <2>1, GroupTypes, Sizes
  <2>3. ASSUME NEW k \in Indices
        PROVE  /\ k \in Listed(level, g) <=> <<k, g>> \in Joined(level)
               /\ k \in Leads(level, g) <=> <<k, g>> \in Led(level)
    <3>1. /\ k \in Listed(level, g) <=>
                /\ level.slot[k] # Nobody
                /\ Info(level, level.slot[k], 1).index = g \/ Info(level, level.slot[k], 2).index = g
          /\ k \in Leads(level, g) <=>
                /\ level.slot[k] # Nobody
                /\ Info(level, level.slot[k], 1) = Leader(g) \/ Info(level, level.slot[k], 2) = Leader(g)
      BY DEF Listed, Leads, GroupOf, Info, Leader, Primary, Second
    <3> QED
      BY <3>1, Claims
  <2>4. \A k \in Indices : /\ k \in ToSet(group.members) <=> k \in Listed(level, g)
                           /\ k \in Leads(level, g) <=> k = group.leader
    BY <2>1, <2>3 DEF KeptGroup
  <2>5. Listed(level, g) \subseteq Indices /\ Leads(level, g) \subseteq Indices
    BY DEF Listed, Leads
  <2>6. ToSet(group.members) = Listed(level, g)
    BY <2>2, <2>4, <2>5
  <2>7. CASE group = NoGroup
    <3>1. group.leader \notin Indices
      BY <2>2, <2>7, GroupTypes
    <3> QED
      BY <2>4, <2>5, <2>6, <2>7, <3>1
  <2>8. CASE group # NoGroup
    <3>1. group.leader # 0
      BY <2>1, <2>8 DEF KeptGroup
    <3>2. group.leader \in Indices
      BY <2>2, <3>1, Sizes
    <3> QED
      BY <2>4, <2>5, <2>6, <2>8, <3>2
  <2> QED
    BY <2>7, <2>8
<1> QED
  BY <1>1, <1>2 DEF GroupsSurvive, Enough

\* The list, the records of the monsters, the groups and what the player looks at
\* have their types whatever monsters are placed, summoned, killed, compacted,
\* moved and loaded: no index is beyond c->monsters[] (place_monster() of
\* mon-make.c, monster_index_move()).
THEOREM TypeCorrect == Spec => []TypeOK
  BY ListAlways, InvTypes, PTL

\* Every live monster is below cave_monster_max(), its record, its square and its
\* objects say where it is in the list, and nothing is left of the dead, after any
\* delete_monster_idx(), monster_index_move(), compact_monsters() and swap of
\* effect_handler_SINGLE_COMBAT().
THEOREM IndicesAlwaysAgree == Spec => []IndicesAgree
  BY ListAlways, InvIndices, PTL

\* The target and the health bar never come to mean another monster than the one the
\* player chose, and the arena's monster is found again at the head of the list
\* (delete_monster_idx(), monster_index_move(), kill_arena_monster()).
THEOREM TrackingAlwaysFollows == Spec => []TrackingFollows
  BY ListAlways, InvTracking, PTL

\* For any number of monsters and any list, and with no assumption on how many groups
\* they need: until the code's LevelMax - 1 numbers run out, the groups list whom the
\* records put in them, each has one leader, who is alive, and no check of mon-group.c
\* ends the game, though leaders die, groups fall apart into new ones, monsters change
\* their index and the groups are rebuilt by monster_group_assign_loading().  And when
\* monster_group_index_new() finds no number, at least LevelMax / 2 monsters live.
THEOREM GroupsAlwaysSurvive == Spec => []GroupsSurvive
  BY ListAlways, InvGroups, PTL

\* What is saved, and what is stored when the player goes to the arena, has no holes:
\* the one pass of compact_monsters() from the last index to the first closes them
\* all, wherever the dead were, so that rd_monsters_aux() gives every monster the
\* index it had.
THEOREM SavedAlwaysWithoutHoles == Spec => SavedWithoutHoles
<1>1. ListInv /\ [Next]_vars =>
        [Save \/ SingleCombat => \A i \in 1 .. level'.max - 1 : level'.slot[i] # Nobody]_vars
  <2> SUFFICES ASSUME ListInv, Save \/ SingleCombat, NEW i \in 1 .. level'.max - 1
               PROVE  level'.slot[i] # Nobody
    OBVIOUS
  <2>1. ListInv' /\ Packed(level')
    BY SaveKeeps, CombatKeeps
  <2>2. level'.max \in Indices
    BY <2>1, LevelParts DEF ListInv, Sound
  <2>3. i \in Indices /\ i < level'.max
    BY <2>2, Sizes DEF Indices
  <2> QED
    BY <2>1, <2>3 DEF Packed
<1> QED
  BY <1>1, ListAlways, PTL DEF Spec, SavedWithoutHoles
=============================================================================
