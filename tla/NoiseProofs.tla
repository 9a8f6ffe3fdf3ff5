------------------------------ MODULE NoiseProofs ------------------------------
(***************************************************************************)
(* Proofs about Noise, for levels of every size and shape and every range  *)
(* of hearing.                                                             *)
(***************************************************************************)
EXTENDS Noise, NatRecursion, SequenceTheorems, FiniteSetTheorems

-----------------------------------------------------------------------------
(* What a flood is, and what one grid changes of it.                       *)

LevelOK == floor \subseteq Grids /\ player \in floor

Noises == [Grids -> 0 .. MaxHearing]
Floods == [noise : Noises, queue : Seq(floor), pushes : Nat]
FloodOf(noises, queue, n) == [noise |-> noises, queue |-> queue, pushes |-> n]

LEMMA Sizes ==
    /\ Height \in Nat /\ Height > 0 /\ Width \in Nat /\ Width > 0
    /\ MaxHearing \in Nat /\ MaxHearing > 0
  BY SizeAssumption

LEMMA FloodTypes ==
    /\ \A f \in Floods : /\ f.noise \in Noises /\ f.queue \in Seq(floor) /\ f.pushes \in Nat
                         /\ f = FloodOf(f.noise, f.queue, f.pushes)
    /\ \A noises \in Noises : \A queue \in Seq(floor) : \A n \in Nat :
          /\ FloodOf(noises, queue, n) \in Floods
          /\ FloodOf(noises, queue, n).noise = noises
          /\ FloodOf(noises, queue, n).queue = queue
          /\ FloodOf(noises, queue, n).pushes = n
  BY DEF Floods, FloodOf

LEMMA NoiseTypes ==
    ASSUME NEW m \in Noises
    PROVE  \A k \in Grids : m[k] \in Nat /\ m[k] <= MaxHearing
  BY Sizes DEF Noises

\* The grid k has no noise yet and is to get some.
Silent(f, k) == k \in floor /\ k # player /\ f.noise[k] = 0

LEMMA ListenEffect ==
    ASSUME LevelOK, NEW f \in Floods, NEW n \in 0 .. MaxHearing, NEW k
    PROVE  LET r == Listen(f, k, n)
           IN  /\ r \in Floods
               /\ ~Silent(f, k) => r = f
               /\ Silent(f, k) => /\ k \in Grids /\ r.noise[k] = n
                                  /\ \A x \in Grids \ {k} : r.noise[x] = f.noise[x]
                                  /\ r.queue = Append(f.queue, k)
                                  /\ r.pushes = f.pushes + 1
<1> DEFINE r == Listen(f, k, n)
           m == [f.noise EXCEPT ![k] = n]
           w == Append(f.queue, k)
<1>1. f.noise \in Noises /\ f.queue \in Seq(floor) /\ f.pushes \in Nat
  BY FloodTypes
<1>2. CASE ~Silent(f, k)
  BY <1>2 DEF Listen, Silent
<1>3. CASE Silent(f, k)
  <2>1. k \in floor /\ k \in Grids
    BY <1>3 DEF Silent, LevelOK
  <2>2. m \in Noises /\ m[k] = n /\ \A x \in Grids \ {k} : m[x] = f.noise[x]
    BY <1>1, <2>1 DEF Noises
  <2>3. w \in Seq(floor) /\ f.pushes + 1 \in Nat
    BY <1>1, <2>1, AppendProperties
  <2>4. r = FloodOf(m, w, f.pushes + 1)
    BY <1>3 DEF Listen, Silent, FloodOf
  <2> HIDE DEF r, m, w
  <2>5. r \in Floods /\ r.noise = m /\ r.queue = w /\ r.pushes = f.pushes + 1
    BY <2>2, <2>3, <2>4, FloodTypes
  <2> QED
    BY <1>3, <2>1, <2>2, <2>5 DEF r, w
<1> QED
  BY <1>2, <1>3

-----------------------------------------------------------------------------
(* The loop over the grids around, turn by turn.                           *)

Rounds(after, f, g, n) ==
    /\ after \in [0 .. 8 -> Floods] /\ after[0] = f
    /\ \A d \in 1 .. 8 : after[d] = Listen(after[d - 1], Beside(g, d), n)

LEMMA SpreadLoop ==
    ASSUME LevelOK, NEW f \in Floods, NEW g, NEW n \in 0 .. MaxHearing
    PROVE  \E after : Rounds(after, f, g, n) /\ Spread(f, g, n) = after[8]
<1> DEFINE N == 8
           Turn(d, s) == Listen(s, Beside(g, d), n)
           step == [p \in (1 .. N) \X Floods |-> Turn(p[1], p[2])]
<1>2. \A d \in 1 .. N : \A s \in Floods : Turn(d, s) \in Floods
  BY ListenEffect
<1> HIDE DEF Turn
<1>3. \A d \in 1 .. N : \A s \in Floods : step[<<d, s>>] = Turn(d, s)
  OBVIOUS
<1> HIDE DEF step
<1>4. Closed(step, N, Floods)
  BY <1>2, <1>3 DEF Closed
<1>6. PICK h : Runs(h, step, N, Floods, f)
  <2>1. N \in Nat
    OBVIOUS
  <2> HIDE DEF N
  <2> QED
    BY <1>4, <2>1, BoundedRecursion
<1>7. h \in [0 .. N -> Floods] /\ h[0] = f
  BY <1>6 DEF Runs
<1>8. ASSUME NEW d \in 1 .. N PROVE h[d] = Turn(d, h[d - 1])
  <2>1. h[d - 1] \in Floods
    BY <1>7
  <2> QED
    BY <1>3, <1>6, <2>1 DEF Runs
<1>9. Rounds(h, f, g, n)
  BY <1>7, <1>8 DEF Rounds, Turn
<1> DEFINE body(after, d) == IF d = 0 THEN f ELSE Listen(after[d - 1], Beside(g, d), n)
           chosen == CHOOSE after : after = [d \in 0 .. N |-> body(after, d)]
<1>0. ASSUME NEW after
      PROVE  body(after, 0) = f /\ \A d \in 1 .. N : body(after, d) = Turn(d, after[d - 1])
  <2>1. \A d \in 1 .. N : d # 0
    OBVIOUS
  <2> QED
    BY <2>1, Zenon DEF Turn
<1>12. Spread(f, g, n) = chosen[8]
  BY Zenon DEF Spread
<1> HIDE DEF body
<1>10. h = [d \in 0 .. N |-> body(h, d)]
  <2>1. ASSUME NEW d \in 0 .. N PROVE h[d] = body(h, d)
    <3>1. d = 0 \/ d \in 1 .. N
      OBVIOUS
    <3> QED
      BY <1>0, <1>7, <1>8, <3>1, Zenon
  <2> QED
    BY <1>7, <2>1, Zenon
<1>11. chosen = [d \in 0 .. N |-> body(chosen, d)]
  BY <1>10, Zenon
<1> HIDE DEF chosen
<1>13. chosen[0] = f /\ \A d \in 1 .. N : chosen[d] = Turn(d, chosen[d - 1])
  <2>1. 0 \in 0 .. N /\ \A d \in 1 .. N : d \in 0 .. N
    OBVIOUS
  <2>2. \A d \in 0 .. N : chosen[d] = body(chosen, d)
    BY <1>11
  <2> HIDE DEF N
  <2> QED
    BY <1>0, <2>1, <2>2, Zenon
<1> DEFINE A == {d \in Nat : d <= N => chosen[d] = h[d]}
<1>14. 0 \in A
  BY <1>7, <1>13
<1>15. ASSUME NEW d \in Nat, d \in A, d + 1 <= N PROVE chosen[d + 1] = h[d + 1]
  <2>1. d + 1 \in 1 .. N /\ (d + 1) - 1 = d /\ chosen[d] = h[d]
    BY <1>15
  <2> QED
    BY <1>8, <1>13, <2>1
<1>16. \A d \in Nat : d \in A => d + 1 \in A
  BY <1>15
<1> HIDE DEF A
<1>17. chosen[N] = h[N]
  <2>1. N \in A
    BY <1>14, <1>16, SetInduction
  <2> QED
    BY <2>1 DEF A
<1> QED
  BY <1>9, <1>12, <1>17

-----------------------------------------------------------------------------
(* The grids that have been reached are as many as have been pushed.       *)

Heard(f) == {k \in Grids : f.noise[k] > 0}

Basic(f) ==
    /\ f \in Floods
    /\ Heard(f) \subseteq floor \ {player}
    /\ f.pushes = 1 + Cardinality(Heard(f))

\* Each push leaves a grid in the queue.
SamePending(r, f) == Len(r.queue) - r.pushes = Len(f.queue) - f.pushes

LEMMA GridsFinite ==
    /\ IsFiniteSet(Grids) /\ Cardinality(Grids) = Height * Width
    /\ \A S \in SUBSET Grids : IsFiniteSet(S) /\ Cardinality(S) \in Nat
<1>1. IsFiniteSet(1 .. Height) /\ Cardinality(1 .. Height) = Height
  BY Sizes, FS_Interval
<1>2. IsFiniteSet(1 .. Width) /\ Cardinality(1 .. Width) = Width
  BY Sizes, FS_Interval
<1>3. IsFiniteSet(Grids) /\ Cardinality(Grids) = Height * Width
  <2> DEFINE R == 1 .. Height
             C == 1 .. Width
  <2>1. IsFiniteSet(R) /\ IsFiniteSet(C) /\ Cardinality(R) = Height /\ Cardinality(C) = Width
    BY <1>1, <1>2
  <2>2. Grids = R \X C
    BY DEF Grids
  <2> HIDE DEF R, C
  <2>3. IsFiniteSet(R \X C) /\ Cardinality(R \X C) = Cardinality(R) * Cardinality(C)
    BY <2>1, FS_Product
  <2> QED
    BY <2>1, <2>2, <2>3, Zenon
<1> QED
  BY <1>3, FS_Subset, FS_CardinalityType

LEMMA ListenBasic ==
    ASSUME LevelOK, NEW f, Basic(f), NEW n \in 1 .. MaxHearing, NEW k
    PROVE  Basic(Listen(f, k, n)) /\ SamePending(Listen(f, k, n), f)
<1> DEFINE r == Listen(f, k, n)
<1>1. f \in Floods /\ n \in 0 .. MaxHearing /\ n > 0
  BY Sizes DEF Basic
<1>2. CASE ~Silent(f, k)
  <2>1. r = f
    BY <1>1, <1>2, ListenEffect
  <2> QED
    BY <2>1 DEF SamePending
<1>3. CASE Silent(f, k)
  <2>1. /\ r \in Floods /\ k \in Grids /\ r.noise[k] = n
        /\ \A x \in Grids \ {k} : r.noise[x] = f.noise[x]
        /\ r.queue = Append(f.queue, k) /\ r.pushes = f.pushes + 1
    BY <1>1, <1>3, ListenEffect
  <2> HIDE DEF r
  <2>2. Heard(r) = Heard(f) \cup {k} /\ k \notin Heard(f)
    BY <1>1, <1>3, <2>1 DEF Heard, Silent
  <2>3. Heard(f) \subseteq Grids /\ IsFiniteSet(Heard(f)) /\ Cardinality(Heard(f)) \in Nat
    BY GridsFinite DEF Heard
  <2>4. Cardinality(Heard(r)) = Cardinality(Heard(f)) + 1
    BY <2>2, <2>3, FS_AddElement
  <2>5. k \in floor \ {player} /\ Heard(f) \subseteq floor \ {player}
    BY <1>3 DEF Basic, Silent
  <2>6. f.pushes = 1 + Cardinality(Heard(f)) /\ f.queue \in Seq(floor)
    BY FloodTypes DEF Basic
  <2>7. Len(r.queue) = Len(f.queue) + 1 /\ Len(f.queue) \in Nat
    BY <2>1, <2>5, <2>6, AppendProperties, LenProperties
  <2>8. r.pushes = 1 + Cardinality(Heard(r))
    BY <2>1, <2>3, <2>4, <2>6
  <2>9. Basic(r)
    BY <2>1, <2>2, <2>5, <2>8 DEF Basic
  <2>10. SamePending(r, f)
    <3> DEFINE wait == Len(f.queue)
               done == f.pushes
               longer == Len(r.queue)
               more == r.pushes
    <3>1. wait \in Nat /\ done \in Nat /\ longer = wait + 1 /\ more = done + 1
      BY <2>1, <2>3, <2>6, <2>7
    <3> HIDE DEF wait, done, longer, more
    <3>2. longer - more = wait - done
      BY <3>1
    <3> QED
      BY <3>2 DEF SamePending, wait, done, longer, more
  <2> QED
    BY <2>9, <2>10 DEF r
<1> QED
  BY <1>2, <1>3

LEMMA SpreadBasic ==
    ASSUME LevelOK, NEW f, Basic(f), NEW n \in 1 .. MaxHearing, NEW g
    PROVE  Basic(Spread(f, g, n)) /\ SamePending(Spread(f, g, n), f)
<1>1. f \in Floods /\ n \in 0 .. MaxHearing
  BY Sizes DEF Basic
<1>2. PICK after : Rounds(after, f, g, n) /\ Spread(f, g, n) = after[8]
  BY <1>1, SpreadLoop
<1> DEFINE A == {d \in Nat : d <= 8 => Basic(after[d]) /\ SamePending(after[d], f)}
<1>3. 0 \in A
  BY <1>2 DEF Rounds, SamePending
<1>4. ASSUME NEW d \in Nat, d \in A, d + 1 <= 8
      PROVE  Basic(after[d + 1]) /\ SamePending(after[d + 1], f)
  <2>1. d + 1 \in 1 .. 8 /\ (d + 1) - 1 = d
    BY <1>4
  <2>2. after[d + 1] = Listen(after[d], Beside(g, d + 1), n)
    BY <1>2, <2>1 DEF Rounds
  <2>3. Basic(after[d]) /\ SamePending(after[d], f)
    BY <1>4
  <2> QED
    BY <2>2, <2>3, ListenBasic DEF SamePending
<1>5. \A d \in Nat : d \in A => d + 1 \in A
  BY <1>4
<1> HIDE DEF A
<1>6. 8 \in A
  BY <1>3, <1>5, SetInduction
<1> QED
  BY <1>2, <1>6 DEF A

\* A round takes a grid off the queue, and what it reaches comes to its end.
Rest(f) == [f EXCEPT !.queue = Tail(@)]

LEMMA RestTypes ==
    ASSUME LevelOK, NEW f \in Floods, f.queue # <<>>
    PROVE  /\ Head(f.queue) \in floor /\ Head(f.queue) \in Grids
           /\ Rest(f) \in Floods /\ Rest(f).noise = f.noise
           /\ Rest(f).queue = Tail(f.queue) /\ Rest(f).pushes = f.pushes
           /\ Len(f.queue) \in Nat /\ Len(Tail(f.queue)) = Len(f.queue) - 1
           /\ f.queue[1] = Head(f.queue)
           /\ \A i \in 1 .. Len(f.queue) - 1 : Tail(f.queue)[i] = f.queue[i + 1]
<1>1. f.noise \in Noises /\ f.queue \in Seq(floor) /\ f.pushes \in Nat
  BY FloodTypes
<1>2. Rest(f) = FloodOf(f.noise, Tail(f.queue), f.pushes)
  <2>1. f = FloodOf(f.noise, f.queue, f.pushes)
    BY FloodTypes
  <2> QED
    BY <2>1 DEF Rest, FloodOf
<1>3. Tail(f.queue) \in Seq(floor) /\ Head(f.queue) \in floor
  BY <1>1, HeadTailProperties
<1>4. /\ Rest(f) \in Floods /\ Rest(f).noise = f.noise
      /\ Rest(f).queue = Tail(f.queue) /\ Rest(f).pushes = f.pushes
  <2> DEFINE m == f.noise
             q == Tail(f.queue)
             p == f.pushes
  <2>1. Rest(f) = FloodOf(m, q, p) /\ m \in Noises /\ q \in Seq(floor) /\ p \in Nat
    BY <1>1, <1>2, <1>3
  <2> HIDE DEF m, q, p
  <2>2. FloodOf(m, q, p) \in Floods /\ FloodOf(m, q, p).noise = m
        /\ FloodOf(m, q, p).queue = q /\ FloodOf(m, q, p).pushes = p
    BY <2>1, FloodTypes
  <2> QED
    BY <2>1, <2>2, Zenon DEF m, q, p
<1>5. /\ Len(f.queue) \in Nat /\ Len(Tail(f.queue)) = Len(f.queue) - 1
      /\ f.queue[1] = Head(f.queue)
      /\ \A i \in 1 .. Len(f.queue) - 1 : Tail(f.queue)[i] = f.queue[i + 1]
  BY <1>1
<1> QED
  BY <1>3, <1>4, <1>5 DEF LevelOK

LEMMA PopFloods ==
    ASSUME LevelOK, NEW f \in Floods, f.queue # <<>>, NEW inc \in Nat
    PROVE  Pop(f, inc) \in Floods
<1> DEFINE g == Head(f.queue)
           n == f.noise[g] + inc
<1>1. Rest(f) \in Floods /\ f.noise \in Noises /\ g \in Grids
  BY RestTypes, FloodTypes
<1>2. n \in Nat
  BY <1>1, NoiseTypes
<1>3. Pop(f, inc) = IF n < MaxHearing THEN Spread(Rest(f), g, n) ELSE Rest(f)
  BY DEF Pop, Rest
<1> HIDE DEF n, g
<1>4. CASE n < MaxHearing
  <2>1. n \in 0 .. MaxHearing
    BY <1>2, <1>4, Sizes
  <2>2. PICK after : Rounds(after, Rest(f), g, n) /\ Spread(Rest(f), g, n) = after[8]
    BY <1>1, <2>1, SpreadLoop
  <2>3. after[8] \in Floods
    BY <2>2 DEF Rounds
  <2> QED
    BY <1>3, <1>4, <2>2, <2>3
<1> QED
  BY <1>1, <1>3, <1>4

LEMMA PopBasic ==
    ASSUME LevelOK, NEW f, Basic(f), f.queue # <<>>, NEW inc \in Nat, inc > 0
    PROVE  /\ Basic(Pop(f, inc))
           /\ SamePending(Pop(f, inc), Rest(f))
           /\ Len(Rest(f).queue) - Rest(f).pushes = Len(f.queue) - f.pushes - 1
<1> DEFINE g == Head(f.queue)
           n == f.noise[g] + inc
<1>0. f \in Floods
  BY DEF Basic
<1>1. /\ Rest(f) \in Floods /\ f.noise \in Noises /\ g \in Grids
      /\ Rest(f).noise = f.noise /\ Rest(f).pushes = f.pushes /\ f.pushes \in Nat
      /\ Len(Rest(f).queue) = Len(f.queue) - 1 /\ Len(f.queue) \in Nat
  BY <1>0, RestTypes, FloodTypes
<1>2. n \in Nat /\ n > 0
  BY <1>1, NoiseTypes
<1>3. Pop(f, inc) = IF n < MaxHearing THEN Spread(Rest(f), g, n) ELSE Rest(f)
  BY DEF Pop, Rest
<1> HIDE DEF n, g
<1>4. Basic(Rest(f))
  BY <1>1 DEF Basic, Heard
<1>5. Len(Rest(f).queue) - Rest(f).pushes = Len(f.queue) - f.pushes - 1
  BY <1>1
<1>6. CASE n < MaxHearing
  <2>1. n \in 1 .. MaxHearing
    BY <1>2, <1>6, Sizes
  <2> QED
    BY <1>3, <1>4, <1>5, <1>6, <2>1, SpreadBasic
<1>7. CASE ~(n < MaxHearing)
  BY <1>3, <1>4, <1>5, <1>7 DEF SamePending
<1> QED
  BY <1>6, <1>7

-----------------------------------------------------------------------------
(* The flood, round by round.                                              *)

Round(s, inc) == IF s.queue = <<>> THEN s ELSE Pop(s, inc)
Floodings(after, source, inc) ==
    /\ after \in [0 .. MaxRounds -> Floods] /\ after[0] = Quiet(source)
    /\ \A r \in 1 .. MaxRounds : after[r] = Round(after[r - 1], inc)

LEMMA QuietBasic ==
    ASSUME LevelOK, NEW source \in floor
    PROVE  /\ Basic(Quiet(source)) /\ Quiet(source).noise = Silence
           /\ Quiet(source).queue = <<source>>
           /\ Len(Quiet(source).queue) = Quiet(source).pushes
<1>1. Silence \in Noises /\ \A k \in Grids : Silence[k] = 0
  BY Sizes DEF Silence, Noises
<1>2. <<source>> \in Seq(floor) /\ Len(<<source>>) = 1
  OBVIOUS
<1>3. Quiet(source) = FloodOf(Silence, <<source>>, 1)
  BY DEF Quiet, FloodOf
<1> DEFINE q == <<source>>
<1> HIDE DEF q
<1>4. /\ Quiet(source) \in Floods /\ Quiet(source).noise = Silence
      /\ Quiet(source).queue = q /\ Quiet(source).pushes = 1
  <2>1. /\ Silence \in Noises /\ q \in Seq(floor) /\ 1 \in Nat
        /\ Quiet(source) = FloodOf(Silence, q, 1)
    BY <1>1, <1>2, <1>3 DEF q
  <2> QED
    BY <2>1, FloodTypes
<1>5. Heard(Quiet(source)) = {}
  BY <1>1, <1>4 DEF Heard
<1>6. Cardinality({}) = 0
  BY FS_EmptySet
<1> QED
  BY <1>2, <1>4, <1>5, <1>6 DEF Basic, q

LEMMA FloodLoop ==
    ASSUME LevelOK, NEW source \in floor, NEW inc \in Nat
    PROVE  \E after : Floodings(after, source, inc) /\ Flood(source, inc) = after[MaxRounds]
<1> DEFINE N == MaxRounds
           Turn(s) == Round(s, inc)
           step == [p \in (1 .. N) \X Floods |-> Turn(p[2])]
           base == Quiet(source)
<1>1. N \in Nat /\ N > 0
  BY Sizes DEF MaxRounds
<1>2. base \in Floods /\ \A s \in Floods : Turn(s) \in Floods
  BY PopFloods, QuietBasic DEF Round, Basic
<1> HIDE DEF Turn, base
<1>3. \A r \in 1 .. N : \A s \in Floods : step[<<r, s>>] = Turn(s)
  OBVIOUS
<1> HIDE DEF step, N
<1>4. Closed(step, N, Floods)
  BY <1>2, <1>3 DEF Closed
<1>6. PICK h : Runs(h, step, N, Floods, base)
  BY <1>1, <1>2, <1>4, BoundedRecursion
<1>7. h \in [0 .. N -> Floods] /\ h[0] = base
  BY <1>6 DEF Runs
<1>8. ASSUME NEW r \in 1 .. N PROVE h[r] = Turn(h[r - 1])
  <2>1. h[r - 1] \in Floods
    BY <1>1, <1>7
  <2> QED
    BY <1>3, <1>6, <2>1 DEF Runs
<1>9. Floodings(h, source, inc)
  BY <1>7, <1>8 DEF Floodings, Turn, N, base
<1> DEFINE body(after, r) == IF r = 0 THEN Quiet(source)
                             ELSE LET f == after[r - 1]
                                  IN  IF f.queue = <<>> THEN f ELSE Pop(f, inc)
           chosen == CHOOSE after : after = [r \in 0 .. N |-> body(after, r)]
<1>0. ASSUME NEW after
      PROVE  body(after, 0) = base /\ \A r \in 1 .. N : body(after, r) = Turn(after[r - 1])
  <2>1. \A r \in 1 .. N : r # 0
    BY <1>1
  <2> QED
    BY <2>1, Zenon DEF Turn, Round, base
<1>12. Flood(source, inc) = chosen[N]
  BY Zenon DEF Flood, N
<1> HIDE DEF body
<1>10. h = [r \in 0 .. N |-> body(h, r)]
  <2>1. ASSUME NEW r \in 0 .. N PROVE h[r] = body(h, r)
    <3>1. r = 0 \/ r \in 1 .. N
      BY <1>1
    <3> QED
      BY <1>0, <1>7, <1>8, <3>1, Zenon
  <2> QED
    BY <1>7, <2>1, Zenon
<1>11. chosen = [r \in 0 .. N |-> body(chosen, r)]
  BY <1>10, Zenon
<1> HIDE DEF chosen
<1>13. chosen[0] = base /\ \A r \in 1 .. N : chosen[r] = Turn(chosen[r - 1])
  <2>1. 0 \in 0 .. N /\ \A r \in 1 .. N : r \in 0 .. N
    BY <1>1
  <2>2. \A r \in 0 .. N : chosen[r] = body(chosen, r)
    BY <1>11
  <2> QED
    BY <1>0, <2>1, <2>2, Zenon
<1> DEFINE A == {r \in Nat : r <= N => chosen[r] = h[r]}
<1>14. 0 \in A
  BY <1>7, <1>13
<1>15. ASSUME NEW r \in Nat, r \in A, r + 1 <= N PROVE chosen[r + 1] = h[r + 1]
  <2>1. r + 1 \in 1 .. N /\ (r + 1) - 1 = r /\ chosen[r] = h[r]
    BY <1>1, <1>15
  <2> QED
    BY <1>8, <1>13, <2>1
<1>16. \A r \in Nat : r \in A => r + 1 \in A
  BY <1>15
<1> HIDE DEF A
<1>17. chosen[N] = h[N]
  <2>1. N \in A
    BY <1>1, <1>14, <1>16, SetInduction
  <2> QED
    BY <1>1, <2>1 DEF A
<1> QED
  BY <1>9, <1>12, <1>17 DEF N

\* No flood pushes more grids than there are.
LEMMA FewPushes ==
    ASSUME LevelOK, NEW f, Basic(f) PROVE f.pushes \in 1 .. Height * Width
<1>1. Heard(f) \subseteq Grids \ {player} /\ player \in Grids
  BY DEF Basic, LevelOK
<1>2. Cardinality(Grids \ {player}) = Cardinality(Grids) - 1 /\ IsFiniteSet(Grids \ {player})
  BY <1>1, GridsFinite, FS_RemoveElement
<1>3. Cardinality(Heard(f)) <= Cardinality(Grids \ {player}) /\ Cardinality(Heard(f)) \in Nat
  BY <1>1, <1>2, FS_Subset, FS_CardinalityType
<1> DEFINE area == Height * Width
<1>4. area \in Nat /\ Cardinality(Grids) = area
  BY GridsFinite
<1> HIDE DEF area
<1>5. f.pushes = 1 + Cardinality(Heard(f))
  BY DEF Basic
<1>6. f.pushes \in 1 .. area
  BY <1>2, <1>3, <1>4, <1>5
<1> QED
  BY <1>6 DEF area

\* After r rounds what has been pushed has been popped but for what is in the queue.
LEMMA FloodBasic ==
    ASSUME LevelOK, NEW source \in floor, NEW inc \in Nat, inc > 0,
           NEW after, Floodings(after, source, inc)
    PROVE  \A r \in 0 .. MaxRounds :
               /\ Basic(after[r])
               /\ after[r].queue = <<>> \/ Len(after[r].queue) + r = after[r].pushes
<1> DEFINE Good(r) == /\ Basic(after[r])
                      /\ after[r].queue = <<>> \/ Len(after[r].queue) + r = after[r].pushes
           A == {r \in Nat : r <= MaxRounds => Good(r)}
<1>1. 0 \in A
  <2>1. after[0] = Quiet(source)
    BY DEF Floodings
  <2>2. Basic(Quiet(source)) /\ Len(Quiet(source).queue) = Quiet(source).pushes
    BY QuietBasic
  <2>3. Quiet(source).pushes = 1
    BY DEF Quiet
  <2>4. Good(0)
    BY <2>1, <2>2, <2>3
  <2> QED
    BY <2>4
<1>2. ASSUME NEW r \in Nat, r \in A, r + 1 <= MaxRounds PROVE Good(r + 1)
  <2>1. MaxRounds \in Nat
    BY Sizes DEF MaxRounds
  <2>2. r + 1 \in 1 .. MaxRounds /\ (r + 1) - 1 = r /\ Good(r)
    BY <1>2, <2>1
  <2>3. after[r + 1] = Round(after[r], inc)
    BY <2>2 DEF Floodings
  <2> DEFINE f == after[r]
             w == after[r + 1]
  <2>4. Basic(f) /\ (f.queue = <<>> \/ Len(f.queue) + r = f.pushes)
    BY <2>2
  <2>5. w = Round(f, inc)
    BY <2>3
  <2> HIDE DEF f, w
  <2>6. CASE f.queue = <<>>
    <3>1. w = f
      BY <2>5, <2>6 DEF Round
    <3> QED
      BY <2>4, <2>6, <3>1 DEF w
  <2>7. CASE f.queue # <<>>
    <3>1. w = Pop(f, inc) /\ Len(f.queue) + r = f.pushes
      BY <2>4, <2>5, <2>7 DEF Round
    <3>2. /\ Basic(w) /\ SamePending(w, Rest(f))
          /\ Len(Rest(f).queue) - Rest(f).pushes = Len(f.queue) - f.pushes - 1
      BY <2>4, <2>7, <3>1, PopBasic
    <3>3. Len(w.queue) - w.pushes = Len(f.queue) - f.pushes - 1
      BY <3>2 DEF SamePending
    <3>4. /\ Len(w.queue) \in Nat /\ w.pushes \in Nat
          /\ Len(f.queue) \in Nat /\ f.pushes \in Nat
      BY <2>4, <3>2, FloodTypes, LenProperties DEF Basic
    <3> DEFINE a == Len(w.queue)
               b == w.pushes
               c == Len(f.queue)
               d == f.pushes
    <3>5. a - b = c - d - 1 /\ c + r = d /\ a \in Nat /\ b \in Nat /\ c \in Nat /\ d \in Nat
      BY <3>1, <3>3, <3>4
    <3> HIDE DEF a, b, c, d
    <3>7. a + (r + 1) = b
      BY <3>5
    <3>6. Len(w.queue) + (r + 1) = w.pushes
      BY <3>7 DEF a, b
    <3> QED
      BY <3>2, <3>6 DEF w
  <2> QED
    BY <2>6, <2>7
<1> HIDE DEF Good
<1>3. \A r \in Nat : r \in A => r + 1 \in A
  BY <1>2
<1>4. \A r \in Nat : r \in A
  <2> HIDE DEF A
  <2> QED
    BY <1>1, <1>3, SetInduction
<1>5. ASSUME NEW r \in 0 .. MaxRounds PROVE Good(r)
  <2>1. r \in Nat /\ r <= MaxRounds
    BY Sizes DEF MaxRounds
  <2> QED
    BY <1>4, <2>1
<1> QED
  BY <1>5 DEF Good

\* The rounds suffice: in the end nothing waits.
LEMMA FloodEnds ==
    ASSUME LevelOK, NEW source \in floor, NEW inc \in Nat, inc > 0,
           NEW after, Floodings(after, source, inc)
    PROVE  Basic(after[MaxRounds]) /\ after[MaxRounds].queue = <<>>
<1> DEFINE f == after[MaxRounds]
<1>1. MaxRounds \in 0 .. MaxRounds /\ MaxRounds = Height * Width + 2
  BY Sizes DEF MaxRounds
<1>2. Basic(f) /\ (f.queue = <<>> \/ Len(f.queue) + MaxRounds = f.pushes)
  BY <1>1, FloodBasic
<1>3. f.pushes \in 1 .. Height * Width
  BY <1>2, FewPushes
<1>4. Len(f.queue) \in Nat
  BY <1>2, FloodTypes, LenProperties DEF Basic
<1> DEFINE area == Height * Width
<1>5. area \in Nat /\ MaxRounds = area + 2 /\ f.pushes \in 1 .. area
  BY <1>1, <1>3, Sizes
<1> HIDE DEF area, f
<1>6. ASSUME NEW l \in Nat, NEW p \in 1 .. area PROVE l + (area + 2) # p
  BY <1>5
<1>7. Len(f.queue) + MaxRounds # f.pushes
  BY <1>4, <1>5, <1>6
<1> QED
  BY <1>2, <1>7 DEF f

-----------------------------------------------------------------------------
(* Types, and the room in the queue.                                       *)

\* A noise that has been made was made at a grid of the level, loudly or softly.
TypeInv ==
    /\ LevelOK
    /\ covertracks \in BOOLEAN /\ noise \in Noises
    /\ IF noise_grid = NoGrid THEN noise_falloff = 0
       ELSE noise_grid \in floor /\ noise_falloff \in {1, 4}
    /\ pushes \in 0 .. Height * Width

LEMMA SilenceTypes == Silence \in Noises /\ 0 \in 0 .. Height * Width
  BY Sizes DEF Silence, Noises

LEMMA NoiseMade ==
    ASSUME LevelOK, NEW source \in floor, NEW inc \in {1, 4}, make_noise(source, inc)
    PROVE  /\ noise_grid' = source /\ noise_falloff' = inc
           /\ noise' \in Noises /\ pushes' \in 0 .. Height * Width
<1>1. inc \in Nat /\ inc > 0
  OBVIOUS
<1>2. PICK after : Floodings(after, source, inc) /\ Flood(source, inc) = after[MaxRounds]
  BY <1>1, FloodLoop
<1> DEFINE f == Flood(source, inc)
<1>3. noise_grid' = source /\ noise_falloff' = inc /\ noise' = f.noise /\ pushes' = f.pushes
  BY DEF make_noise
<1>4. Basic(f)
  BY <1>1, <1>2, FloodEnds
<1> HIDE DEF f
<1>5. f.noise \in Noises /\ f.pushes \in 1 .. Height * Width
  BY <1>4, FewPushes, FloodTypes DEF Basic
<1>6. pushes' \in 0 .. Height * Width
  <2> DEFINE area == Height * Width
  <2>1. f.pushes \in 1 .. area /\ area \in Nat
    BY <1>5, Sizes
  <2> HIDE DEF area
  <2>2. f.pushes \in 0 .. area
    BY <2>1
  <2> QED
    BY <1>3, <2>2 DEF area
<1> QED
  BY <1>3, <1>5, <1>6

LEMMA TypeInit == Init => TypeInv
  BY SilenceTypes DEF Init, TypeInv, LevelOK

LEMMA TypeStep == TypeInv /\ [Next]_vars => TypeInv'
<1> SUFFICES ASSUME TypeInv, [Next]_vars PROVE TypeInv'
  OBVIOUS
<1>0. LevelOK
  BY DEF TypeInv
<1>1. CASE UNCHANGED vars
  BY <1>1 DEF vars, TypeInv, LevelOK
<1>2. CASE Move
  BY <1>2 DEF Move, TypeInv, LevelOK
<1>3. CASE CoverTracks
  BY <1>3 DEF CoverTracks, TypeInv, LevelOK
<1>4. ASSUME NEW source \in floor, NEW inc \in {1, 4}, make_noise(source, inc),
             UNCHANGED <<floor, player, covertracks>>
      PROVE  TypeInv'
  <2>1. /\ noise_grid' = source /\ noise_falloff' = inc
        /\ noise' \in Noises /\ pushes' \in 0 .. Height * Width
    BY <1>0, <1>4, NoiseMade
  <2>2. source # NoGrid
    BY <1>0, NoGridAssumption DEF LevelOK
  <2> QED
    BY <1>4, <2>1, <2>2 DEF TypeInv, LevelOK
<1>5. CASE World
  <2>1. player \in floor /\ (IF covertracks THEN 4 ELSE 1) \in {1, 4}
    BY <1>0 DEF LevelOK
  <2> QED
    BY <1>4, <1>5, <2>1 DEF World
<1>6. CASE Reload
  <2>1. CASE noise_grid = NoGrid
    BY <1>6, <2>1, SilenceTypes DEF Reload, TypeInv, LevelOK
  <2>2. CASE noise_grid # NoGrid
    BY <1>4, <1>6, <2>2 DEF Reload, TypeInv
  <2> QED
    BY <2>1, <2>2
<1>7. CASE NewLevel
  BY <1>7, SilenceTypes DEF NewLevel, TypeInv, LevelOK
<1> QED
  BY <1>1, <1>2, <1>3, <1>5, <1>6, <1>7 DEF Next

LEMMA TypeAlways == Spec => []TypeInv
  BY TypeInit, TypeStep, PTL DEF Spec

\* Every variable keeps its type: however far the flood gets, no grid has more noise
\* than can be heard.
THEOREM TypeCorrect == Spec => []TypeOK
<1>1. TypeInv => TypeOK
  <2> SUFFICES ASSUME TypeInv PROVE TypeOK
    OBVIOUS
  <2>1. pushes \in 0 .. Height * Width + 1
    <3> DEFINE area == Height * Width
    <3>1. pushes \in 0 .. area /\ area \in Nat
      BY Sizes DEF TypeInv
    <3> HIDE DEF area
    <3>2. pushes \in 0 .. area + 1
      BY <3>1
    <3> QED
      BY <3>2 DEF area
  <2> QED
    BY <2>1 DEF TypeInv, TypeOK, LevelOK, Noises
<1> QED
  BY <1>1, TypeAlways, PTL

\* No flood pushes more grids than the queue has room for, wherever it starts and
\* wherever the player is then; so the queue, which does not look, never overwrites.
THEOREM QueueAlwaysSuffices == Spec => []QueueNeverWraps
<1>1. TypeInv => QueueNeverWraps
  BY Sizes DEF TypeInv, QueueNeverWraps
<1> QED
  BY <1>1, TypeAlways, PTL

-----------------------------------------------------------------------------
(* The wave that goes out from the player.                                 *)

Near(x, k) == \E d \in 1 .. 8 : k = Beside(x, d)
Reached(f, x) == x = player \/ f.noise[x] > 0
Waits(f, x) == \E i \in 1 .. Len(f.queue) : f.queue[i] = x

\* x has passed the noise on, if it can be heard so far: its neighbours have some,
\* and no more than they have got from x.
Passed(f, x, inc) ==
    f.noise[x] + inc < MaxHearing =>
        \A k \in floor \ {player} : Near(x, k) =>
            f.noise[k] > 0 /\ f.noise[k] <= f.noise[x] + inc

\* Each grid has got its noise from a neighbour.
Descends(f, inc) ==
    \A k \in Grids : f.noise[k] > 0 =>
        /\ f.noise[k] < MaxHearing
        /\ \E j \in floor : Reached(f, j) /\ Near(j, k) /\ f.noise[k] = f.noise[j] + inc

\* The queue is in the order of the noise.
Sorted(f) ==
    \A i, j \in 1 .. Len(f.queue) : i <= j => f.noise[f.queue[i]] <= f.noise[f.queue[j]]
FromReached(f) == \A i \in 1 .. Len(f.queue) : Reached(f, f.queue[i])

\* Between two rounds: what is not in the queue any more has passed its noise on, and
\* nothing is further than one step ahead of the first in the queue.
Wave(f, inc) ==
    /\ Basic(f) /\ Descends(f, inc) /\ Sorted(f) /\ FromReached(f)
    /\ \A x \in floor : Reached(f, x) /\ ~Waits(f, x) => Passed(f, x, inc)
    /\ f.queue # <<>> => \A k \in Grids : f.noise[k] <= f.noise[f.queue[1]] + inc

\* Within a round, when g has passed the noise n on to its first d neighbours.
Crest(f, g, n, inc, d) ==
    /\ Basic(f) /\ Descends(f, inc) /\ Sorted(f) /\ FromReached(f)
    /\ Reached(f, g) /\ n = f.noise[g] + inc
    /\ \A i \in 1 .. Len(f.queue) : f.noise[g] <= f.noise[f.queue[i]]
    /\ \A k \in Grids : f.noise[k] <= n
    /\ \A x \in floor \ {g} : Reached(f, x) /\ ~Waits(f, x) => Passed(f, x, inc)
    /\ \A e \in 1 .. d : Beside(g, e) \in floor \ {player} => f.noise[Beside(g, e)] > 0

LEMMA FloodNumbers ==
    ASSUME LevelOK, NEW f \in Floods
    PROVE  /\ Len(f.queue) \in Nat
           /\ \A i \in 1 .. Len(f.queue) : f.queue[i] \in floor /\ f.queue[i] \in Grids
           /\ \A k \in Grids : f.noise[k] \in Nat
           /\ floor \subseteq Grids /\ player \in Grids
<1>1. f.noise \in Noises /\ f.queue \in Seq(floor)
  BY FloodTypes
<1>2. Len(f.queue) \in Nat /\ \A i \in 1 .. Len(f.queue) : f.queue[i] \in floor
  BY <1>1, LenProperties, ElementOfSeq
<1>3. \A k \in Grids : f.noise[k] \in Nat
  BY <1>1, NoiseTypes
<1> QED
  BY <1>2, <1>3 DEF LevelOK

\* The next neighbour gets its noise.
LEMMA CrestSilent ==
    ASSUME LevelOK, NEW f, NEW g \in floor, NEW n \in 1 .. MaxHearing - 1,
           NEW inc \in Nat, NEW d \in 0 .. 7, Crest(f, g, n, inc, d),
           Silent(f, Beside(g, d + 1))
    PROVE  Crest(Listen(f, Beside(g, d + 1), n), g, n, inc, d + 1)
<1> DEFINE k == Beside(g, d + 1)
           r == Listen(f, k, n)
           l == Len(f.queue)
<1>1. n \in 0 .. MaxHearing /\ n \in 1 .. MaxHearing /\ n > 0 /\ n < MaxHearing /\ n \in Nat
  BY Sizes
<1>2. Basic(f) /\ f \in Floods
  BY DEF Crest, Basic
<1>3. /\ r \in Floods /\ k \in Grids /\ r.noise[k] = n
      /\ \A x \in Grids \ {k} : r.noise[x] = f.noise[x]
      /\ r.queue = Append(f.queue, k)
  BY <1>1, <1>2, ListenEffect
<1>4. Basic(r)
  BY <1>1, <1>2, ListenBasic
<1>5. k \in floor /\ k # player /\ f.noise[k] = 0
  BY DEF Silent
<1>n. Near(g, k)
  <2>1. d + 1 \in 1 .. 8
    OBVIOUS
  <2> QED
    BY <2>1 DEF Near
<1>f. /\ l \in Nat /\ \A i \in 1 .. l : f.queue[i] \in floor /\ f.queue[i] \in Grids
      /\ \A x \in Grids : f.noise[x] \in Nat /\ r.noise[x] \in Nat
      /\ floor \subseteq Grids /\ player \in Grids /\ g \in Grids
  BY <1>2, <1>3, FloodNumbers
<1>q. /\ Len(r.queue) = l + 1 /\ r.queue[l + 1] = k
      /\ \A i \in 1 .. l : r.queue[i] = f.queue[i]
  <2>1. f.queue \in Seq(floor)
    BY <1>2, FloodTypes
  <2> QED
    BY <1>3, <1>5, <2>1, AppendProperties
<1> DEFINE q == f.queue
           w == r.queue
           old == f.noise
           new == r.noise
<1>6. \A x \in Grids : Reached(f, x) => x # k /\ new[x] = old[x] /\ Reached(r, x)
  BY <1>3, <1>5 DEF Reached
<1>7. \A x \in Grids : Reached(r, x) => x = k \/ (x # k /\ Reached(f, x))
  BY <1>3 DEF Reached
<1> HIDE DEF k, r, l
<1>8. Descends(r, inc)
  <2> SUFFICES ASSUME NEW x \in Grids, new[x] > 0
               PROVE  /\ new[x] < MaxHearing
                      /\ \E j \in floor : Reached(r, j) /\ Near(j, x) /\ new[x] = new[j] + inc
    BY DEF Descends
  <2>1. CASE x = k
    <3>1. Reached(f, g) /\ n = old[g] + inc
      BY DEF Crest
    <3>2. Reached(r, g) /\ new[g] = old[g]
      BY <1>6, <1>f, <3>1
    <3> QED
      BY <1>1, <1>3, <1>n, <2>1, <3>1, <3>2
  <2>2. CASE x # k
    <3>1. new[x] = old[x]
      BY <1>3, <2>2
    <3>2. Descends(f, inc)
      BY DEF Crest
    <3>3. old[x] < MaxHearing
      BY <3>1, <3>2 DEF Descends
    <3>4. PICK j \in floor : Reached(f, j) /\ Near(j, x) /\ old[x] = old[j] + inc
      BY <3>1, <3>2 DEF Descends
    <3>5. j \in Grids
      BY <1>f
    <3>6. Reached(r, j) /\ new[j] = old[j]
      BY <1>6, <3>4, <3>5
    <3> QED
      BY <3>1, <3>3, <3>4, <3>6
  <2> QED
    BY <2>1, <2>2
<1>9. \A i \in 1 .. l : Reached(f, q[i]) /\ new[q[i]] = old[q[i]] /\ Reached(r, q[i])
  <2>1. FromReached(f)
    BY DEF Crest
  <2> QED
    BY <1>6, <1>f, <2>1 DEF FromReached, l
<1>10. \A x \in Grids : old[x] <= n
  BY DEF Crest
<1>11. Sorted(r)
  <2> SUFFICES ASSUME NEW i \in 1 .. l + 1, NEW j \in 1 .. l + 1, i <= j
               PROVE  new[w[i]] <= new[w[j]]
    BY <1>q DEF Sorted
  <2>1. CASE j = l + 1
    <3>1. new[w[j]] = n
      BY <1>3, <1>q, <2>1
    <3>2. CASE i = l + 1
      BY <1>1, <2>1, <3>1, <3>2
    <3>3. CASE i # l + 1
      <4>1. i \in 1 .. l
        BY <1>f, <3>3
      <4>2. w[i] = q[i] /\ new[q[i]] = old[q[i]] /\ q[i] \in Grids
        BY <1>9, <1>q, <1>f, <4>1
      <4> QED
        BY <1>10, <3>1, <4>2
    <3> QED
      BY <3>2, <3>3
  <2>2. CASE j # l + 1
    <3>1. i \in 1 .. l /\ j \in 1 .. l
      BY <1>f, <2>2
    <3>2. old[q[i]] <= old[q[j]]
      BY <3>1 DEF Crest, Sorted, l
    <3> QED
      BY <1>9, <1>q, <3>1, <3>2
  <2> QED
    BY <2>1, <2>2
<1>12. FromReached(r)
  <2>1. Reached(r, k)
    BY <1>1, <1>3 DEF Reached
  <2>2. \A i \in 1 .. l + 1 : i \in 1 .. l \/ i = l + 1
    BY <1>f
  <2> QED
    BY <1>9, <1>q, <2>1, <2>2 DEF FromReached
<1>13. Reached(r, g) /\ n = new[g] + inc /\ new[g] = old[g]
  BY <1>6, <1>f DEF Crest
<1>14. \A i \in 1 .. Len(w) : new[g] <= new[w[i]]
  <2> SUFFICES ASSUME NEW i \in 1 .. l + 1 PROVE new[g] <= new[w[i]]
    BY <1>q
  <2>1. CASE i = l + 1
    <3>1. new[w[i]] = n /\ new[g] \in Nat
      BY <1>3, <1>f, <1>q, <2>1
    <3> QED
      BY <1>13, <3>1
  <2>2. CASE i # l + 1
    <3>1. i \in 1 .. l
      BY <1>f, <2>2
    <3>2. old[g] <= old[q[i]]
      BY <3>1 DEF Crest, l
    <3> QED
      BY <1>13, <1>9, <1>q, <3>1, <3>2
  <2> QED
    BY <2>1, <2>2
<1>15. \A x \in Grids : new[x] <= n
  BY <1>1, <1>3, <1>10
<1>16. ASSUME NEW x \in floor \ {g}, Reached(r, x), ~Waits(r, x) PROVE Passed(r, x, inc)
  <2>1. x # k
    <3>1. l + 1 \in 1 .. l + 1
      BY <1>f
    <3> QED
      BY <1>16, <1>q, <3>1 DEF Waits
  <2>2. x \in Grids /\ Reached(f, x) /\ new[x] = old[x]
    BY <1>f, <1>6, <1>7, <1>16, <2>1
  <2>3. ~Waits(f, x)
    <3>1. \A i \in 1 .. l : i \in 1 .. l + 1
      BY <1>f
    <3> QED
      BY <1>16, <1>q, <3>1 DEF Waits, l
  <2>4. Passed(f, x, inc)
    BY <2>2, <2>3 DEF Crest
  <2> SUFFICES ASSUME new[x] + inc < MaxHearing, NEW y \in floor \ {player}, Near(x, y)
               PROVE  new[y] > 0 /\ new[y] <= new[x] + inc
    BY DEF Passed
  <2>5. old[y] > 0 /\ old[y] <= old[x] + inc
    BY <2>2, <2>4 DEF Passed
  <2>6. y # k
    BY <1>5, <2>5
  <2> QED
    BY <1>3, <1>f, <2>2, <2>5, <2>6
<1>17. ASSUME NEW e \in 1 .. d + 1, Beside(g, e) \in floor \ {player}
       PROVE  new[Beside(g, e)] > 0
  <2>1. CASE Beside(g, e) = k
    BY <1>1, <1>3, <2>1
  <2>2. CASE Beside(g, e) # k
    <3>1. e # d + 1
      BY <2>2 DEF k
    <3>2. e \in 1 .. d
      BY <3>1
    <3>3. old[Beside(g, e)] > 0
      BY <1>17, <3>2 DEF Crest
    <3> QED
      BY <1>3, <1>f, <1>17, <2>2, <3>3
  <2> QED
    BY <2>1, <2>2
<1>18. Crest(r, g, n, inc, d + 1)
  BY <1>4, <1>8, <1>11, <1>12, <1>13, <1>14, <1>15, <1>16, <1>17 DEF Crest
<1> QED
  BY <1>18 DEF r, k

LEMMA CrestStep ==
    ASSUME LevelOK, NEW f, NEW g \in floor, NEW n \in 1 .. MaxHearing - 1,
           NEW inc \in Nat, NEW d \in 0 .. 7, Crest(f, g, n, inc, d)
    PROVE  Crest(Listen(f, Beside(g, d + 1), n), g, n, inc, d + 1)
<1>1. CASE Silent(f, Beside(g, d + 1))
  BY <1>1, CrestSilent
<1>2. CASE ~Silent(f, Beside(g, d + 1))
  <2>1. f \in Floods /\ n \in 0 .. MaxHearing
    BY Sizes DEF Crest, Basic
  <2>2. Listen(f, Beside(g, d + 1), n) = f
    BY <1>2, <2>1, ListenEffect
  <2>3. ASSUME NEW e \in 1 .. d + 1, Beside(g, e) \in floor \ {player}
        PROVE  f.noise[Beside(g, e)] > 0
    <3>1. CASE e = d + 1
      <4>1. f.noise[Beside(g, e)] # 0 /\ f.noise[Beside(g, e)] \in Nat
        BY <1>2, <2>1, <2>3, <3>1, FloodNumbers DEF Silent
      <4> QED
        BY <4>1
    <3>2. CASE e # d + 1
      <4>1. e \in 1 .. d
        BY <3>2
      <4> QED
        BY <2>3, <4>1 DEF Crest
    <3> QED
      BY <3>1, <3>2
  <2>4. Crest(f, g, n, inc, d + 1)
    BY <2>3 DEF Crest
  <2> QED
    BY <2>2, <2>4
<1> QED
  BY <1>1, <1>2

LEMMA SpreadCrest ==
    ASSUME LevelOK, NEW f, NEW g \in floor, NEW n \in 1 .. MaxHearing - 1,
           NEW inc \in Nat, Crest(f, g, n, inc, 0)
    PROVE  Crest(Spread(f, g, n), g, n, inc, 8)
<1>1. f \in Floods /\ n \in 0 .. MaxHearing
  BY Sizes DEF Crest, Basic
<1>2. PICK after : Rounds(after, f, g, n) /\ Spread(f, g, n) = after[8]
  BY <1>1, SpreadLoop
<1> DEFINE A == {d \in Nat : d <= 8 => Crest(after[d], g, n, inc, d)}
<1>3. 0 \in A
  BY <1>2 DEF Rounds
<1>4. ASSUME NEW d \in Nat, d \in A, d + 1 <= 8 PROVE Crest(after[d + 1], g, n, inc, d + 1)
  <2>1. d + 1 \in 1 .. 8 /\ (d + 1) - 1 = d /\ d \in 0 .. 7
    BY <1>4
  <2>2. after[d + 1] = Listen(after[d], Beside(g, d + 1), n)
    BY <1>2, <2>1 DEF Rounds
  <2>3. Crest(after[d], g, n, inc, d)
    BY <1>4
  <2> QED
    BY <2>1, <2>2, <2>3, CrestStep
<1>5. \A d \in Nat : d \in A => d + 1 \in A
  BY <1>4
<1> HIDE DEF A
<1>6. 8 \in A
  BY <1>3, <1>5, SetInduction
<1> QED
  BY <1>2, <1>6 DEF A

\* When g has passed its noise on to all, the wave has gone one grid on.
LEMMA CrestBreaks ==
    ASSUME LevelOK, NEW f, NEW g \in floor, NEW n \in Nat, NEW inc \in Nat,
           Crest(f, g, n, inc, 8)
    PROVE  Wave(f, inc)
<1>0. Basic(f) /\ f \in Floods
  BY DEF Crest, Basic
<1>1. /\ Len(f.queue) \in Nat
      /\ \A i \in 1 .. Len(f.queue) : f.queue[i] \in Grids
      /\ \A k \in Grids : f.noise[k] \in Nat
      /\ floor \subseteq Grids /\ player \in Grids /\ g \in Grids
  BY <1>0, FloodNumbers
<1>2. n = f.noise[g] + inc /\ \A k \in Grids : f.noise[k] <= n
  BY DEF Crest
<1>3. Passed(f, g, inc)
  <2> SUFFICES ASSUME NEW k \in floor \ {player}, Near(g, k)
               PROVE  f.noise[k] > 0 /\ f.noise[k] <= f.noise[g] + inc
    BY DEF Passed
  <2>1. PICK e \in 1 .. 8 : k = Beside(g, e)
    BY DEF Near
  <2>2. f.noise[k] > 0
    BY <2>1 DEF Crest
  <2> QED
    BY <1>1, <1>2, <2>2
<1>4. \A x \in floor : Reached(f, x) /\ ~Waits(f, x) => Passed(f, x, inc)
  BY <1>3 DEF Crest
<1>5. ASSUME f.queue # <<>>, NEW k \in Grids PROVE f.noise[k] <= f.noise[f.queue[1]] + inc
  <2>1. 1 \in 1 .. Len(f.queue)
    <3>1. f.queue \in Seq(floor)
      BY <1>0, FloodTypes
    <3>2. Len(f.queue) \in Nat \ {0}
      BY <1>5, <3>1, EmptySeq
    <3> QED
      BY <3>2
  <2>2. f.noise[g] <= f.noise[f.queue[1]]
    BY <2>1 DEF Crest
  <2>3. /\ f.noise[k] \in Nat /\ f.noise[g] \in Nat /\ f.noise[f.queue[1]] \in Nat
        /\ f.noise[k] <= n
    BY <1>1, <1>2, <1>5, <2>1
  <2> DEFINE a == f.noise[k]
             b == f.noise[g]
             c == f.noise[f.queue[1]]
  <2>4. a \in Nat /\ b \in Nat /\ c \in Nat /\ a <= n /\ b <= c /\ n = b + inc
    BY <1>2, <2>2, <2>3
  <2> HIDE DEF a, b, c
  <2>5. a <= c + inc
    BY <2>4
  <2> QED
    BY <2>5 DEF a, c
<1> QED
  BY <1>4, <1>5 DEF Crest, Wave

\* The first of the queue is taken off.
LEMMA WaveRest ==
    ASSUME LevelOK, NEW f, NEW inc \in Nat, Wave(f, inc), f.queue # <<>>
    PROVE  LET g == Head(f.queue)
               n == f.noise[g] + inc
           IN  /\ g \in floor /\ n \in Nat /\ n >= inc
               /\ Crest(Rest(f), g, n, inc, 0)
<1> DEFINE g == Head(f.queue)
           n == f.noise[g] + inc
           l == Len(f.queue)
           q == f.queue
           t == Rest(f)
<1>0. Basic(f) /\ f \in Floods
  BY DEF Wave, Basic
<1>1. /\ g \in floor /\ g \in Grids /\ t \in Floods /\ t.noise = f.noise
      /\ t.queue = Tail(q) /\ t.pushes = f.pushes
      /\ l \in Nat /\ Len(t.queue) = l - 1 /\ q[1] = g
      /\ \A i \in 1 .. l - 1 : t.queue[i] = q[i + 1]
  BY <1>0, RestTypes
<1>2. /\ \A i \in 1 .. l : q[i] \in Grids
      /\ \A k \in Grids : f.noise[k] \in Nat
      /\ floor \subseteq Grids
  BY <1>0, FloodNumbers
<1>3. l > 0
  <2>1. f.queue \in Seq(floor)
    BY <1>0, FloodTypes
  <2>2. l \in Nat \ {0}
    BY <2>1, EmptySeq
  <2> QED
    BY <2>2
<1> HIDE DEF g, t, l
<1>4. n \in Nat /\ n >= inc
  <2>1. f.noise[g] \in Nat
    BY <1>1, <1>2
  <2> QED
    BY <2>1
<1>5. \A x : Reached(t, x) <=> Reached(f, x)
  BY <1>1, Zenon DEF Reached
<1>6. \A i \in 1 .. l - 1 : i + 1 \in 1 .. l
  BY <1>1
<1>7. Basic(t)
  BY <1>0, <1>1 DEF Basic, Heard
<1>8. Descends(t, inc)
  BY <1>1, <1>5 DEF Wave, Descends
<1>9. Sorted(t)
  <2> SUFFICES ASSUME NEW i \in 1 .. l - 1, NEW j \in 1 .. l - 1, i <= j
               PROVE  t.noise[t.queue[i]] <= t.noise[t.queue[j]]
    BY <1>1 DEF Sorted
  <2>1. i + 1 \in 1 .. l /\ j + 1 \in 1 .. l /\ i + 1 <= j + 1
    BY <1>1
  <2>2. f.noise[q[i + 1]] <= f.noise[q[j + 1]]
    BY <2>1 DEF Wave, Sorted, l
  <2> QED
    BY <1>1, <2>2
<1>10. FromReached(t)
  <2>1. \A i \in 1 .. l : Reached(f, q[i])
    BY DEF Wave, FromReached, l
  <2> QED
    BY <1>1, <1>5, <1>6, <2>1 DEF FromReached
<1>11. Reached(t, g)
  <2>1. 1 \in 1 .. l
    BY <1>1, <1>3
  <2> QED
    BY <1>1, <1>5, <2>1 DEF Wave, FromReached, l
<1>12. ASSUME NEW i \in 1 .. Len(t.queue) PROVE t.noise[g] <= t.noise[t.queue[i]]
  <2>1. i \in 1 .. l - 1 /\ 1 \in 1 .. l /\ i + 1 \in 1 .. l /\ 1 <= i + 1
    BY <1>1, <1>3, <1>12
  <2>2. f.noise[q[1]] <= f.noise[q[i + 1]]
    BY <2>1 DEF Wave, Sorted, l
  <2> QED
    BY <1>1, <2>1, <2>2
<1>13. \A k \in Grids : t.noise[k] <= n
  <2>1. \A k \in Grids : f.noise[k] <= f.noise[q[1]] + inc
    BY DEF Wave
  <2> QED
    BY <1>1, <2>1
<1>14. ASSUME NEW x \in floor \ {g}, Reached(t, x), ~Waits(t, x) PROVE Passed(t, x, inc)
  <2>1. ~Waits(f, x)
    <3> SUFFICES ASSUME NEW i \in 1 .. l, q[i] = x PROVE FALSE
      BY DEF Waits, l
    <3>1. i # 1
      BY <1>1, <1>14
    <3>2. i - 1 \in 1 .. l - 1 /\ (i - 1) + 1 = i
      BY <1>1, <3>1
    <3>3. t.queue[i - 1] = x /\ i - 1 \in 1 .. Len(t.queue)
      BY <1>1, <3>2
    <3> QED
      BY <1>14, <3>3 DEF Waits
  <2>2. Passed(f, x, inc)
    BY <1>5, <1>14, <2>1 DEF Wave
  <2> QED
    BY <1>1, <2>2 DEF Passed
<1>15. n = t.noise[g] + inc
  BY <1>1
<1>16. Crest(t, g, n, inc, 0)
  BY <1>7, <1>8, <1>9, <1>10, <1>11, <1>12, <1>13, <1>14, <1>15 DEF Crest
<1> QED
  BY <1>1, <1>4, <1>16 DEF g, t

LEMMA WavePop ==
    ASSUME LevelOK, NEW f, NEW inc \in Nat, inc > 0, Wave(f, inc), f.queue # <<>>
    PROVE  Wave(Pop(f, inc), inc)
<1> DEFINE g == Head(f.queue)
           n == f.noise[g] + inc
<1>1. g \in floor /\ n \in Nat /\ n >= inc /\ Crest(Rest(f), g, n, inc, 0)
  BY WaveRest
<1>2. Pop(f, inc) = IF n < MaxHearing THEN Spread(Rest(f), g, n) ELSE Rest(f)
  BY DEF Pop, Rest
<1>3. f \in Floods /\ g \in Grids /\ Rest(f).noise = f.noise
  BY RestTypes DEF Wave, Basic
<1>4. n = Rest(f).noise[g] + inc
  BY <1>3
<1> HIDE DEF n, g
<1>5. CASE n < MaxHearing
  <2>1. n \in 1 .. MaxHearing - 1
    BY <1>1, <1>5, Sizes
  <2>2. Crest(Spread(Rest(f), g, n), g, n, inc, 8)
    BY <1>1, <2>1, SpreadCrest
  <2> QED
    BY <1>1, <1>2, <1>5, <2>2, CrestBreaks
<1>6. CASE ~(n < MaxHearing)
  <2> DEFINE t == Rest(f)
  <2>1. Passed(t, g, inc)
    BY <1>4, <1>6 DEF Passed
  <2>2. \A k \in Grids : t.noise[k] <= n
    BY <1>1 DEF Crest
  <2>3. t \in Floods /\ Basic(t)
    BY <1>1 DEF Crest, Basic
  <2>4. /\ Len(t.queue) \in Nat /\ \A i \in 1 .. Len(t.queue) : t.queue[i] \in Grids
        /\ \A k \in Grids : t.noise[k] \in Nat
    BY <2>3, FloodNumbers
  <2>5. \A i \in 1 .. Len(t.queue) : t.noise[g] <= t.noise[t.queue[i]]
    BY <1>1 DEF Crest
  <2> HIDE DEF t
  <2>6. ASSUME t.queue # <<>>, NEW k \in Grids PROVE t.noise[k] <= t.noise[t.queue[1]] + inc
    <3>1. Len(t.queue) \in Nat \ {0}
      BY <2>3, <2>6, FloodTypes, EmptySeq
    <3>2. 1 \in 1 .. Len(t.queue)
      BY <3>1
    <3> DEFINE a == t.noise[k]
               b == t.noise[g]
               c == t.noise[t.queue[1]]
    <3>3. a \in Nat /\ b \in Nat /\ c \in Nat /\ a <= n /\ b <= c /\ n = b + inc
      BY <1>3, <1>4, <2>2, <2>4, <2>5, <2>6, <3>2 DEF t
    <3> HIDE DEF a, b, c
    <3>4. a <= c + inc
      BY <3>3
    <3> QED
      BY <3>4 DEF a, c
  <2>7. \A x \in floor : Reached(t, x) /\ ~Waits(t, x) => Passed(t, x, inc)
    BY <1>1, <2>1 DEF Crest, t
  <2>8. Descends(t, inc) /\ Sorted(t) /\ FromReached(t)
    BY <1>1 DEF Crest, t
  <2>9. Wave(t, inc)
    BY <2>3, <2>6, <2>7, <2>8 DEF Wave
  <2> QED
    BY <1>2, <1>6, <2>9 DEF t
<1> QED
  BY <1>5, <1>6

LEMMA WaveQuiet ==
    ASSUME LevelOK, NEW inc \in Nat PROVE Wave(Quiet(player), inc)
<1> DEFINE f == Quiet(player)
<1>1. player \in floor /\ player \in Grids
  BY DEF LevelOK
<1>2. Basic(f) /\ f.noise = Silence /\ f.queue = <<player>>
  BY <1>1, QuietBasic
<1>3. \A k \in Grids : f.noise[k] = 0
  BY <1>2 DEF Silence
<1> HIDE DEF f
<1>4. Len(f.queue) = 1 /\ f.queue[1] = player
  BY <1>2
<1>5. \A i \in 1 .. Len(f.queue) : i = 1
  BY <1>4
<1>6. \A x \in floor : ~(Reached(f, x) /\ ~Waits(f, x))
  <2>1. \A x \in floor : x \in Grids
    BY DEF LevelOK
  <2>2. 1 \in 1 .. Len(f.queue)
    BY <1>4
  <2> QED
    BY <1>3, <1>4, <2>1, <2>2 DEF Reached, Waits
<1>7. Descends(f, inc) /\ FromReached(f)
  BY <1>3, <1>4, <1>5 DEF Descends, FromReached, Reached
<1>8. Sorted(f)
  BY <1>1, <1>3, <1>4, <1>5 DEF Sorted
<1>9. \A k \in Grids : f.noise[k] <= f.noise[f.queue[1]] + inc
  BY <1>1, <1>3, <1>4
<1> QED
  BY <1>2, <1>6, <1>7, <1>8, <1>9 DEF Wave, f

LEMMA FloodWave ==
    ASSUME LevelOK, NEW inc \in Nat, inc > 0,
           NEW after, Floodings(after, player, inc)
    PROVE  Wave(after[MaxRounds], inc)
<1> DEFINE A == {r \in Nat : r <= MaxRounds => Wave(after[r], inc)}
<1>1. 0 \in A
  BY WaveQuiet DEF Floodings
<1>2. ASSUME NEW r \in Nat, r \in A, r + 1 <= MaxRounds PROVE Wave(after[r + 1], inc)
  <2>1. MaxRounds \in Nat
    BY Sizes DEF MaxRounds
  <2>2. r + 1 \in 1 .. MaxRounds /\ (r + 1) - 1 = r /\ Wave(after[r], inc)
    BY <1>2, <2>1
  <2>3. after[r + 1] = Round(after[r], inc)
    BY <2>2 DEF Floodings
  <2> QED
    BY <2>2, <2>3, WavePop DEF Round
<1>3. \A r \in Nat : r \in A => r + 1 \in A
  BY <1>2
<1> HIDE DEF A
<1>4. MaxRounds \in A /\ MaxRounds \in Nat
  BY <1>1, <1>3, SetInduction, Sizes DEF MaxRounds
<1> QED
  BY <1>4 DEF A

-----------------------------------------------------------------------------
(* The distances.                                                          *)

LEMMA NearBothWays ==
    ASSUME NEW x \in Grids, NEW k \in Grids PROVE Near(x, k) <=> Near(k, x)
<1>1. ASSUME NEW a \in Grids, NEW b \in Grids, Near(a, b) PROVE Near(b, a)
  <2>1. PICK d \in 1 .. 8 : b = Beside(a, d)
    BY <1>1 DEF Near
  <2>2. PICK i \in 1 .. Height, j \in 1 .. Width : a = <<i, j>>
    BY DEF Grids
  <2>3. i \in Int /\ j \in Int
    BY Sizes
  <2>4. a[1] = i /\ a[2] = j
    BY <2>2
  <2>5. ASSUME NEW v \in Int, NEW h \in Int, NEW e \in 1 .. 8,
               ddgrid_ddd[d] = <<v, h>>, ddgrid_ddd[e] = <<-v, -h>>
        PROVE  a = Beside(b, e)
    <3>1. b = <<i + v, j + h>>
      BY <2>1, <2>4, <2>5 DEF Beside
    <3>2. b[1] = i + v /\ b[2] = j + h
      BY <3>1
    <3>3. Beside(b, e) = <<(i + v) + (-v), (j + h) + (-h)>>
      BY <2>5, <3>2 DEF Beside
    <3>4. (i + v) + (-v) = i /\ (j + h) + (-h) = j
      BY <2>3
    <3> QED
      BY <2>2, <3>3, <3>4
  <2>6. \E e \in 1 .. 8 : \E v, h \in Int :
            ddgrid_ddd[d] = <<v, h>> /\ ddgrid_ddd[e] = <<-v, -h>>
    <3>1. CASE d = 1
      BY <3>1 DEF ddgrid_ddd
    <3>2. CASE d = 2
      BY <3>2 DEF ddgrid_ddd
    <3>3. CASE d = 3
      BY <3>3 DEF ddgrid_ddd
    <3>4. CASE d = 4
      BY <3>4 DEF ddgrid_ddd
    <3>5. CASE d = 5
      BY <3>5 DEF ddgrid_ddd
    <3>6. CASE d = 6
      BY <3>6 DEF ddgrid_ddd
    <3>7. CASE d = 7
      BY <3>7 DEF ddgrid_ddd
    <3>8. CASE d = 8
      BY <3>8 DEF ddgrid_ddd
    <3> QED
      BY <3>1, <3>2, <3>3, <3>4, <3>5, <3>6, <3>7, <3>8
  <2> QED
    BY <2>5, <2>6 DEF Near
<1> QED
  BY <1>1

LEMMA Minimum ==
    ASSUME NEW S \in SUBSET Nat, S # {}
    PROVE  Min(S) \in S /\ \A s \in S : Min(S) <= s
<1>1. \E m \in S : \A s \in S : m <= s
  BY LeastNatural
<1> QED
  BY <1>1 DEF Min

\* A wave that has come to rest has left the distances.
LEMMA WaveDistances ==
    ASSUME LevelOK, NEW f, NEW inc \in Nat, inc > 0, Wave(f, inc), f.queue = <<>>
    PROVE  ShortestWays(f.noise, player, inc)
<1> DEFINE m == f.noise
<1>1. f \in Floods /\ Heard(f) \subseteq floor \ {player}
  BY DEF Wave, Basic
<1>2. /\ \A k \in Grids : m[k] \in Nat
      /\ floor \subseteq Grids /\ player \in Grids
  BY <1>1, FloodNumbers
<1>3. \A k \in Grids : m[k] > 0 => k \in floor \ {player}
  BY <1>1 DEF Heard
<1>4. m[player] = 0
  BY <1>2, <1>3
<1>5. \A x \in floor : Reached(f, x) => Passed(f, x, inc)
  <2>1. \A x : ~Waits(f, x)
    <3>1. Len(f.queue) = 0
      OBVIOUS
    <3> QED
      BY <3>1 DEF Waits
  <2> QED
    BY <2>1 DEF Wave
<1>6. Descends(f, inc)
  BY DEF Wave
<1> HIDE DEF m
<1>7. ASSUME NEW g \in Grids \ {player}
      PROVE  LET heard == IF g \in floor THEN HeardNextTo(m, player, g) ELSE {}
             IN  m[g] = IF heard # {} /\ Min(heard) + inc < MaxHearing
                        THEN Min(heard) + inc ELSE 0
  <2> DEFINE heard == IF g \in floor THEN HeardNextTo(m, player, g) ELSE {}
             least == Min(heard)
  <2>0. m[g] \in Nat
    BY <1>2
  <2>1. CASE g \notin floor
    <3>1. heard = {}
      BY <2>1
    <3>2. m[g] = 0
      BY <1>3, <2>0, <2>1
    <3> QED
      BY <3>1, <3>2
  <2>2. CASE g \in floor
    \* What is heard next to g, in the terms of the wave.
    <3>1. \A v : v \in heard <=> \E j \in floor : Near(j, g) /\ Reached(f, j) /\ v = m[j]
      <4>1. \A j \in floor : j \in Around(g) <=> Near(j, g)
        <5>1. \A j : j \in Around(g) <=> Near(g, j)
          BY DEF Around, Near
        <5> QED
          BY <1>2, <5>1, NearBothWays
      <4>2. heard = {m[j] : j \in {k \in Around(g) \cap floor : m[k] > 0 \/ k = player}}
        BY <2>2 DEF HeardNextTo
      <4> HIDE DEF heard
      <4> QED
        BY <4>1, <4>2 DEF Reached, m
    <3> HIDE DEF heard
    \* Who has noise has got it from one of those.
    <3>2. m[g] > 0 => \E v \in heard : m[g] = v + inc /\ m[g] < MaxHearing
      <4> SUFFICES ASSUME m[g] > 0
                   PROVE  \E v \in heard : m[g] = v + inc /\ m[g] < MaxHearing
        OBVIOUS
      <4>1. m[g] < MaxHearing
        BY <1>6 DEF Descends, m
      <4>2. PICK j \in floor : Reached(f, j) /\ Near(j, g) /\ m[g] = m[j] + inc
        BY <1>6 DEF Descends, m
      <4>3. m[j] \in heard
        BY <3>1, <4>2
      <4> QED
        BY <4>1, <4>2, <4>3
    \* And whoever is heard has passed it on.
    <3>3. \A v \in heard : v + inc < MaxHearing => m[g] > 0 /\ m[g] <= v + inc
      <4> SUFFICES ASSUME NEW v \in heard, v + inc < MaxHearing
                   PROVE  m[g] > 0 /\ m[g] <= v + inc
        OBVIOUS
      <4>1. PICK j \in floor : Near(j, g) /\ Reached(f, j) /\ v = m[j]
        BY <3>1
      <4>2. Passed(f, j, inc)
        BY <1>5, <4>1
      <4>3. g \in floor \ {player}
        BY <2>2
      <4> QED
        BY <4>1, <4>2, <4>3 DEF Passed, m
    <3>4. heard \subseteq Nat
      BY <1>2, <3>1
    <3>5. CASE heard = {}
      <4>1. m[g] = 0
        BY <2>0, <3>2, <3>5
      <4> QED
        BY <3>5, <4>1 DEF heard
    <3>6. CASE heard # {}
      <4>1. least \in heard /\ \A v \in heard : least <= v
        BY <3>4, <3>6, Minimum
      <4> HIDE DEF least
      <4>2. least \in Nat
        BY <3>4, <4>1
      <4>3. m[g] = IF least + inc < MaxHearing THEN least + inc ELSE 0
        <5>1. CASE least + inc < MaxHearing
          <6>1. m[g] > 0 /\ m[g] <= least + inc
            BY <3>3, <4>1, <5>1
          <6>2. PICK v \in heard : m[g] = v + inc
            BY <3>2, <6>1
          <6>3. least <= v /\ v \in Nat
            BY <3>4, <4>1
          <6> QED
            BY <2>0, <4>2, <5>1, <6>1, <6>2, <6>3
        <5>2. CASE ~(least + inc < MaxHearing)
          <6> SUFFICES ASSUME m[g] > 0 PROVE FALSE
            BY <2>0, <5>2
          <6>1. PICK v \in heard : m[g] = v + inc /\ m[g] < MaxHearing
            BY <3>2
          <6>2. least <= v /\ v \in Nat
            BY <3>4, <4>1
          <6> QED
            BY <4>2, <5>2, <6>1, <6>2, Sizes
        <5> QED
          BY <5>1, <5>2
      <4> QED
        BY <3>6, <4>3 DEF heard, least
    <3> QED
      BY <3>5, <3>6
  <2> QED
    BY <2>1, <2>2
<1>8. ShortestWays(m, player, inc)
  BY <1>4, <1>7, Zenon DEF ShortestWays, m
<1> QED
  BY <1>8 DEF m

LEMMA MadeDistances ==
    ASSUME LevelOK, NEW inc \in {1, 4}, make_noise(player, inc)
    PROVE  ShortestWays(noise', player, inc)
<1>1. inc \in Nat /\ inc > 0 /\ player \in floor
  BY DEF LevelOK
<1>2. PICK after : Floodings(after, player, inc) /\ Flood(player, inc) = after[MaxRounds]
  BY <1>1, FloodLoop
<1>3. Wave(after[MaxRounds], inc) /\ after[MaxRounds].queue = <<>>
  BY <1>1, <1>2, FloodEnds, FloodWave
<1>4. ShortestWays(after[MaxRounds].noise, player, inc)
  BY <1>1, <1>3, WaveDistances
<1>5. noise' = after[MaxRounds].noise
  BY <1>2 DEF make_noise
<1> QED
  BY <1>4, <1>5, Zenon

\* What a turn of the world leaves as noise is, on every level, the distance from the
\* player: so a monster that goes where it hears him better comes nearer.
THEOREM WorldAlwaysMakesDistances == Spec => WorldMakesDistances
<1>1. TypeInv /\ World => ShortestWays(noise', player, noise_falloff')
  <2> SUFFICES ASSUME TypeInv, World PROVE ShortestWays(noise', player, noise_falloff')
    OBVIOUS
  <2> DEFINE inc == IF covertracks THEN 4 ELSE 1
  <2>1. inc \in {1, 4} /\ make_noise(player, inc) /\ LevelOK
    BY DEF World, TypeInv
  <2> HIDE DEF inc
  <2>2. noise_falloff' = inc
    BY <2>1 DEF make_noise
  <2> QED
    BY <2>1, <2>2, MadeDistances, Zenon
<1>2. TypeInv /\ [Next]_vars => [World => ShortestWays(noise', player, noise_falloff')]_vars
  BY <1>1
<1> QED
  BY <1>2, TypeAlways, PTL DEF Spec, WorldMakesDistances

\* A game that is loaded has the noise of the game that was saved, if the player stands
\* where it was made: it is the distances again, with the falloff there was.
THEOREM ReloadAlwaysRestoresNoise == Spec => ReloadRestoresNoise
<1>1. TypeInv /\ Reload /\ noise_grid = player => ShortestWays(noise', player, noise_falloff)
  <2> SUFFICES ASSUME TypeInv, Reload, noise_grid = player
               PROVE  ShortestWays(noise', player, noise_falloff)
    OBVIOUS
  <2>1. noise_grid # NoGrid /\ LevelOK
    BY NoGridAssumption DEF TypeInv, LevelOK
  <2>2. noise_falloff \in {1, 4} /\ make_noise(player, noise_falloff)
    BY <2>1 DEF TypeInv, Reload
  <2> QED
    BY <2>1, <2>2, MadeDistances
<1>2. TypeInv /\ [Next]_vars =>
          [Reload /\ noise_grid = player => ShortestWays(noise', player, noise_falloff)]_vars
  BY <1>1
<1> QED
  BY <1>2, TypeAlways, PTL DEF Spec, ReloadRestoresNoise
=============================================================================
