------------------------------ MODULE InputProofs ------------------------------
(***************************************************************************)
(* Proofs about Input, for every set of keys, every size of the FIFO, of   *)
(* the key queue and of the command queue, and every count: first the keys *)
(* and the ring of commands, then what goes on by itself.                  *)
(***************************************************************************)
EXTENDS Input, NatRecursion, SequenceTheorems

-----------------------------------------------------------------------------
(* The keyboard.                                                           *)

Boards == [held : SUBSET ModKeys, fifo : Seq(Entries), mods : SUBSET Latches,
           queue : Seq(Events), doubt : SUBSET Latches]

BoardOK(b) ==
    /\ b \in Boards
    /\ Len(b.fifo) <= FifoSize /\ Len(b.queue) < KbdQueueSize

-----------------------------------------------------------------------------
(* The latches after the entries that wait.                                *)

On(e, l) == e.key \in ModKeys /\ Latch(e.key) = l /\ e.down
Off(e, l) == e.key \in ModKeys /\ Latch(e.key) = l /\ ~e.down

\* The latch l is set once the first i entries of the list f have been read: one of
\* them, or before them the latch itself, set it, and none since has cleared it.
SetAfter(mods, f, l, i) ==
    \E j \in 0 .. i : /\ IF j = 0 THEN l \in mods ELSE On(f[j], l)
                      /\ \A k \in j + 1 .. i : ~Off(f[k], l)

LEMMA SetAtFirst ==
    ASSUME NEW mods, NEW f, NEW l PROVE SetAfter(mods, f, l, 0) <=> l \in mods
  BY DEF SetAfter

LEMMA SetByNext ==
    ASSUME NEW mods, NEW f, NEW l, NEW i \in Nat
    PROVE  SetAfter(mods, f, l, i + 1) <=>
               On(f[i + 1], l) \/ (SetAfter(mods, f, l, i) /\ ~Off(f[i + 1], l))
<1> DEFINE Start(j) == IF j = 0 THEN l \in mods ELSE On(f[j], l)
           Untouched(j, n) == \A k \in j + 1 .. n : ~Off(f[k], l)
<1>1. \A n : SetAfter(mods, f, l, n) <=> \E j \in 0 .. n : Start(j) /\ Untouched(j, n)
  BY DEF SetAfter
<1>2. Start(i + 1) <=> On(f[i + 1], l)
  OBVIOUS
<1>3. Untouched(i + 1, i + 1)
  OBVIOUS
<1>4. \A j \in 0 .. i : Untouched(j, i + 1) <=> Untouched(j, i) /\ ~Off(f[i + 1], l)
  <2> SUFFICES ASSUME NEW j \in 0 .. i
               PROVE  Untouched(j, i + 1) <=> Untouched(j, i) /\ ~Off(f[i + 1], l)
    OBVIOUS
  <2>1. \A k : k \in j + 1 .. i + 1 <=> k \in j + 1 .. i \/ k = i + 1
    OBVIOUS
  <2> QED
    BY <2>1, Zenon
<1>5. \A j : j \in 0 .. i + 1 <=> j \in 0 .. i \/ j = i + 1
  OBVIOUS
<1> HIDE DEF Start, Untouched
<1> QED
  BY <1>1, <1>2, <1>3, <1>4, <1>5, Zenon

\* Two lists with the same entries of a latch, of which one is d entries ahead.
LEMMA SetFollows ==
    ASSUME NEW l, NEW mods, NEW f, NEW mods2, NEW g, NEW d \in Nat, NEW n \in Nat,
           l \in mods2 <=> SetAfter(mods, f, l, d),
           \A j \in 1 .. n : /\ On(g[j], l) <=> On(f[j + d], l)
                             /\ Off(g[j], l) <=> Off(f[j + d], l)
    PROVE  \A i \in 0 .. n : SetAfter(mods2, g, l, i) <=> SetAfter(mods, f, l, i + d)
<1> DEFINE A == {i \in Nat : i <= n =>
                     (SetAfter(mods2, g, l, i) <=> SetAfter(mods, f, l, i + d))}
<1>1. 0 \in A
  BY SetAtFirst
<1>2. ASSUME NEW i \in Nat, i \in A PROVE i + 1 \in A
  <2> SUFFICES ASSUME i + 1 <= n
               PROVE  SetAfter(mods2, g, l, i + 1) <=> SetAfter(mods, f, l, (i + 1) + d)
    OBVIOUS
  <2>1. SetAfter(mods2, g, l, i) <=> SetAfter(mods, f, l, i + d)
    BY <1>2
  <2>2. i + d \in Nat /\ (i + d) + 1 = (i + 1) + d /\ i + 1 \in 1 .. n
    OBVIOUS
  <2>3. SetAfter(mods2, g, l, i + 1) <=>
            On(g[i + 1], l) \/ (SetAfter(mods2, g, l, i) /\ ~Off(g[i + 1], l))
    BY SetByNext
  <2>4. SetAfter(mods, f, l, (i + 1) + d) <=>
            On(f[(i + 1) + d], l) \/ (SetAfter(mods, f, l, i + d) /\ ~Off(f[(i + 1) + d], l))
    BY <2>2, SetByNext
  <2> QED
    BY <2>1, <2>2, <2>3, <2>4, Zenon
<1> HIDE DEF A
<1>3. \A i \in Nat : i \in A
  BY <1>1, <1>2, SetInduction
<1> QED
  BY <1>3 DEF A

-----------------------------------------------------------------------------
(* What holds of a board at any time.                                      *)

InTheEnd(b, l) == SetAfter(b.mods, b.fifo, l, Len(b.fifo))

Settled(b) == \A l \in Latches \ b.doubt : InTheEnd(b, l) <=> l \in Down(b.held)

Faithful(b) ==
    \A i \in DOMAIN b.fifo : b.fifo[i].sure =>
        \A l \in Latches : SetAfter(b.mods, b.fifo, l, i - 1) <=> l \in b.fifo[i].with

Right(e) == e.sure => e.mods = e.with
Handed(events) == \A i \in DOMAIN events : Right(events[i])

BoardInv(b) == BoardOK(b) /\ Settled(b) /\ Faithful(b) /\ Handed(b.queue)

LEMMA BoardTypes ==
    ASSUME NEW b, BoardOK(b)
    PROVE  /\ b.held \subseteq ModKeys /\ b.mods \subseteq Latches /\ b.doubt \subseteq Latches
           /\ b.fifo \in Seq(Entries) /\ Len(b.fifo) \in Nat /\ Len(b.fifo) <= FifoSize
           /\ DOMAIN b.fifo = 1 .. Len(b.fifo) /\ \A i \in 1 .. Len(b.fifo) : b.fifo[i] \in Entries
           /\ b.queue \in Seq(Events) /\ Len(b.queue) \in Nat /\ Len(b.queue) < KbdQueueSize
           /\ DOMAIN b.queue = 1 .. Len(b.queue)
           /\ \A i \in 1 .. Len(b.queue) : b.queue[i] \in Events
<1>1. /\ b.held \subseteq ModKeys /\ b.mods \subseteq Latches /\ b.doubt \subseteq Latches
      /\ b.fifo \in Seq(Entries) /\ b.queue \in Seq(Events)
  BY DEF BoardOK, Boards
<1> QED
  BY <1>1, LenProperties DEF BoardOK

LEMMA EntryTypes ==
    ASSUME NEW e \in Entries
    PROVE  /\ e.key \in Keys /\ e.down \in BOOLEAN /\ e.old \in BOOLEAN /\ e.sure \in BOOLEAN
           /\ e.with \subseteq Latches
           /\ e.key \in ModKeys => Latch(e.key) \in Latches
  BY Zenon DEF Entries, Latches

LEMMA NoKeysInv == BoardInv(NoKeys)
<1>1. NoKeys \in Boards
  BY DEF NoKeys, Boards
<1>2. NoKeys.fifo = <<>> /\ NoKeys.queue = <<>> /\ NoKeys.mods = {} /\ NoKeys.held = {}
  BY DEF NoKeys
<1>3. BoardOK(NoKeys)
  BY <1>1, <1>2, KeyboardAssumption DEF BoardOK
<1>4. Settled(NoKeys)
  BY <1>2, SetAtFirst DEF Settled, InTheEnd, Down
<1> QED
  BY <1>2, <1>3, <1>4 DEF BoardInv, Faithful, Handed

-----------------------------------------------------------------------------
(* The south bridge.                                                       *)

\* Fingers move one latch at most, and a key that is down holds it.
Moves(b, e, held) ==
    /\ e \in Entries /\ held \subseteq ModKeys
    /\ e.with = Down(b.held) /\ (e.sure => b.doubt = {})
    /\ \A l \in Latches : ~(e.key \in ModKeys /\ Latch(e.key) = l) =>
           (l \in Down(held) <=> l \in Down(b.held))
    /\ e.key \in ModKeys /\ e.down => Latch(e.key) \in Down(held)

LEMMA EnterKeeps ==
    ASSUME NEW b, BoardInv(b), NEW e, NEW held, Moves(b, e, held)
    PROVE  BoardInv(Enter(b, e, held))
<1> DEFINE c == Enter(b, e, held)
           n == Len(b.fifo)
           L == Latch(e.key)
           clear == n < FifoSize /\ (e.down \/ L \notin Down(held))
<1>1. /\ c.held = held /\ c.mods = b.mods /\ c.queue = b.queue
      /\ c.fifo = IF n < FifoSize THEN Append(b.fifo, e) ELSE b.fifo
      /\ c.doubt = IF e.key \notin ModKeys THEN b.doubt
                   ELSE IF clear THEN b.doubt \ {L} ELSE b.doubt \cup {L}
      /\ c = [held |-> c.held, fifo |-> c.fifo, mods |-> c.mods, queue |-> c.queue,
              doubt |-> c.doubt]
  <2> DEFINE f == IF n < FifoSize THEN Append(b.fifo, e) ELSE b.fifo
             d == IF e.key \notin ModKeys THEN b.doubt
                  ELSE IF clear THEN b.doubt \ {L} ELSE b.doubt \cup {L}
  <2>1. c = [b EXCEPT !.held = held, !.fifo = f, !.doubt = d]
    BY Zenon DEF Enter
  <2>2. b \in Boards
    BY DEF BoardInv, BoardOK
  <2> HIDE DEF f, d, c
  <2>3. /\ c.held = held /\ c.mods = b.mods /\ c.queue = b.queue /\ c.fifo = f
        /\ c.doubt = d
        /\ c = [held |-> c.held, fifo |-> c.fifo, mods |-> c.mods, queue |-> c.queue,
                doubt |-> c.doubt]
    BY <2>1, <2>2 DEF Boards
  <2> QED
    BY <2>3 DEF f, d
<1>2. BoardOK(b) /\ e \in Entries /\ held \subseteq ModKeys /\ FifoSize \in Nat
  BY KeyboardAssumption DEF BoardInv, Moves
<1>3. /\ b.fifo \in Seq(Entries) /\ n \in Nat /\ n <= FifoSize /\ DOMAIN b.fifo = 1 .. n
      /\ b.mods \subseteq Latches /\ b.doubt \subseteq Latches
      /\ b.queue \in Seq(Events) /\ Len(b.queue) < KbdQueueSize
  BY <1>2, BoardTypes
<1>4. e.key \in ModKeys => L \in Latches
  BY <1>2, EntryTypes
<1> HIDE DEF c
<1>5. c.fifo \in Seq(Entries) /\ Len(c.fifo) <= FifoSize
  BY <1>1, <1>2, <1>3, AppendProperties
<1>6. BoardOK(c)
  <2>1. c.doubt \subseteq Latches
    BY <1>1, <1>3, <1>4
  <2>2. c \in Boards
    BY <1>1, <1>2, <1>3, <1>5, <2>1 DEF Boards
  <2> QED
    BY <1>1, <1>3, <1>5, <2>2 DEF BoardOK
<1>7. Handed(c.queue)
  BY <1>1 DEF BoardInv
<1>8. ASSUME NEW l \in Latches, l \notin c.doubt, ~(e.key \in ModKeys /\ L = l)
      PROVE  l \notin b.doubt /\ (InTheEnd(b, l) <=> l \in Down(held))
  <2>1. l \notin b.doubt
    BY <1>1, <1>8
  <2>2. InTheEnd(b, l) <=> l \in Down(b.held)
    BY <2>1 DEF BoardInv, Settled
  <2> QED
    BY <1>8, <2>1, <2>2, Zenon DEF Moves
<1>9. CASE ~(n < FifoSize)
  <2>1. c.fifo = b.fifo /\ c.mods = b.mods /\ c.held = held
    BY <1>1, <1>9
  <2>2. Faithful(c)
    BY <2>1 DEF BoardInv, Faithful
  <2>3. ASSUME NEW l \in Latches \ c.doubt PROVE InTheEnd(c, l) <=> l \in Down(c.held)
    <3>1. ~(e.key \in ModKeys /\ L = l)
      BY <1>1, <1>9, <2>3
    <3> QED
      BY <1>8, <2>1, <2>3, <3>1 DEF InTheEnd
  <2>4. Settled(c)
    BY <2>3 DEF Settled
  <2> QED
    BY <1>6, <1>7, <2>2, <2>4 DEF BoardInv, c
<1>10. CASE n < FifoSize
  <2>1. /\ Len(c.fifo) = n + 1 /\ c.fifo[n + 1] = e /\ DOMAIN c.fifo = 1 .. n + 1
        /\ \A j \in 1 .. n : c.fifo[j] = b.fifo[j]
    BY <1>1, <1>2, <1>3, <1>10, AppendProperties
  <2>2. ASSUME NEW l \in Latches
        PROVE  \A i \in 0 .. n : SetAfter(c.mods, c.fifo, l, i) <=> SetAfter(b.mods, b.fifo, l, i)
    <3>1. l \in c.mods <=> SetAfter(b.mods, b.fifo, l, 0)
      BY <1>1, SetAtFirst
    <3>2. \A j \in 1 .. n : j + 0 = j
      OBVIOUS
    <3>3. \A j \in 1 .. n : /\ On(c.fifo[j], l) <=> On(b.fifo[j + 0], l)
                            /\ Off(c.fifo[j], l) <=> Off(b.fifo[j + 0], l)
      BY <2>1, <3>2, Zenon
    <3>4. \A i \in 0 .. n : SetAfter(c.mods, c.fifo, l, i) <=> SetAfter(b.mods, b.fifo, l, i + 0)
      BY <1>3, <3>1, <3>3, SetFollows
    <3>5. \A i \in 0 .. n : i + 0 = i
      BY <1>3
    <3> QED
      BY <3>4, <3>5, Zenon
  <2>3. ASSUME NEW l \in Latches
        PROVE  InTheEnd(c, l) <=> On(e, l) \/ (InTheEnd(b, l) /\ ~Off(e, l))
    <3>1. SetAfter(c.mods, c.fifo, l, n + 1) <=>
              On(e, l) \/ (SetAfter(c.mods, c.fifo, l, n) /\ ~Off(e, l))
      BY <1>3, <2>1, SetByNext
    <3>2. SetAfter(c.mods, c.fifo, l, n) <=> SetAfter(b.mods, b.fifo, l, n)
      BY <1>3, <2>2
    <3> QED
      BY <2>1, <3>1, <3>2, Zenon DEF InTheEnd
  <2>4. ASSUME NEW l \in Latches \ c.doubt PROVE InTheEnd(c, l) <=> l \in Down(c.held)
    <3>1. CASE ~(e.key \in ModKeys /\ L = l)
      <4>1. ~On(e, l) /\ ~Off(e, l)
        BY <3>1, Zenon DEF On, Off
      <4> QED
        BY <1>1, <1>8, <2>3, <2>4, <3>1, <4>1
    <3>2. CASE e.key \in ModKeys /\ L = l
      <4>1. e.down \/ L \notin Down(held)
        BY <1>1, <2>4, <3>2
      <4>2. CASE e.down
        <5>1. On(e, l) /\ l \in Down(held)
          BY <3>2, <4>2, Zenon DEF On, Moves
        <5> QED
          BY <1>1, <2>3, <2>4, <5>1
      <4>3. CASE ~e.down
        <5>1. Off(e, l) /\ ~On(e, l)
          BY <3>2, <4>3, Zenon DEF On, Off
        <5>2. l \notin Down(held)
          BY <3>2, <4>1, <4>3, Zenon
        <5> QED
          BY <1>1, <2>3, <2>4, <5>1, <5>2
      <4> QED
        BY <4>2, <4>3, Zenon
    <3> QED
      BY <3>1, <3>2
  <2>5. ASSUME NEW i \in 1 .. n + 1, c.fifo[i].sure, NEW l \in Latches
        PROVE  SetAfter(c.mods, c.fifo, l, i - 1) <=> l \in c.fifo[i].with
    <3>1. CASE i = n + 1
      <4>1. e.sure /\ c.fifo[i] = e
        BY <2>1, <2>5, <3>1
      <4>2. b.doubt = {} /\ e.with = Down(b.held)
        BY <4>1, Zenon DEF Moves
      <4>3. InTheEnd(b, l) <=> l \in Down(b.held)
        BY <4>2 DEF BoardInv, Settled
      <4>4. i - 1 = n /\ n \in 0 .. n
        BY <1>3, <3>1
      <4> QED
        BY <2>2, <4>1, <4>2, <4>3, <4>4 DEF InTheEnd
    <3>2. CASE i # n + 1
      <4>1. i \in DOMAIN b.fifo /\ i - 1 \in 0 .. n /\ c.fifo[i] = b.fifo[i]
        BY <1>3, <2>1, <3>2
      <4>2. SetAfter(b.mods, b.fifo, l, i - 1) <=> l \in b.fifo[i].with
        BY <2>5, <4>1, Zenon DEF BoardInv, Faithful
      <4> QED
        BY <2>2, <4>1, <4>2
    <3> QED
      BY <3>1, <3>2
  <2>6. Faithful(c)
    BY <2>1, <2>5, Zenon DEF Faithful
  <2>7. Settled(c)
    BY <2>4 DEF Settled
  <2> QED
    BY <1>6, <1>7, <2>6, <2>7 DEF BoardInv, c
<1> QED
  BY <1>9, <1>10 DEF c

\* Nothing that waits was typed before a disturbance.
Fresh(b) == /\ \A i \in DOMAIN b.fifo : ~b.fifo[i].old
            /\ \A i \in DOMAIN b.queue : ~b.queue[i].old

LEMMA EnterFresh ==
    ASSUME NEW b, BoardInv(b), NEW e \in Entries, ~e.old, NEW held, Fresh(b)
    PROVE  Fresh(Enter(b, e, held))
<1> DEFINE c == Enter(b, e, held)
<1>1. c.queue = b.queue /\ c.fifo = IF Len(b.fifo) < FifoSize THEN Append(b.fifo, e) ELSE b.fifo
  <2> DEFINE f == IF Len(b.fifo) < FifoSize THEN Append(b.fifo, e) ELSE b.fifo
  <2>1. \E d : c = [b EXCEPT !.held = held, !.fifo = f, !.doubt = d]
    BY Zenon DEF Enter
  <2>2. b \in Boards
    BY DEF BoardInv, BoardOK
  <2> HIDE DEF f, c
  <2>3. c.queue = b.queue /\ c.fifo = f
    BY <2>1, <2>2 DEF Boards
  <2> QED
    BY <2>3 DEF f
<1>2. b.fifo \in Seq(Entries) /\ Len(b.fifo) \in Nat /\ DOMAIN b.fifo = 1 .. Len(b.fifo)
  BY BoardTypes DEF BoardInv
<1> HIDE DEF c
<1>3. ASSUME NEW i \in DOMAIN c.fifo PROVE ~c.fifo[i].old
  <2>1. CASE c.fifo = b.fifo
    BY <2>1 DEF Fresh
  <2>2. CASE c.fifo = Append(b.fifo, e)
    <3>1. /\ c.fifo[Len(b.fifo) + 1] = e /\ DOMAIN c.fifo = 1 .. Len(b.fifo) + 1
          /\ \A j \in 1 .. Len(b.fifo) : c.fifo[j] = b.fifo[j]
      BY <1>2, <2>2, AppendProperties
    <3>2. i = Len(b.fifo) + 1 \/ i \in 1 .. Len(b.fifo)
      BY <1>2, <3>1
    <3> QED
      BY <1>2, <3>1, <3>2, Zenon DEF Fresh
  <2> QED
    BY <1>1, <2>1, <2>2
<1> QED
  BY <1>1, <1>3, Zenon DEF Fresh, c

LEMMA FingersKeep ==
    ASSUME NEW b, BoardInv(b), NEW k \in Keys
    PROVE  /\ BoardInv(Press(b, k)) /\ BoardInv(Release(b, k))
           /\ Fresh(b) => Fresh(Press(b, k)) /\ Fresh(Release(b, k))
<1>1. b.held \subseteq ModKeys
  BY BoardTypes DEF BoardInv
<1>2. Down(b.held) \subseteq Latches
  BY DEF Down, Latches
<1>3. ASSUME NEW down \in BOOLEAN
      PROVE  /\ Entry(b, k, down) \in Entries /\ Entry(b, k, down).key = k
             /\ Entry(b, k, down).down = down /\ Entry(b, k, down).with = Down(b.held)
             /\ Entry(b, k, down).sure = (b.doubt = {}) /\ ~Entry(b, k, down).old
  BY <1>2, Zenon DEF Entry, Entries
<1>4. Moves(b, Entry(b, k, TRUE), b.held \cup ({k} \cap ModKeys))
  <2> DEFINE held == b.held \cup ({k} \cap ModKeys)
             e == Entry(b, k, TRUE)
  <2>1. /\ e \in Entries /\ e.key = k /\ e.down /\ e.with = Down(b.held)
        /\ e.sure => b.doubt = {}
    BY <1>3, Zenon
  <2>2. held \subseteq ModKeys /\ (k \in ModKeys => Latch(k) \in Down(held))
    BY <1>1 DEF Down
  <2>3. ASSUME NEW l \in Latches, ~(k \in ModKeys /\ Latch(k) = l)
        PROVE  l \in Down(held) <=> l \in Down(b.held)
    BY <2>3 DEF Down
  <2> HIDE DEF e, held
  <2>4. Moves(b, e, held)
    BY <2>1, <2>2, <2>3, Zenon DEF Moves
  <2> QED
    BY <2>4 DEF e, held
<1>5. Moves(b, Entry(b, k, FALSE), b.held \ {k})
  <2> DEFINE held == b.held \ {k}
             e == Entry(b, k, FALSE)
  <2>1. /\ e \in Entries /\ e.key = k /\ ~e.down /\ e.with = Down(b.held)
        /\ e.sure => b.doubt = {}
    BY <1>3, Zenon
  <2>2. held \subseteq ModKeys
    BY <1>1
  <2>3. ASSUME NEW l \in Latches, ~(k \in ModKeys /\ Latch(k) = l)
        PROVE  l \in Down(held) <=> l \in Down(b.held)
    BY <2>3 DEF Down
  <2> HIDE DEF e, held
  <2>4. Moves(b, e, held)
    BY <2>1, <2>2, <2>3, Zenon DEF Moves
  <2> QED
    BY <2>4 DEF e, held
<1>6. \A down \in BOOLEAN : Entry(b, k, down) \in Entries /\ ~Entry(b, k, down).old
  BY <1>3, Zenon
<1>7. TRUE \in BOOLEAN /\ FALSE \in BOOLEAN
  OBVIOUS
<1> QED
  BY <1>4, <1>5, <1>6, <1>7, EnterKeeps, EnterFresh, Zenon DEF Press, Release

-----------------------------------------------------------------------------
(* Reading.                                                                *)

\* The first entry of b is gone, and the latches are as it leaves them, or in doubt.
Advances(b, c) ==
    /\ c.held = b.held /\ b.doubt \subseteq c.doubt
    /\ Len(c.fifo) = Len(b.fifo) - 1
    /\ \A j \in 1 .. Len(b.fifo) - 1 :
          /\ \A l : On(c.fifo[j], l) <=> On(b.fifo[j + 1], l)
          /\ \A l : Off(c.fifo[j], l) <=> Off(b.fifo[j + 1], l)
          /\ c.fifo[j].with = b.fifo[j + 1].with
          /\ c.fifo[j].sure => b.fifo[j + 1].sure
    /\ \/ \A l \in Latches : l \in c.mods <=> SetAfter(b.mods, b.fifo, l, 1)
       \/ /\ \A l \in Latches \ c.doubt : l \in c.mods <=> SetAfter(b.mods, b.fifo, l, 1)
          /\ \A j \in 1 .. Len(b.fifo) - 1 : ~c.fifo[j].sure

LEMMA AdvanceKeeps ==
    ASSUME NEW b, BoardInv(b), Len(b.fifo) > 0, NEW c, BoardOK(c), Advances(b, c)
    PROVE  Settled(c) /\ Faithful(c)
<1> DEFINE n == Len(b.fifo) - 1
<1>1. Len(b.fifo) \in Nat /\ DOMAIN b.fifo = 1 .. Len(b.fifo) /\ DOMAIN c.fifo = 1 .. Len(c.fifo)
  BY BoardTypes DEF BoardInv
<1>2. n \in Nat /\ n + 1 = Len(b.fifo) /\ Len(c.fifo) = n
  BY <1>1 DEF Advances
<1>3. ASSUME NEW l \in Latches, l \in c.mods <=> SetAfter(b.mods, b.fifo, l, 1)
      PROVE  \A i \in 0 .. n :
                 SetAfter(c.mods, c.fifo, l, i) <=> SetAfter(b.mods, b.fifo, l, i + 1)
  <2>1. \A j \in 1 .. n : /\ On(c.fifo[j], l) <=> On(b.fifo[j + 1], l)
                          /\ Off(c.fifo[j], l) <=> Off(b.fifo[j + 1], l)
    BY Zenon DEF Advances
  <2> HIDE DEF n
  <2>2. n \in Nat /\ 1 \in Nat
    BY <1>2
  <2> QED
    BY <1>3, <2>1, <2>2, SetFollows, Zenon
<1>4. \A l \in Latches \ c.doubt : l \in c.mods <=> SetAfter(b.mods, b.fifo, l, 1)
  BY DEF Advances
<1> HIDE DEF n
<1>5. ASSUME NEW l \in Latches \ c.doubt PROVE InTheEnd(c, l) <=> l \in Down(c.held)
  <2>1. n \in 0 .. n
    BY <1>2
  <2>2. SetAfter(c.mods, c.fifo, l, n) <=> SetAfter(b.mods, b.fifo, l, n + 1)
    BY <1>3, <1>4, <2>1
  <2>3. l \in Latches \ b.doubt
    BY DEF Advances
  <2>4. InTheEnd(b, l) <=> l \in Down(b.held)
    BY <2>3 DEF BoardInv, Settled
  <2>5. c.held = b.held
    BY DEF Advances
  <2> QED
    BY <1>2, <2>2, <2>4, <2>5 DEF InTheEnd
<1>6. ASSUME NEW i \in DOMAIN c.fifo, c.fifo[i].sure, NEW l \in Latches
      PROVE  SetAfter(c.mods, c.fifo, l, i - 1) <=> l \in c.fifo[i].with
  <2>1. /\ i \in 1 .. n /\ i - 1 \in 0 .. n /\ (i - 1) + 1 = i /\ i + 1 \in DOMAIN b.fifo
        /\ (i + 1) - 1 = i
    BY <1>1, <1>2
  <2>2. c.fifo[i].with = b.fifo[i + 1].with /\ b.fifo[i + 1].sure
    BY <1>6, <2>1, Zenon DEF Advances, n
  <2>3. l \in c.mods <=> SetAfter(b.mods, b.fifo, l, 1)
    BY <1>6, <2>1, Zenon DEF Advances, n
  <2>4. SetAfter(b.mods, b.fifo, l, (i + 1) - 1) <=> l \in b.fifo[i + 1].with
    BY <2>1, <2>2, Zenon DEF BoardInv, Faithful
  <2>5. SetAfter(c.mods, c.fifo, l, i - 1) <=> SetAfter(b.mods, b.fifo, l, (i - 1) + 1)
    BY <1>3, <2>1, <2>3
  <2> QED
    BY <2>1, <2>2, <2>4, <2>5
<1>7. Settled(c)
  BY <1>5 DEF Settled
<1>8. Faithful(c)
  BY <1>6, Zenon DEF Faithful
<1> QED
  BY <1>7, <1>8

LEMMA TailEntries ==
    ASSUME NEW b, BoardOK(b), Len(b.fifo) > 0
    PROVE  /\ Tail(b.fifo) \in Seq(Entries) /\ Len(Tail(b.fifo)) = Len(b.fifo) - 1
           /\ Head(b.fifo) = b.fifo[1] /\ b.fifo[1] \in Entries /\ 1 \in DOMAIN b.fifo
           /\ DOMAIN Tail(b.fifo) = 1 .. Len(b.fifo) - 1
           /\ \A j \in 1 .. Len(b.fifo) - 1 :
                 j + 1 \in DOMAIN b.fifo /\ Tail(b.fifo)[j] = b.fifo[j + 1]
<1>1. b.fifo \in Seq(Entries) /\ Len(b.fifo) \in Nat /\ DOMAIN b.fifo = 1 .. Len(b.fifo)
      /\ \A i \in 1 .. Len(b.fifo) : b.fifo[i] \in Entries
  BY BoardTypes
<1>2. b.fifo # <<>>
  BY <1>1
<1>3. /\ Tail(b.fifo) \in Seq(Entries) /\ Len(Tail(b.fifo)) = Len(b.fifo) - 1
      /\ Head(b.fifo) = b.fifo[1]
      /\ \A i \in 1 .. Len(Tail(b.fifo)) : Tail(b.fifo)[i] = b.fifo[i + 1]
  BY <1>1, <1>2, HeadTailProperties
<1>4. DOMAIN Tail(b.fifo) = 1 .. Len(b.fifo) - 1
  BY <1>3
<1>5. 1 \in 1 .. Len(b.fifo) /\ \A j \in 1 .. Len(b.fifo) - 1 : j + 1 \in 1 .. Len(b.fifo)
  BY <1>1
<1> QED
  BY <1>1, <1>3, <1>4, <1>5

\* The event that push() makes of an entry.
Event(b, e) == [key |-> e.key, mods |-> b.mods, with |-> e.with, old |-> e.old,
                sure |-> e.sure]

LEMMA EventRight ==
    ASSUME NEW b, BoardInv(b), Len(b.fifo) > 0, b.fifo[1].key \in PlainKeys
    PROVE  /\ Event(b, b.fifo[1]) \in Events /\ Right(Event(b, b.fifo[1]))
           /\ Event(b, b.fifo[1]).old = b.fifo[1].old
<1> DEFINE e == b.fifo[1]
           v == Event(b, e)
<1>1. e \in Entries /\ 1 \in DOMAIN b.fifo /\ b.mods \subseteq Latches
  BY TailEntries, BoardTypes DEF BoardInv
<1>2. /\ e.old \in BOOLEAN /\ e.sure \in BOOLEAN /\ e.with \subseteq Latches
  BY <1>1, EntryTypes
<1>3. v.mods = b.mods /\ v.with = e.with /\ v.sure = e.sure /\ v.old = e.old
  BY Zenon DEF Event
<1>4. v \in Events
  BY <1>1, <1>2, Zenon DEF Events, Event
<1>5. ASSUME e.sure PROVE b.mods = e.with
  <2>1. \A l \in Latches : SetAfter(b.mods, b.fifo, l, 1 - 1) <=> l \in e.with
    BY <1>1, <1>5, Zenon DEF BoardInv, Faithful
  <2>2. \A l \in Latches : l \in b.mods <=> l \in e.with
    BY <2>1, SetAtFirst
  <2> QED
    BY <1>1, <1>2, <2>2
<1> QED
  BY <1>3, <1>4, <1>5, Zenon DEF Right

\* An event that goes to the end of a queue.
LEMMA AppendEvent ==
    ASSUME NEW events \in Seq(Events), Handed(events), NEW v \in Events, Right(v)
    PROVE  Append(events, v) \in Seq(Events) /\ Handed(Append(events, v))
<1>1. /\ Append(events, v) \in Seq(Events) /\ Len(Append(events, v)) = Len(events) + 1
      /\ Append(events, v)[Len(events) + 1] = v /\ Len(events) \in Nat
      /\ \A i \in 1 .. Len(events) : Append(events, v)[i] = events[i]
      /\ DOMAIN events = 1 .. Len(events)
  BY AppendProperties
<1>2. ASSUME NEW i \in DOMAIN Append(events, v) PROVE Right(Append(events, v)[i])
  <2>1. i \in 1 .. Len(events) \/ i = Len(events) + 1
    BY <1>1
  <2> QED
    BY <1>1, <2>1, Zenon DEF Handed
<1> QED
  BY <1>1, <1>2 DEF Handed

\* What poll_once() leaves: the latches follow a modifier, and an event is queued for
\* another key that went down, if there is room.
LEMMA PollParts ==
    ASSUME NEW b, BoardInv(b), Len(b.fifo) > 0
    PROVE  LET c == poll_once(b)
               e == b.fifo[1]
           IN  /\ c = [held |-> c.held, fifo |-> c.fifo, mods |-> c.mods,
                       queue |-> c.queue, doubt |-> c.doubt]
               /\ c.held = b.held /\ c.doubt = b.doubt /\ c.fifo = Tail(b.fifo)
               /\ c.mods = IF e.key \in ModKeys
                           THEN IF e.down THEN b.mods \cup {Latch(e.key)}
                                ELSE b.mods \ {Latch(e.key)}
                           ELSE b.mods
               /\ \/ c.queue = b.queue
                  \/ /\ e.key \in PlainKeys /\ Len(b.queue) # KbdQueueSize - 1
                     /\ c.queue = Append(b.queue, Event(b, e))
<1> DEFINE c == poll_once(b)
           e == b.fifo[1]
           m == IF e.down THEN b.mods \cup {Latch(e.key)} ELSE b.mods \ {Latch(e.key)}
           rest == [b EXCEPT !.fifo = Tail(b.fifo)]
           noted == [rest EXCEPT !.queue = Append(rest.queue, Event(rest, e))]
<1>1. b \in Boards /\ Head(b.fifo) = e /\ e \in Entries
  BY TailEntries DEF BoardInv, BoardOK
<1>2. \/ e.key \in ModKeys /\ c = [rest EXCEPT !.mods = m]
      \/ e.key \notin ModKeys /\ c = rest
      \/ /\ e.key \notin ModKeys /\ Len(rest.queue) # KbdQueueSize - 1 /\ c = noted
  <2>1. rest.mods = b.mods
    BY <1>1 DEF Boards
  <2> QED
    BY <1>1, <2>1, Zenon DEF poll_once, push, Event
<1>3. e.key \in Keys
  BY <1>1, EntryTypes
<1> HIDE DEF e, c
<1>4. CASE e.key \in ModKeys /\ c = [rest EXCEPT !.mods = m]
  <2> HIDE DEF m
  <2>1. /\ c = [held |-> c.held, fifo |-> c.fifo, mods |-> c.mods,
                queue |-> c.queue, doubt |-> c.doubt]
        /\ c.held = b.held /\ c.doubt = b.doubt /\ c.fifo = Tail(b.fifo)
        /\ c.mods = m /\ c.queue = b.queue
    BY <1>1, <1>4 DEF Boards
  <2> QED
    BY <1>4, <2>1 DEF m, c, e
<1>5. CASE e.key \notin ModKeys /\ c = rest
  BY <1>1, <1>5 DEF Boards, c, e
<1>6. CASE e.key \notin ModKeys /\ Len(rest.queue) # KbdQueueSize - 1 /\ c = noted
  <2>1. rest.queue = b.queue /\ Event(rest, e) = Event(b, e)
    BY <1>1 DEF Boards, Event
  <2> DEFINE q == Append(b.queue, Event(b, e))
  <2> HIDE DEF q
  <2>2. c = [[b EXCEPT !.fifo = Tail(b.fifo)] EXCEPT !.queue = q]
    BY <1>6, <2>1 DEF q
  <2>3. /\ c = [held |-> c.held, fifo |-> c.fifo, mods |-> c.mods,
                queue |-> c.queue, doubt |-> c.doubt]
        /\ c.held = b.held /\ c.doubt = b.doubt /\ c.fifo = Tail(b.fifo)
        /\ c.mods = b.mods /\ c.queue = q
    BY <1>1, <2>2 DEF Boards
  <2> QED
    BY <1>3, <1>6, <2>1, <2>3, Zenon DEF c, e, q, Keys
<1> QED
  BY <1>2, <1>4, <1>5, <1>6

LEMMA AppendOne ==
    ASSUME NEW S, NEW s \in Seq(S), NEW v \in S
    PROVE  /\ Append(s, v) \in Seq(S) /\ Len(Append(s, v)) = Len(s) + 1 /\ Len(s) \in Nat
           /\ \A i \in DOMAIN Append(s, v) :
                 \/ Append(s, v)[i] = v
                 \/ i \in DOMAIN s /\ Append(s, v)[i] = s[i]
<1>1. /\ Append(s, v) \in Seq(S) /\ Len(Append(s, v)) = Len(s) + 1 /\ Len(s) \in Nat
      /\ Append(s, v)[Len(s) + 1] = v
      /\ \A i \in 1 .. Len(s) : Append(s, v)[i] = s[i]
      /\ DOMAIN s = 1 .. Len(s)
  BY AppendProperties
<1> QED
  BY <1>1

\* One more entry is read.
LEMMA PollKeeps ==
    ASSUME NEW b, BoardInv(b), Len(b.fifo) > 0
    PROVE  /\ BoardInv(poll_once(b)) /\ Len(poll_once(b).fifo) = Len(b.fifo) - 1
           /\ Fresh(b) => Fresh(poll_once(b))
<1> DEFINE c == poll_once(b)
           e == b.fifo[1]
           v == Event(b, e)
<1>1. /\ c = [held |-> c.held, fifo |-> c.fifo, mods |-> c.mods,
              queue |-> c.queue, doubt |-> c.doubt]
      /\ c.held = b.held /\ c.doubt = b.doubt /\ c.fifo = Tail(b.fifo)
      /\ c.mods = IF e.key \in ModKeys
                  THEN IF e.down THEN b.mods \cup {Latch(e.key)}
                       ELSE b.mods \ {Latch(e.key)}
                  ELSE b.mods
      /\ \/ c.queue = b.queue
         \/ /\ e.key \in PlainKeys /\ Len(b.queue) # KbdQueueSize - 1
            /\ c.queue = Append(b.queue, v)
  BY PollParts
<1>2. BoardOK(b) /\ b.queue \in Seq(Events) /\ Handed(b.queue)
  BY BoardTypes DEF BoardInv
<1>3. e.key \in PlainKeys => v \in Events /\ Right(v) /\ v.old = e.old
  BY EventRight
<1>4. e \in Entries /\ 1 \in DOMAIN b.fifo /\ (e.key \in ModKeys => Latch(e.key) \in Latches)
  BY <1>2, TailEntries, EntryTypes
<1> HIDE DEF c, v
<1>5. /\ c.queue \in Seq(Events) /\ Handed(c.queue) /\ Len(c.queue) < KbdQueueSize
      /\ Fresh(b) => \A i \in DOMAIN c.queue : ~c.queue[i].old
  <2>1. CASE c.queue = b.queue
    BY <1>2, <2>1, BoardTypes DEF Fresh
  <2>2. CASE c.queue # b.queue
    <3>1. v \in Events /\ Right(v) /\ v.old = e.old /\ c.queue = Append(b.queue, v)
      BY <1>1, <1>3, <2>2
    <3>2. Len(b.queue) # KbdQueueSize - 1
      BY <1>1, <2>2
    <3>3. /\ c.queue \in Seq(Events) /\ Len(c.queue) = Len(b.queue) + 1
          /\ Len(b.queue) \in Nat
          /\ \A i \in DOMAIN c.queue :
                c.queue[i] = v \/ (i \in DOMAIN b.queue /\ c.queue[i] = b.queue[i])
      BY <1>2, <3>1, AppendOne
    <3>4. Len(c.queue) < KbdQueueSize
      BY <1>2, <3>2, <3>3, KeyboardAssumption, BoardTypes
    <3>5. Handed(c.queue)
      BY <1>2, <3>1, AppendEvent
    <3>6. Fresh(b) => \A i \in DOMAIN c.queue : ~c.queue[i].old
      BY <1>4, <3>1, <3>3, Zenon DEF Fresh
    <3> QED
      BY <3>3, <3>4, <3>5, <3>6
  <2> QED
    BY <2>1, <2>2
<1>6. /\ c.fifo \in Seq(Entries) /\ Len(c.fifo) = Len(b.fifo) - 1
      /\ DOMAIN c.fifo = 1 .. Len(b.fifo) - 1
      /\ \A j \in 1 .. Len(b.fifo) - 1 : j + 1 \in DOMAIN b.fifo /\ c.fifo[j] = b.fifo[j + 1]
  BY <1>1, <1>2, TailEntries
<1>7. c.mods \subseteq Latches /\ Len(c.fifo) <= FifoSize
  BY <1>1, <1>2, <1>4, <1>6, BoardTypes, KeyboardAssumption
<1>8. BoardOK(c)
  <2>1. /\ c.held \in SUBSET ModKeys /\ c.mods \in SUBSET Latches
        /\ c.doubt \in SUBSET Latches
    BY <1>1, <1>2, <1>7, BoardTypes
  <2>2. c \in Boards
    BY <1>1, <1>5, <1>6, <2>1 DEF Boards
  <2> QED
    BY <1>5, <1>7, <2>2 DEF BoardOK
<1>9. ASSUME NEW l \in Latches PROVE l \in c.mods <=> SetAfter(b.mods, b.fifo, l, 1)
  <2>1. SetAfter(b.mods, b.fifo, l, 0 + 1) <=>
            On(b.fifo[0 + 1], l) \/ (SetAfter(b.mods, b.fifo, l, 0) /\ ~Off(b.fifo[0 + 1], l))
    BY SetByNext
  <2>2. SetAfter(b.mods, b.fifo, l, 1) <=> On(e, l) \/ (l \in b.mods /\ ~Off(e, l))
    BY <2>1, SetAtFirst
  <2> HIDE DEF e
  <2> QED
    BY <1>1, <2>2, Zenon DEF On, Off
<1>10. Advances(b, c)
  <2>1. \A j \in 1 .. Len(b.fifo) - 1 :
           /\ \A l : On(c.fifo[j], l) <=> On(b.fifo[j + 1], l)
           /\ \A l : Off(c.fifo[j], l) <=> Off(b.fifo[j + 1], l)
           /\ c.fifo[j].with = b.fifo[j + 1].with
           /\ c.fifo[j].sure => b.fifo[j + 1].sure
    BY <1>6, Zenon
  <2> QED
    BY <1>1, <1>6, <1>9, <2>1, Zenon DEF Advances
<1>11. BoardInv(c)
  BY <1>5, <1>8, <1>10, AdvanceKeeps DEF BoardInv
<1>12. Fresh(b) => Fresh(c)
  BY <1>5, <1>6, Zenon DEF Fresh
<1> QED
  BY <1>6, <1>11, <1>12 DEF c

\* An entry that is lost in a read leaves its latch in doubt, and with it every key
\* that was pressed before the modifier is settled again.
LEMMA DropKeeps ==
    ASSUME NEW b, BoardInv(b), Len(b.fifo) > 0
    PROVE  BoardInv(Drop(b)) /\ (Fresh(b) => Fresh(Drop(b)))
<1> DEFINE c == Drop(b)
           e == b.fifo[1]
           rest == Tail(b.fifo)
           unsure == [i \in DOMAIN rest |-> [rest[i] EXCEPT !.sure = FALSE]]
           n == Len(b.fifo) - 1
<1>1. BoardOK(b) /\ b \in Boards /\ Handed(b.queue)
  BY DEF BoardInv, BoardOK
<1>2. /\ rest \in Seq(Entries) /\ Len(rest) = n /\ Head(b.fifo) = e /\ e \in Entries
      /\ DOMAIN rest = 1 .. n /\ n \in Nat
      /\ \A j \in 1 .. n : j + 1 \in DOMAIN b.fifo /\ rest[j] = b.fifo[j + 1]
  BY <1>1, TailEntries, BoardTypes
<1>3. e.key \in Keys /\ (e.key \in ModKeys => Latch(e.key) \in Latches)
  BY <1>2, EntryTypes
<1>4. \/ e.key \in PlainKeys /\ c = [b EXCEPT !.fifo = rest]
      \/ /\ e.key \in ModKeys
         /\ c = [b EXCEPT !.doubt = b.doubt \cup {Latch(e.key)}, !.fifo = unsure]
  BY <1>2, <1>3, Zenon DEF Drop, Keys
<1> HIDE DEF unsure, c
<1>5. /\ c = [held |-> c.held, fifo |-> c.fifo, mods |-> c.mods,
              queue |-> c.queue, doubt |-> c.doubt]
      /\ c.held = b.held /\ c.mods = b.mods /\ c.queue = b.queue
      /\ \/ e.key \in PlainKeys /\ c.fifo = rest /\ c.doubt = b.doubt
         \/ e.key \in ModKeys /\ c.fifo = unsure /\ c.doubt = b.doubt \cup {Latch(e.key)}
  BY <1>1, <1>4 DEF Boards
<1>6. ASSUME NEW t \in Entries
      PROVE  LET u == [t EXCEPT !.sure = FALSE]
             IN  /\ u \in Entries /\ u.key = t.key /\ u.down = t.down /\ u.with = t.with
                 /\ u.old = t.old /\ ~u.sure
  BY Zenon DEF Entries
<1>7. /\ unsure \in Seq(Entries) /\ Len(unsure) = n
      /\ \A j \in 1 .. n : /\ unsure[j].key = rest[j].key /\ unsure[j].down = rest[j].down
                           /\ unsure[j].with = rest[j].with /\ unsure[j].old = rest[j].old
                           /\ ~unsure[j].sure
  <2>1. unsure = [i \in 1 .. n |-> unsure[i]]
        /\ \A i \in 1 .. n : unsure[i] = [rest[i] EXCEPT !.sure = FALSE]
    BY <1>2 DEF unsure
  <2>2. \A i \in 1 .. n : rest[i] \in Entries
    BY <1>2
  <2>3. \A i \in 1 .. n : unsure[i] \in Entries
    BY <1>6, <2>1, <2>2, Zenon
  <2>4. unsure \in Seq(Entries) /\ Len(unsure) = n
    <3> HIDE DEF n
    <3>1. n \in Nat
      BY <1>2
    <3>2. unsure = [i \in 1 .. n |-> unsure[i]]
      BY <2>1
    <3>3. unsure \in [1 .. n -> Entries]
      BY <2>3, <3>2, Zenon
    <3> QED
      BY <3>1, <3>3
  <2> QED
    BY <1>6, <2>1, <2>2, <2>4, Zenon
<1>8. /\ c.fifo \in Seq(Entries) /\ Len(c.fifo) = n /\ DOMAIN c.fifo = 1 .. n
      /\ \A j \in 1 .. n : /\ c.fifo[j].key = rest[j].key /\ c.fifo[j].down = rest[j].down
                           /\ c.fifo[j].with = rest[j].with /\ c.fifo[j].old = rest[j].old
                           /\ (c.fifo[j].sure => rest[j].sure)
  <2>1. CASE c.fifo = rest
    BY <1>2, <2>1, Zenon
  <2>2. CASE c.fifo = unsure
    <3>1. DOMAIN unsure = 1 .. n
      BY <1>7, <1>2
    <3> QED
      BY <1>7, <2>2, <3>1, Zenon
  <2> QED
    BY <1>5, <2>1, <2>2
<1>9. BoardOK(c)
  <2>1. /\ c.held \in SUBSET ModKeys /\ c.mods \in SUBSET Latches
        /\ c.doubt \in SUBSET Latches /\ c.queue \in Seq(Events)
        /\ Len(c.queue) < KbdQueueSize /\ Len(c.fifo) <= FifoSize
    BY <1>1, <1>3, <1>5, <1>8, BoardTypes, KeyboardAssumption
  <2>2. c \in Boards
    BY <1>5, <1>8, <2>1 DEF Boards
  <2> QED
    BY <2>1, <2>2 DEF BoardOK
<1>10. \A j \in 1 .. n :
          /\ \A l : On(c.fifo[j], l) <=> On(b.fifo[j + 1], l)
          /\ \A l : Off(c.fifo[j], l) <=> Off(b.fifo[j + 1], l)
          /\ c.fifo[j].with = b.fifo[j + 1].with
          /\ c.fifo[j].old = b.fifo[j + 1].old
          /\ c.fifo[j].sure => b.fifo[j + 1].sure
  BY <1>2, <1>8, Zenon DEF On, Off
<1>11. ASSUME NEW l \in Latches, ~(e.key \in ModKeys /\ Latch(e.key) = l)
       PROVE  l \in c.mods <=> SetAfter(b.mods, b.fifo, l, 1)
  <2>1. SetAfter(b.mods, b.fifo, l, 0 + 1) <=>
            On(b.fifo[0 + 1], l) \/ (SetAfter(b.mods, b.fifo, l, 0) /\ ~Off(b.fifo[0 + 1], l))
    BY SetByNext
  <2>2. SetAfter(b.mods, b.fifo, l, 1) <=> On(e, l) \/ (l \in b.mods /\ ~Off(e, l))
    BY <2>1, SetAtFirst
  <2> HIDE DEF e
  <2> QED
    BY <1>5, <1>11, <2>2, Zenon DEF On, Off
<1>12. Advances(b, c)
  <2>1. b.doubt \subseteq c.doubt
    BY <1>5
  <2>2. CASE e.key \in PlainKeys
    <3>1. \A l \in Latches : l \in c.mods <=> SetAfter(b.mods, b.fifo, l, 1)
      BY <1>11, <2>2, KeyboardAssumption
    <3> QED
      BY <1>5, <1>8, <1>10, <2>1, <3>1, Zenon DEF Advances
  <2>3. CASE e.key \notin PlainKeys
    <3>1. c.fifo = unsure /\ c.doubt = b.doubt \cup {Latch(e.key)}
      BY <1>5, <2>3
    <3>2. \A l \in Latches \ c.doubt : l \in c.mods <=> SetAfter(b.mods, b.fifo, l, 1)
      BY <1>11, <3>1
    <3>3. \A j \in 1 .. n : ~c.fifo[j].sure
      BY <1>7, <3>1, Zenon
    <3> QED
      BY <1>5, <1>8, <1>10, <2>1, <3>2, <3>3, Zenon DEF Advances
  <2> QED
    BY <2>2, <2>3
<1>13. BoardInv(c)
  BY <1>1, <1>5, <1>9, <1>12, AdvanceKeeps DEF BoardInv
<1>14. Fresh(b) => Fresh(c)
  BY <1>2, <1>5, <1>8, <1>10, Zenon DEF Fresh
<1> QED
  BY <1>13, <1>14 DEF c

-----------------------------------------------------------------------------
(* Polling.                                                                *)

\* After i entries of b the keyboard is c.
Progress(b, i, c) ==
    BoardInv(c) /\ Len(c.fifo) = Len(b.fifo) - i /\ (Fresh(b) => Fresh(c))

\* The first n entries are read, one after the other.
LEMMA ReadKeeps ==
    ASSUME NEW b, BoardInv(b), NEW n \in 0 .. Len(b.fifo)
    PROVE  Progress(b, n, Read(b, n))
<1> DEFINE S == {c \in Boards : BoardInv(c)}
           once(c) == IF Len(c.fifo) > 0 THEN poll_once(c) ELSE c
           step == [p \in (1 .. n) \X S |-> once(p[2])]
           body(after, i) == IF i = 0 THEN b ELSE poll_once(after[i - 1])
           chosen == CHOOSE after : after = [i \in 0 .. n |-> body(after, i)]
<1>1. n \in Nat /\ Len(b.fifo) \in Nat /\ n <= Len(b.fifo) /\ b \in S
  BY BoardTypes DEF BoardInv, BoardOK
<1>2. \A c \in S : once(c) \in S
  <2>1. \A c : BoardInv(c) => c \in Boards
    BY Zenon DEF BoardInv, BoardOK
  <2> QED
    BY <2>1, PollKeeps
<1>3. \A i \in 1 .. n : \A c \in S : step[<<i, c>>] = once(c)
  OBVIOUS
<1> HIDE DEF step
<1>4. Closed(step, n, S)
  BY <1>2, <1>3 DEF Closed
<1>5. PICK f : Runs(f, step, n, S, b)
  BY <1>1, <1>4, BoundedRecursion
<1>6. f \in [0 .. n -> S] /\ f[0] = b
  BY <1>5 DEF Runs
<1>7. ASSUME NEW i \in 1 .. n PROVE f[i] = once(f[i - 1])
  <2>1. f[i - 1] \in S
    BY <1>1, <1>6
  <2> QED
    BY <1>3, <1>5, <2>1 DEF Runs
<1> DEFINE A == {i \in Nat : i <= n => Progress(b, i, f[i])}
<1>8. 0 \in A
  BY <1>1, <1>6 DEF Progress
<1>9. ASSUME NEW i \in Nat, i \in A, i + 1 <= n
      PROVE  f[i + 1] = poll_once(f[i]) /\ Progress(b, i + 1, f[i + 1])
  <2>1. Progress(b, i, f[i]) /\ i + 1 \in 1 .. n /\ (i + 1) - 1 = i
    BY <1>1, <1>9
  <2>2. BoardInv(f[i]) /\ Len(f[i].fifo) = Len(b.fifo) - i /\ (Fresh(b) => Fresh(f[i]))
    BY <2>1, Zenon DEF Progress
  <2>3. Len(f[i].fifo) > 0
    BY <1>1, <1>9, <2>2
  <2>4. f[i + 1] = poll_once(f[i])
    BY <1>7, <2>1, <2>3
  <2>5. /\ BoardInv(poll_once(f[i])) /\ Len(poll_once(f[i]).fifo) = Len(f[i].fifo) - 1
        /\ Fresh(f[i]) => Fresh(poll_once(f[i]))
    BY <2>2, <2>3, PollKeeps
  <2>6. Len(poll_once(f[i]).fifo) = Len(b.fifo) - (i + 1)
    BY <1>1, <2>2, <2>5
  <2> QED
    BY <2>2, <2>4, <2>5, <2>6, Zenon DEF Progress
<1>10. \A i \in Nat : i \in A => i + 1 \in A
  BY <1>9
<1>11. \A i \in Nat : i \in A
  <2> HIDE DEF A
  <2> QED
    BY <1>8, <1>10, SetInduction
<1>12. ASSUME NEW i \in 1 .. n PROVE f[i] = poll_once(f[i - 1])
  <2>1. i - 1 \in Nat /\ (i - 1) + 1 = i /\ i <= n
    BY <1>1
  <2>2. i - 1 \in A
    BY <1>11, <2>1
  <2> HIDE DEF A
  <2> QED
    BY <1>9, <2>1, <2>2
<1>13. ASSUME NEW after
       PROVE  body(after, 0) = b /\ \A i \in 1 .. n : body(after, i) = poll_once(after[i - 1])
  <2>1. \A i \in 1 .. n : i # 0
    BY <1>1
  <2> QED
    BY <2>1, Zenon
<1>14. Read(b, n) = chosen[n]
  BY Zenon DEF Read
<1> HIDE DEF body, A, S
<1>15. f = [i \in 0 .. n |-> body(f, i)]
  <2>1. ASSUME NEW i \in 0 .. n PROVE f[i] = body(f, i)
    <3>1. i = 0 \/ i \in 1 .. n
      BY <1>1
    <3> QED
      BY <1>6, <1>12, <1>13, <3>1, Zenon
  <2> QED
    BY <1>6, <2>1, Zenon
<1>16. chosen = [i \in 0 .. n |-> body(chosen, i)]
  BY <1>15, Zenon
<1> HIDE DEF chosen
<1>17. chosen[0] = b /\ \A i \in 1 .. n : chosen[i] = poll_once(chosen[i - 1])
  <2>1. 0 \in 0 .. n /\ \A i \in 1 .. n : i \in 0 .. n
    BY <1>1
  <2>2. \A i \in 0 .. n : chosen[i] = body(chosen, i)
    BY <1>16
  <2> QED
    BY <1>13, <2>1, <2>2, Zenon
<1> DEFINE B == {i \in Nat : i <= n => chosen[i] = f[i]}
<1>18. 0 \in B
  BY <1>6, <1>17
<1>19. ASSUME NEW i \in Nat, i \in B, i + 1 <= n PROVE chosen[i + 1] = f[i + 1]
  <2>1. i + 1 \in 1 .. n /\ (i + 1) - 1 = i /\ chosen[i] = f[i]
    BY <1>1, <1>19
  <2> QED
    BY <1>12, <1>17, <2>1
<1>20. \A i \in Nat : i \in B => i + 1 \in B
  BY <1>19
<1>21. n \in B
  <2> HIDE DEF B
  <2> QED
    BY <1>1, <1>18, <1>20, SetInduction
<1>22. Read(b, n) = f[n] /\ Progress(b, n, f[n])
  BY <1>1, <1>11, <1>14, <1>21 DEF A
<1> QED
  BY <1>22

\* Whatever a poll reads, and wherever it fails, it leaves a keyboard that is right.
LEMMA PollsKeep ==
    ASSUME NEW b, BoardInv(b), NEW c \in {keyboard_poll(b)} \cup PollsThatFail(b)
    PROVE  BoardInv(c) /\ (Fresh(b) => Fresh(c))
<1>1. Len(b.fifo) \in Nat /\ KbdQueueSize \in Nat
  BY BoardTypes, KeyboardAssumption DEF BoardInv
<1>2. Most(b) \in 0 .. Len(b.fifo)
  BY <1>1 DEF Most, Waiting
<1>3. ASSUME NEW n \in 0 .. Len(b.fifo)
      PROVE  /\ BoardInv(Read(b, n)) /\ (Fresh(b) => Fresh(Read(b, n)))
             /\ Len(Read(b, n).fifo) = Len(b.fifo) - n
  BY ReadKeeps DEF Progress
<1>4. CASE c = keyboard_poll(b)
  BY <1>2, <1>3, <1>4 DEF keyboard_poll
<1>5. CASE c \in PollsThatFail(b)
  <2>1. PICK n \in 0 .. Most(b) - 1 : c = Read(b, n) \/ c = Drop(Read(b, n))
    BY <1>5 DEF PollsThatFail
  <2>2. n \in 0 .. Len(b.fifo) /\ Len(b.fifo) - n > 0
    BY <1>1, <1>2, <2>1
  <2>3. /\ BoardInv(Read(b, n)) /\ (Fresh(b) => Fresh(Read(b, n)))
        /\ Len(Read(b, n).fifo) > 0
    BY <1>3, <2>2
  <2>4. BoardInv(Drop(Read(b, n))) /\ (Fresh(Read(b, n)) => Fresh(Drop(Read(b, n))))
    BY <2>3, DropKeeps
  <2> QED
    BY <2>1, <2>3, <2>4
<1> QED
  BY <1>4, <1>5

LEMMA DrainedKeeps ==
    ASSUME NEW b, BoardInv(b)
    PROVE  /\ BoardInv(Drained(b)) /\ Drained(b).queue = <<>> /\ Drained(b).fifo = b.fifo
           /\ Fresh(b) => Fresh(Drained(b))
<1> DEFINE c == Drained(b)
<1>1. /\ c = [held |-> b.held, fifo |-> b.fifo, mods |-> b.mods, queue |-> <<>>,
              doubt |-> b.doubt]
      /\ c.held = b.held /\ c.fifo = b.fifo /\ c.mods = b.mods /\ c.queue = <<>>
      /\ c.doubt = b.doubt
  BY DEF Drained, BoardInv, BoardOK, Boards
<1> HIDE DEF c
<1>2. BoardOK(c)
  BY <1>1, KeyboardAssumption DEF BoardInv, BoardOK, Boards
<1>3. Settled(c) /\ Faithful(c) /\ Handed(c.queue)
  BY <1>1 DEF BoardInv, Settled, InTheEnd, Faithful, Handed
<1> QED
  BY <1>1, <1>2, <1>3 DEF BoardInv, Fresh, c

\* Growing old, or being passed over by a flush, changes nothing but the age.
Dated(keys, x) == [i \in DOMAIN keys |-> [keys[i] EXCEPT !.old = x]]

LEMMA DatedKeeps ==
    ASSUME NEW b, BoardInv(b), NEW x \in BOOLEAN, NEW c, c = [b EXCEPT !.fifo = Dated(@, x)]
    PROVE  /\ BoardInv(c) /\ c.queue = b.queue
           /\ \A i \in DOMAIN c.fifo : c.fifo[i].old = x
<1> DEFINE aged == Dated(b.fifo, x)
           n == Len(b.fifo)
<1>0. b \in Boards /\ b.fifo \in Seq(Entries) /\ n \in Nat /\ DOMAIN b.fifo = 1 .. n
      /\ \A i \in 1 .. n : b.fifo[i] \in Entries
  BY BoardTypes DEF BoardInv, BoardOK
<1>1. c = [b EXCEPT !.fifo = aged]
  OBVIOUS
<1>2. ASSUME NEW t \in Entries, NEW u, u = [t EXCEPT !.old = x]
      PROVE  /\ u \in Entries /\ u.key = t.key /\ u.down = t.down /\ u.with = t.with
             /\ u.sure = t.sure /\ u.old = x
  BY <1>2 DEF Entries
<1>3. /\ aged = [i \in 1 .. n |-> aged[i]]
      /\ \A i \in 1 .. n : aged[i] = [b.fifo[i] EXCEPT !.old = x]
  BY <1>0 DEF Dated
<1> HIDE DEF aged
<1>4. /\ c = [held |-> b.held, fifo |-> aged, mods |-> b.mods, queue |-> b.queue,
              doubt |-> b.doubt]
      /\ c.held = b.held /\ c.fifo = aged /\ c.mods = b.mods /\ c.queue = b.queue
      /\ c.doubt = b.doubt
  BY <1>0, <1>1 DEF Boards
<1>5. \A i \in 1 .. n : /\ aged[i] \in Entries
                        /\ aged[i].key = b.fifo[i].key /\ aged[i].down = b.fifo[i].down
                        /\ aged[i].with = b.fifo[i].with /\ aged[i].sure = b.fifo[i].sure
                        /\ aged[i].old = x
  <2> SUFFICES ASSUME NEW i \in 1 .. n
               PROVE  /\ aged[i] \in Entries
                      /\ aged[i].key = b.fifo[i].key /\ aged[i].down = b.fifo[i].down
                      /\ aged[i].with = b.fifo[i].with /\ aged[i].sure = b.fifo[i].sure
                      /\ aged[i].old = x
    OBVIOUS
  <2>1. b.fifo[i] \in Entries /\ aged[i] = [b.fifo[i] EXCEPT !.old = x]
    BY <1>0, <1>3
  <2> QED
    BY <1>2, <2>1
<1> HIDE DEF n
<1>6. aged \in Seq(Entries) /\ Len(aged) = n /\ DOMAIN aged = 1 .. n
  <2>1. aged \in [1 .. n -> Entries]
    BY <1>3, <1>5, Zenon
  <2> QED
    BY <1>0, <2>1
<1>7. BoardOK(c)
  BY <1>4, <1>6 DEF BoardInv, BoardOK, Boards, n
<1>8. ASSUME NEW l \in Latches
      PROVE  \A i \in 0 .. n : SetAfter(c.mods, c.fifo, l, i) <=> SetAfter(b.mods, b.fifo, l, i)
  <2>1. l \in c.mods <=> SetAfter(b.mods, b.fifo, l, 0)
    BY <1>4, SetAtFirst
  <2>2. \A j \in 1 .. n : j + 0 = j
    BY <1>0
  <2>3. \A j \in 1 .. n : /\ On(c.fifo[j], l) <=> On(b.fifo[j + 0], l)
                          /\ Off(c.fifo[j], l) <=> Off(b.fifo[j + 0], l)
    BY <1>4, <1>5, <2>2, Zenon DEF On, Off
  <2>4. \A i \in 0 .. n : SetAfter(c.mods, c.fifo, l, i) <=> SetAfter(b.mods, b.fifo, l, i + 0)
    BY <1>0, <2>1, <2>3, SetFollows
  <2>5. \A i \in 0 .. n : i + 0 = i
    BY <1>0
  <2> QED
    BY <2>4, <2>5, Zenon
<1>9. Settled(c)
  <2>1. n \in 0 .. n
    BY <1>0
  <2>2. \A l \in Latches : InTheEnd(c, l) <=> InTheEnd(b, l)
    BY <1>4, <1>6, <1>8, <2>1 DEF InTheEnd, n
  <2> QED
    BY <1>4, <2>2 DEF BoardInv, Settled
<1>10. Faithful(c)
  <2> SUFFICES ASSUME NEW i \in 1 .. n, c.fifo[i].sure, NEW l \in Latches
               PROVE  SetAfter(c.mods, c.fifo, l, i - 1) <=> l \in c.fifo[i].with
    BY <1>4, <1>6 DEF Faithful
  <2>1. i - 1 \in 0 .. n /\ i \in DOMAIN b.fifo
    BY <1>0
  <2>2. b.fifo[i].sure /\ c.fifo[i].with = b.fifo[i].with
    BY <1>4, <1>5, Zenon
  <2>3. SetAfter(b.mods, b.fifo, l, i - 1) <=> l \in b.fifo[i].with
    BY <2>1, <2>2, Zenon DEF BoardInv, Faithful
  <2> QED
    BY <1>8, <2>1, <2>2, <2>3
<1>11. BoardInv(c) /\ c.queue = b.queue /\ \A i \in DOMAIN c.fifo : c.fifo[i].old = x
  BY <1>4, <1>5, <1>6, <1>7, <1>9, <1>10 DEF BoardInv
<1> QED
  BY <1>11

LEMMA AgedKeeps == ASSUME NEW b, BoardInv(b) PROVE BoardInv(Aged(b))
<1>1. Aged(b) = [b EXCEPT !.fifo = Dated(@, TRUE)]
  BY DEF Aged, Old, Dated
<1> QED
  BY <1>1, DatedKeeps

LEMMA PassedOverKeeps ==
    ASSUME NEW b, BoardInv(b), b.queue = <<>>
    PROVE  BoardInv(PassedOver(b)) /\ PassedOver(b).queue = <<>> /\ Fresh(PassedOver(b))
<1>1. PassedOver(b) = [b EXCEPT !.fifo = Dated(@, FALSE)]
  BY DEF PassedOver, Dated
<1>2. /\ BoardInv(PassedOver(b)) /\ PassedOver(b).queue = <<>>
      /\ \A i \in DOMAIN PassedOver(b).fifo : PassedOver(b).fifo[i].old = FALSE
  BY <1>1, DatedKeeps
<1> QED
  BY <1>2 DEF Fresh

\* A poll that nothing cuts short reads all that waits, if that is not more than one
\* poll reads.
LEMMA AllRead ==
    ASSUME NEW b, BoardInv(b), Waiting(b) <= KbdQueueSize
    PROVE  DOMAIN keyboard_poll(b).fifo = {}
<1>1. Len(b.fifo) \in Nat /\ KbdQueueSize \in Nat
  BY BoardTypes, KeyboardAssumption DEF BoardInv
<1>2. Most(b) = Len(b.fifo)
  BY <1>1 DEF Most, Waiting
<1>3. /\ BoardInv(Read(b, Len(b.fifo)))
      /\ Len(Read(b, Len(b.fifo)).fifo) = Len(b.fifo) - Len(b.fifo)
  BY <1>1, ReadKeeps DEF Progress
<1>4. DOMAIN Read(b, Len(b.fifo)).fifo = 1 .. Len(Read(b, Len(b.fifo)).fifo)
  BY <1>3, BoardTypes DEF BoardInv
<1>5. Len(b.fifo) - Len(b.fifo) = 0
  BY <1>1
<1>6. DOMAIN Read(b, Len(b.fifo)).fifo = {}
  BY <1>3, <1>4, <1>5
<1> QED
  BY <1>2, <1>6 DEF keyboard_poll

-----------------------------------------------------------------------------
(* The ring, without its arithmetic.                                       *)

N == QueueSize

LEMMA Remainder ==
    ASSUME NEW x, x \in 0 .. 2 * N - 1 PROVE x % N = IF x < N THEN x ELSE x - N
<1>1. N \in Nat /\ N > 1
  BY QueueAssumption DEF N
<1>2. CASE x < N
  BY <1>1, <1>2
<1>3. CASE ~(x < N)
  BY <1>1, <1>3
<1> QED
  BY <1>2, <1>3

\* The slots of the commands that wait.
Held(q) == {i \in Slots : IF q.tail <= q.head THEN q.tail <= i /\ i < q.head
                          ELSE q.tail <= i \/ i < q.head}

\* Where the queue's pointers are.
Pointers(q) == q.head \in Slots /\ q.tail \in Slots

LEMMA Neighbours ==
    /\ N \in Nat /\ N > 1 /\ Slots = 0 .. N - 1
    /\ \A i \in Slots : /\ Behind(i) = IF i = 0 THEN N - 1 ELSE i - 1
                        /\ Ahead(i) = IF i = N - 1 THEN 0 ELSE i + 1
                        /\ Behind(i) \in Slots /\ Ahead(i) \in Slots
<1>1. N \in Nat /\ N > 1 /\ Slots = 0 .. N - 1
  BY QueueAssumption DEF N, Slots
<1>2. ASSUME NEW i \in Slots
      PROVE  /\ Behind(i) = IF i = 0 THEN N - 1 ELSE i - 1
             /\ Ahead(i) = IF i = N - 1 THEN 0 ELSE i + 1
  <2> DEFINE x == i + N - 1
  <2>1. x \in 0 .. 2 * N - 1
    BY <1>1
  <2> HIDE DEF x
  <2>2. x % N = IF x < N THEN x ELSE x - N
    BY <2>1, Remainder
  <2>3. x % N = IF i = 0 THEN N - 1 ELSE i - 1
    BY <1>1, <2>2 DEF x
  <2>4. Behind(i) = x % N
    BY DEF Behind, x, N
  <2> QED
    BY <1>1, <2>3, <2>4 DEF Ahead, N
<1>3. \A i \in Slots : Behind(i) \in Slots /\ Ahead(i) \in Slots
  BY <1>1, <1>2
<1> QED
  BY <1>1, <1>2, <1>3

LEMMA HowMany ==
    ASSUME NEW q, Pointers(q)
    PROVE  /\ Length(q) = IF q.tail <= q.head THEN q.head - q.tail ELSE q.head - q.tail + N
           /\ Length(q) \in 0 .. N - 1
           /\ Full(q) <=> Length(q) = N - 1
           /\ Full(q) => Behind(q.tail) = q.head
           /\ ~Full(q) => Behind(q.tail) # q.head
<1>1. q.head \in 0 .. N - 1 /\ q.tail \in 0 .. N - 1 /\ N \in Nat /\ N > 1
  BY Neighbours DEF Pointers
<1> DEFINE x == q.head - q.tail + N
<1>2. x \in 0 .. 2 * N - 1
  BY <1>1
<1>3. Length(q) = x % N
  BY DEF Length, N
<1> HIDE DEF x
<1>4. x % N = IF x < N THEN x ELSE x - N
  BY <1>2, Remainder
<1>5. /\ Length(q) = IF q.tail <= q.head THEN q.head - q.tail ELSE q.head - q.tail + N
      /\ Length(q) \in 0 .. N - 1
  BY <1>1, <1>3, <1>4 DEF x
<1>6. Behind(q.tail) = IF q.tail = 0 THEN N - 1 ELSE q.tail - 1
  BY Neighbours DEF Pointers
<1> QED
  BY <1>1, <1>5, <1>6 DEF Full, N

LEMMA HeldSlots ==
    ASSUME NEW q, Pointers(q)
    PROVE  /\ q.head \notin Held(q) /\ Behind(q.tail) \notin Held(q)
           /\ q.head # q.tail => q.tail \in Held(q) /\ Behind(q.head) \in Held(q)
           /\ q.head = q.tail => Held(q) = {}
           /\ Full(q) => q.head # q.tail
<1>1. q.head \in 0 .. N - 1 /\ q.tail \in 0 .. N - 1 /\ N \in Nat /\ N > 1 /\ Slots = 0 .. N - 1
  BY Neighbours DEF Pointers
<1>2. /\ Behind(q.tail) = IF q.tail = 0 THEN N - 1 ELSE q.tail - 1
      /\ Behind(q.head) = IF q.head = 0 THEN N - 1 ELSE q.head - 1
  BY Neighbours DEF Pointers
<1> QED
  BY <1>1, <1>2 DEF Held, Full, N

\* The commands that wait, by their place in the line.
At(q, k) == (q.tail + k - 1) % QueueSize

LEMMA Places ==
    ASSUME NEW q, Pointers(q)
    PROVE  /\ \A k \in 1 .. N : At(q, k) = IF q.tail + k - 1 < N THEN q.tail + k - 1
                                           ELSE q.tail + k - 1 - N
           /\ \A k \in 1 .. Length(q) : k \in 1 .. N /\ At(q, k) \in Held(q)
           /\ \A i \in Held(q) : \E k \in 1 .. Length(q) : At(q, k) = i
<1>1. q.head \in 0 .. N - 1 /\ q.tail \in 0 .. N - 1 /\ N \in Nat /\ N > 1 /\ Slots = 0 .. N - 1
  BY Neighbours DEF Pointers
<1>2. /\ Length(q) = IF q.tail <= q.head THEN q.head - q.tail ELSE q.head - q.tail + N
      /\ Length(q) \in 0 .. N - 1
  BY HowMany
<1>3. ASSUME NEW k \in 1 .. N
      PROVE  At(q, k) = IF q.tail + k - 1 < N THEN q.tail + k - 1 ELSE q.tail + k - 1 - N
  <2> DEFINE x == q.tail + k - 1
  <2>1. x \in 0 .. 2 * N - 1
    BY <1>1
  <2>2. At(q, k) = x % N
    BY DEF At, N
  <2> HIDE DEF x
  <2>3. x % N = IF x < N THEN x ELSE x - N
    BY <2>1, Remainder
  <2> QED
    BY <1>1, <2>2, <2>3 DEF x
<1>4. ASSUME NEW k \in 1 .. Length(q) PROVE k \in 1 .. N /\ At(q, k) \in Held(q)
  <2> DEFINE a == At(q, k)
  <2>1. k \in 1 .. N
    BY <1>1, <1>2
  <2>2. a = IF q.tail + k - 1 < N THEN q.tail + k - 1 ELSE q.tail + k - 1 - N
    BY <1>3, <2>1
  <2> HIDE DEF a
  <2>3. a \in 0 .. N - 1
    BY <1>1, <2>1, <2>2
  <2>4. IF q.tail <= q.head THEN q.tail <= a /\ a < q.head ELSE q.tail <= a \/ a < q.head
    BY <1>1, <1>2, <2>1, <2>2
  <2> QED
    BY <1>1, <2>1, <2>3, <2>4 DEF Held, a
<1>5. ASSUME NEW i \in Held(q) PROVE \E k \in 1 .. Length(q) : At(q, k) = i
  <2>1. i \in 0 .. N - 1 /\ IF q.tail <= q.head THEN q.tail <= i /\ i < q.head
                            ELSE q.tail <= i \/ i < q.head
    BY <1>1 DEF Held
  <2>2. CASE q.tail <= i
    <3>1. i - q.tail + 1 \in 1 .. Length(q) /\ i - q.tail + 1 \in 1 .. N
      BY <1>1, <1>2, <2>1, <2>2
    <3>2. At(q, i - q.tail + 1) = i
      BY <1>1, <1>3, <2>1, <2>2, <3>1
    <3> QED
      BY <3>1, <3>2
  <2>3. CASE ~(q.tail <= i)
    <3>1. i - q.tail + 1 + N \in 1 .. Length(q) /\ i - q.tail + 1 + N \in 1 .. N
      BY <1>1, <1>2, <2>1, <2>3
    <3>2. At(q, i - q.tail + 1 + N) =
              IF q.tail + (i - q.tail + 1 + N) - 1 < N THEN q.tail + (i - q.tail + 1 + N) - 1
              ELSE q.tail + (i - q.tail + 1 + N) - 1 - N
      BY <1>3, <3>1
    <3>3. At(q, i - q.tail + 1 + N) = i
      BY <1>1, <2>1, <2>3, <3>2
    <3> QED
      BY <3>1, <3>3
  <2> QED
    BY <2>2, <2>3
<1> QED
  BY <1>3, <1>4, <1>5

LEMMA OneMoreHeld ==
    ASSUME NEW q, Pointers(q), ~Full(q), NEW r, r.head = Ahead(q.head), r.tail = q.tail
    PROVE  /\ Pointers(r) /\ Held(r) = Held(q) \cup {q.head} /\ Length(r) = Length(q) + 1
           /\ At(r, Length(q) + 1) = q.head /\ \A k \in 1 .. Length(q) : At(r, k) = At(q, k)
           /\ Behind(r.head) = q.head
<1>1. q.head \in 0 .. N - 1 /\ q.tail \in 0 .. N - 1 /\ N \in Nat /\ N > 1 /\ Slots = 0 .. N - 1
  BY Neighbours DEF Pointers
<1>2. r.head = IF q.head = N - 1 THEN 0 ELSE q.head + 1
  BY Neighbours DEF Pointers
<1>3. Pointers(r)
  BY <1>1, <1>2 DEF Pointers
<1>4. ~(q.head + 1 = q.tail \/ (q.head + 1 = N /\ q.tail = 0))
  BY DEF Full, N
<1>5. Held(r) = Held(q) \cup {q.head}
  BY <1>1, <1>2, <1>4 DEF Held
<1>6. /\ Length(q) = IF q.tail <= q.head THEN q.head - q.tail ELSE q.head - q.tail + N
      /\ Length(r) = IF r.tail <= r.head THEN r.head - r.tail ELSE r.head - r.tail + N
  BY <1>3, HowMany
<1>7. Length(r) = Length(q) + 1 /\ Length(q) \in 0 .. N - 1
  BY <1>1, <1>2, <1>4, <1>6
<1>8. \A k : At(r, k) = At(q, k)
  BY DEF At
<1>9. At(q, Length(q) + 1) = q.head
  <2>1. Length(q) + 1 \in 1 .. N
    BY <1>1, <1>7
  <2>2. At(q, Length(q) + 1) = IF q.tail + (Length(q) + 1) - 1 < N
                               THEN q.tail + (Length(q) + 1) - 1
                               ELSE q.tail + (Length(q) + 1) - 1 - N
    BY <2>1, Places
  <2> QED
    BY <1>1, <1>6, <1>7, <2>2
<1>10. Behind(r.head) = q.head
  <2>1. Behind(r.head) = IF r.head = 0 THEN N - 1 ELSE r.head - 1
    BY <1>3, Neighbours DEF Pointers
  <2> QED
    BY <1>1, <1>2, <2>1
<1> QED
  BY <1>3, <1>5, <1>7, <1>8, <1>9, <1>10

LEMMA OneLessHeld ==
    ASSUME NEW q, Pointers(q), q.head # q.tail, NEW r, r.head = q.head, r.tail = Ahead(q.tail)
    PROVE  Pointers(r) /\ Held(r) = Held(q) \ {q.tail} /\ Behind(r.tail) = q.tail
<1>1. q.head \in 0 .. N - 1 /\ q.tail \in 0 .. N - 1 /\ N \in Nat /\ N > 1 /\ Slots = 0 .. N - 1
  BY Neighbours DEF Pointers
<1>2. r.tail = IF q.tail = N - 1 THEN 0 ELSE q.tail + 1
  BY Neighbours DEF Pointers
<1>3. Pointers(r)
  BY <1>1, <1>2 DEF Pointers
<1>4. Behind(r.tail) = q.tail
  <2>1. Behind(r.tail) = IF r.tail = 0 THEN N - 1 ELSE r.tail - 1
    BY <1>3, Neighbours DEF Pointers
  <2> QED
    BY <1>1, <1>2, <2>1
<1> QED
  BY <1>1, <1>2, <1>3, <1>4 DEF Held

-----------------------------------------------------------------------------
(* The queue as a record.                                                  *)

Commands == [code : Codes \cup {CMD_NULL}, nrepeats : 0 .. MostRepeats,
             background : 0 .. 2, arg : Special .. MaxRest]

Queues == [slot : [Slots -> Commands], head : Slots, tail : Slots, last : Slots \cup {-1},
           copy : Commands, allowed : BOOLEAN, repeating : BOOLEAN]

Record(slot, head, tail, last, copy, allowed, repeating) ==
    [slot |-> slot, head |-> head, tail |-> tail, last |-> last, copy |-> copy,
     allowed |-> allowed, repeating |-> repeating]

LEMMA Numbers ==
    /\ MostRepeats \in Nat /\ AutoRepeat \in 0 .. MostRepeats /\ MaxCount \in 0 .. MostRepeats
    /\ MaxRest \in Nat /\ MaxRest > 1 /\ Special = -1
    /\ MaxRun \in Nat /\ MaxRun > 0 /\ MaxSleep \in Nat /\ MaxSleep > 0
    /\ Larger(MaxRun, MostRepeats) \in Nat /\ MaxRun <= Larger(MaxRun, MostRepeats)
    /\ MostRepeats <= Larger(MaxRun, MostRepeats)
  BY QueueAssumption, InputAssumption DEF MostRepeats, Larger, Special

LEMMA CommandTypes ==
    /\ \A code \in Codes, n \in 0 .. MostRepeats, a \in Special .. MaxRest :
          /\ Command(code, n, a) \in Commands /\ Command(code, n, a).code = code
          /\ Command(code, n, a).nrepeats = n /\ Command(code, n, a).background = 0
          /\ Command(code, n, a).arg = a /\ code # CMD_NULL
    /\ NoCommand \in Commands /\ NoCommand.code = CMD_NULL
    /\ \A c \in Commands :
          /\ c.code \in Codes \cup {CMD_NULL} /\ c.nrepeats \in 0 .. MostRepeats
          /\ c.background \in 0 .. 2 /\ c.arg \in Special .. MaxRest
          /\ \A n \in 0 .. MostRepeats :
                /\ [c EXCEPT !.nrepeats = n] \in Commands
                /\ [c EXCEPT !.nrepeats = n].code = c.code
                /\ [c EXCEPT !.nrepeats = n].nrepeats = n
                /\ [c EXCEPT !.nrepeats = n].arg = c.arg
                /\ [c EXCEPT !.nrepeats = n].background = c.background
          /\ \A n \in 0 .. 2 :
                /\ [c EXCEPT !.background = n] \in Commands
                /\ [c EXCEPT !.background = n].code = c.code
                /\ [c EXCEPT !.background = n].nrepeats = c.nrepeats
                /\ [c EXCEPT !.background = n].arg = c.arg
          /\ \A a \in Special .. MaxRest :
                /\ [c EXCEPT !.arg = a] \in Commands
                /\ [c EXCEPT !.arg = a].code = c.code
                /\ [c EXCEPT !.arg = a].nrepeats = c.nrepeats
                /\ [c EXCEPT !.arg = a].background = c.background
<1>1. 0 \in 0 .. MostRepeats /\ 0 \in 0 .. 2 /\ 0 \in Special .. MaxRest
  BY Numbers
<1>2. CMD_NULL \notin Codes
  BY DEF CMD_NULL, Codes
<1> QED
  BY <1>1, <1>2 DEF Commands, Command, NoCommand

LEMMA NumberTypes ==
    ASSUME NEW c \in Commands, NEW n \in 0 .. MostRepeats
    PROVE  LET d == [c EXCEPT !.nrepeats = n]
           IN  /\ d \in Commands /\ d.code = c.code /\ d.nrepeats = n
               /\ d.arg = c.arg /\ d.background = c.background
  BY DEF Commands

LEMMA BackgroundTypes ==
    ASSUME NEW c \in Commands, NEW n \in 0 .. 2
    PROVE  LET d == [c EXCEPT !.background = n]
           IN  /\ d \in Commands /\ d.code = c.code /\ d.nrepeats = c.nrepeats
               /\ d.arg = c.arg /\ d.background = n
  BY DEF Commands

LEMMA ArgumentTypes ==
    ASSUME NEW c \in Commands, NEW a \in Special .. MaxRest
    PROVE  LET d == [c EXCEPT !.arg = a]
           IN  /\ d \in Commands /\ d.code = c.code /\ d.nrepeats = c.nrepeats
               /\ d.arg = a /\ d.background = c.background
  BY DEF Commands

LEMMA QueueTypes ==
    ASSUME NEW q \in Queues
    PROVE  /\ q = Record(q.slot, q.head, q.tail, q.last, q.copy, q.allowed, q.repeating)
           /\ q.slot \in [Slots -> Commands] /\ q.head \in Slots /\ q.tail \in Slots
           /\ q.last \in Slots \cup {-1} /\ q.copy \in Commands
           /\ q.allowed \in BOOLEAN /\ q.repeating \in BOOLEAN /\ Pointers(q)
           /\ Current(q) \in Commands /\ LastCommand(q) \in Commands
           /\ Behind(q.tail) \in Slots /\ Behind(q.head) \in Slots
<1>1. /\ q = Record(q.slot, q.head, q.tail, q.last, q.copy, q.allowed, q.repeating)
      /\ q.slot \in [Slots -> Commands] /\ q.head \in Slots /\ q.tail \in Slots
      /\ q.last \in Slots \cup {-1} /\ q.copy \in Commands
      /\ q.allowed \in BOOLEAN /\ q.repeating \in BOOLEAN
  BY DEF Queues, Record
<1>2. q.last >= 0 => q.last \in Slots
  BY <1>1
<1> QED
  BY <1>1, <1>2, Neighbours DEF Pointers, Current, LastCommand

LEMMA RecordTypes ==
    ASSUME NEW slot \in [Slots -> Commands], NEW head \in Slots, NEW tail \in Slots,
           NEW last \in Slots \cup {-1}, NEW copy \in Commands, NEW allowed \in BOOLEAN,
           NEW repeating \in BOOLEAN
    PROVE  Record(slot, head, tail, last, copy, allowed, repeating) \in Queues
  BY DEF Queues, Record

LEMMA RecordFields ==
    ASSUME NEW slot, NEW head, NEW tail, NEW last, NEW copy, NEW allowed, NEW repeating,
           NEW q, q = Record(slot, head, tail, last, copy, allowed, repeating)
    PROVE  /\ q.slot = slot /\ q.head = head /\ q.tail = tail /\ q.last = last
           /\ q.copy = copy /\ q.allowed = allowed /\ q.repeating = repeating
  BY DEF Record

\* Every command that waits is one.
Proper(q) == \A i \in Held(q) : q.slot[i].code # CMD_NULL

\* What holds of the queue at any time: it holds commands, a command that is repeated
\* is one, and the last command came by itself.
QueueInv(q) ==
    /\ q \in Queues
    /\ Proper(q)
    /\ q.repeating => Current(q).code # CMD_NULL
    /\ q.last >= 0 => LastCommand(q).code # CMD_NULL
    /\ LastCommand(q).code # CMD_NULL => LastCommand(q).background = 0

\* The slot of the last command is not one of a command that waits; or it is, and the
\* command is the first to come.
LastAside(q) == q.last \notin Held(q)
LastFirst(q) == q.last \in Held(q) => q.last = q.tail /\ ~q.repeating

SameLast(r, q) ==
    /\ LastCommand(r).code = LastCommand(q).code /\ LastCommand(r).arg = LastCommand(q).arg
    /\ LastCommand(r).background = LastCommand(q).background

Busy(q) == Current(q).code # CMD_NULL

\* Of the command in slot i, which has been begun: only the current command can have
\* repeats left.
Quiet(q, i) == q.slot[i].nrepeats = 0
Counts(q, i) == ~Quiet(q, i) => Behind(q.tail) = i

\* What an operation keeps.
Kept(r, q) ==
    /\ QueueInv(r) /\ SameLast(r, q)
    /\ LastAside(q) => LastAside(r)
    /\ LastFirst(q) => LastFirst(r)
    /\ Busy(q) => Busy(r)
    /\ \A i \in Slots : Counts(q, i) => Counts(r, i)

LEMMA KeptAgain == \A q, r, t : Kept(t, r) /\ Kept(r, q) => Kept(t, q)
<1> SUFFICES ASSUME NEW q, NEW r, NEW t, Kept(t, r), Kept(r, q) PROVE Kept(t, q)
  OBVIOUS
<1>1. SameLast(t, q)
  BY Zenon DEF Kept, SameLast
<1>2. QueueInv(t) /\ (LastAside(q) => LastAside(t)) /\ (LastFirst(q) => LastFirst(t))
  BY Zenon DEF Kept
<1>3. (Busy(q) => Busy(t)) /\ \A i \in Slots : Counts(q, i) => Counts(t, i)
  BY Zenon DEF Kept
<1> QED
  BY <1>1, <1>2, <1>3, Zenon DEF Kept

LEMMA KeptSame == \A q : QueueInv(q) => Kept(q, q)
  BY Zenon DEF Kept, SameLast

LEMMA EmptyQueueInv ==
    QueueInv(EmptyQueue) /\ LastAside(EmptyQueue) /\ LastCommand(EmptyQueue).code = CMD_NULL
<1>1. 0 \in Slots /\ [i \in Slots |-> NoCommand] \in [Slots -> Commands]
  BY Neighbours, CommandTypes
<1>2. EmptyQueue = Record([i \in Slots |-> NoCommand], 0, 0, -1, NoCommand, FALSE, FALSE)
  BY DEF EmptyQueue, Record
<1>3. EmptyQueue \in Queues
  BY <1>1, <1>2, CommandTypes, RecordTypes
<1>4. /\ EmptyQueue.head = 0 /\ EmptyQueue.tail = 0 /\ EmptyQueue.last = -1
      /\ EmptyQueue.copy = NoCommand /\ ~EmptyQueue.repeating
  BY Zenon DEF EmptyQueue
<1>5. LastCommand(EmptyQueue) = NoCommand /\ Held(EmptyQueue) = {}
  BY <1>1, <1>3, <1>4, HeldSlots, QueueTypes DEF LastCommand
<1>6. Proper(EmptyQueue) /\ LastAside(EmptyQueue)
  BY <1>5 DEF Proper, LastAside
<1> QED
  BY <1>3, <1>4, <1>5, <1>6, CommandTypes DEF QueueInv

-----------------------------------------------------------------------------
(* Putting in.                                                             *)

\* Putting c into a queue with room: where it goes, and what that leaves.
LEMMA PutParts ==
    ASSUME NEW q \in Queues, NEW c \in Commands, ~Full(q)
    PROVE  /\ Put(q, c) = Record([q.slot EXCEPT ![q.head] = c], Ahead(q.head), q.tail,
                                 q.last, q.copy, q.allowed, q.repeating)
           /\ Put(q, c) \in Queues /\ Put(q, c).slot = [q.slot EXCEPT ![q.head] = c]
           /\ Put(q, c).head = Ahead(q.head) /\ Put(q, c).tail = q.tail
           /\ Put(q, c).last = q.last /\ Put(q, c).copy = q.copy
           /\ (Put(q, c).repeating <=> q.repeating)
           /\ Current(Put(q, c)) = Current(q)
           /\ Held(Put(q, c)) = Held(q) \cup {q.head} /\ q.head \notin Held(q)
           /\ Put(q, c).head # q.tail
<1> DEFINE s == [q.slot EXCEPT ![q.head] = c]
           r == Put(q, c)
<1>1. r = Record(s, Ahead(q.head), q.tail, q.last, q.copy, q.allowed, q.repeating)
  <2>1. r = [q EXCEPT !.slot = s, !.head = Ahead(q.head)]
    BY Zenon DEF Put
  <2> HIDE DEF r, s
  <2> QED
    BY <2>1 DEF Record, Queues
<1>2. s \in [Slots -> Commands] /\ Ahead(q.head) \in Slots
  BY QueueTypes, Neighbours
<1> HIDE DEF r, s
<1>3. r \in Queues
  BY <1>1, <1>2, QueueTypes, RecordTypes
<1>4. /\ r.slot = s /\ r.head = Ahead(q.head) /\ r.tail = q.tail /\ r.last = q.last
      /\ r.copy = q.copy /\ r.repeating = q.repeating
  BY <1>1, Zenon DEF Record
<1>5. Held(r) = Held(q) \cup {q.head} /\ q.head \notin Held(q) /\ Behind(q.tail) # q.head
  BY <1>4, QueueTypes, OneMoreHeld, HeldSlots, HowMany
<1>6. Current(r) = Current(q)
  BY <1>4, <1>5, QueueTypes DEF Current, s
<1>7. r.head # q.tail
  <2>1. Held(r) # {} /\ Pointers(r)
    BY <1>3, <1>5, QueueTypes
  <2> QED
    BY <1>4, <2>1, HeldSlots
<1> QED
  BY <1>1, <1>3, <1>4, <1>5, <1>6, <1>7, Zenon DEF r, s

LEMMA PushParts ==
    ASSUME NEW q \in Queues, NEW c \in Commands, ~Full(q)
    PROVE  LET r == cmdq_push_copy(q, c)
           IN  /\ r \in Queues /\ r.slot = [q.slot EXCEPT ![q.head] = c]
               /\ r.head = Ahead(q.head) /\ r.tail = q.tail
               /\ (r.repeating <=> q.repeating)
               /\ Current(r) = Current(q) /\ LastCommand(r) = LastCommand(q)
               /\ Held(r) = Held(q) \cup {q.head} /\ q.head \notin Held(q)
               /\ r.head # r.tail
               /\ r.last = IF q.last = q.head THEN -1 ELSE q.last
<1> DEFINE p == Put(q, c)
           r == cmdq_push_copy(q, c)
<1>1. /\ p \in Queues /\ p.slot = [q.slot EXCEPT ![q.head] = c]
      /\ p.head = Ahead(q.head) /\ p.tail = q.tail /\ p.last = q.last /\ p.copy = q.copy
      /\ (p.repeating <=> q.repeating) /\ Current(p) = Current(q)
      /\ Held(p) = Held(q) \cup {q.head} /\ q.head \notin Held(q) /\ p.head # q.tail
  BY PutParts
<1>2. r = IF q.last = q.head THEN [p EXCEPT !.copy = q.slot[q.head], !.last = -1] ELSE p
  BY Zenon DEF cmdq_push_copy
<1>7. q.slot \in [Slots -> Commands] /\ q.head \in Slots /\ q.last \in Slots \cup {-1}
  BY QueueTypes
<1>3. q.slot[q.head] \in Commands /\ q.head >= 0
  <2>1. q.head \in 0 .. N - 1 /\ N \in Nat
    BY <1>7, Neighbours
  <2>2. q.head >= 0
    BY <2>1
  <2> QED
    BY <1>7, <2>2
<1> HIDE DEF p, r
<1>4. CASE q.last = q.head
  <2>1. r = [p EXCEPT !.copy = q.slot[q.head], !.last = -1]
    BY <1>2, <1>4
  <2>2. /\ r.slot = p.slot /\ r.head = p.head /\ r.tail = p.tail /\ r.last = -1
        /\ r.copy = q.slot[q.head] /\ (r.repeating <=> p.repeating)
    BY <1>1, <2>1, Zenon DEF Queues
  <2>3. r \in Queues
    BY <1>1, <1>3, <2>1 DEF Queues
  <2>4. Current(r) = Current(p) /\ Held(r) = Held(p)
    BY <2>2 DEF Current, Held
  <2>5. LastCommand(r) = LastCommand(q)
    BY <1>3, <1>4, <1>7, <2>2 DEF LastCommand
  <2> QED
    BY <1>1, <1>4, <2>2, <2>3, <2>4, <2>5 DEF r
<1>5. CASE q.last # q.head
  <2>1. r = p
    BY <1>2, <1>5
  <2>2. q.last >= 0 => p.slot[q.last] = q.slot[q.last]
    BY <1>1, <1>3, <1>5, <1>7
  <2>3. LastCommand(p) = LastCommand(q)
    BY <1>1, <2>2 DEF LastCommand
  <2> QED
    BY <1>1, <1>5, <2>1, <2>3 DEF r
<1> QED
  BY <1>4, <1>5

LEMMA ProperAfterPut ==
    ASSUME NEW q, QueueInv(q), NEW c, c.code # CMD_NULL, NEW r, Held(r) = Held(q) \cup {q.head},
           r.slot[q.head] = c, \A i \in Slots \ {q.head} : r.slot[i] = q.slot[i]
    PROVE  Proper(r)
<1>1. q.head \in Slots /\ Held(q) \subseteq Slots
  BY QueueTypes DEF QueueInv, Held
<1>2. ASSUME NEW i \in Held(r) PROVE r.slot[i].code # CMD_NULL
  <2>1. CASE i = q.head
    BY <1>1, <2>1
  <2>2. CASE i # q.head
    <3>1. i \in Held(q) /\ r.slot[i] = q.slot[i]
      BY <1>1, <2>2
    <3> QED
      BY <3>1 DEF QueueInv, Proper
  <2> QED
    BY <2>1, <2>2
<1> QED
  BY <1>2, Zenon DEF Proper

LEMMA PushKeeps ==
    ASSUME NEW q, QueueInv(q), NEW c \in Commands, c.code # CMD_NULL, c.nrepeats = 0
    PROVE  /\ Kept(cmdq_push_copy(q, c), q)
           /\ cmdq_push_copy(q, c).head # cmdq_push_copy(q, c).tail
<1> DEFINE r == cmdq_push_copy(q, c)
<1>0. q \in Queues /\ Pointers(q)
  BY QueueTypes DEF QueueInv
<1>1. CASE Full(q)
  <2>1. r = q
    BY <1>1, Zenon DEF cmdq_push_copy
  <2>2. q.head # q.tail
    BY <1>0, <1>1, HeldSlots
  <2> QED
    BY <2>1, <2>2, KeptSame
<1>2. CASE ~Full(q)
  <2>1. /\ r \in Queues /\ r.slot = [q.slot EXCEPT ![q.head] = c]
        /\ r.head = Ahead(q.head) /\ r.tail = q.tail
        /\ (r.repeating <=> q.repeating)
        /\ Current(r) = Current(q) /\ LastCommand(r) = LastCommand(q)
        /\ Held(r) = Held(q) \cup {q.head} /\ q.head \notin Held(q)
        /\ r.head # r.tail
        /\ r.last = IF q.last = q.head THEN -1 ELSE q.last
    BY <1>0, <1>2, PushParts
  <2> HIDE DEF r
  <2>9. \A i \in Slots : r.slot[i] = IF i = q.head THEN c ELSE q.slot[i]
    BY <1>0, <2>1, QueueTypes
  <2>2. Proper(r)
    <3>1. r.slot[q.head] = c /\ \A i \in Slots \ {q.head} : r.slot[i] = q.slot[i]
      BY <1>0, <2>9, QueueTypes
    <3>2. Held(r) = Held(q) \cup {q.head}
      BY <2>1
    <3> QED
      BY <3>1, <3>2, ProperAfterPut
  <2>3. q.last \in Slots \cup {-1} /\ Held(r) \subseteq Slots /\ -1 \notin Slots
    BY <1>0, QueueTypes, Neighbours DEF Held
  <2>4. r.last >= 0 => q.last >= 0
    BY <2>1, <2>3, Neighbours
  <2>5. QueueInv(r)
    BY <2>1, <2>2, <2>4, Zenon DEF QueueInv
  <2>6. r.last \in Held(r) => q.last \in Held(q) /\ r.last = q.last
    BY <2>1, <2>3
  <2>7. ASSUME NEW i \in Slots, Counts(q, i) PROVE Counts(r, i)
    BY <2>1, <2>7, <2>9, Zenon DEF Counts, Quiet
  <2>8. Kept(r, q)
    BY <2>1, <2>5, <2>6, <2>7, Zenon DEF Kept, SameLast, LastAside, LastFirst, Busy
  <2> QED
    BY <2>1, <2>8 DEF r
<1> QED
  BY <1>1, <1>2

-----------------------------------------------------------------------------
(* What waits, changed in its place.                                       *)

\* Slot j of q holds c now, which is the same command with other numbers, and q repeats
\* or does not.
Changed(q, j, c, repeating) ==
    Record([q.slot EXCEPT ![j] = c], q.head, q.tail, q.last, q.copy, q.allowed, repeating)

LEMMA ChangeKeeps ==
    ASSUME NEW q, QueueInv(q), NEW j \in Slots, NEW c \in Commands, c.code = q.slot[j].code,
           NEW repeating \in BOOLEAN,
           repeating => Current(q).code # CMD_NULL /\ (q.repeating \/ LastAside(q)),
           j = q.last => c.arg = q.slot[j].arg /\ c.background = q.slot[j].background,
           j = Behind(q.tail) \/ c.nrepeats = q.slot[j].nrepeats \/ c.nrepeats = 0
    PROVE  /\ Kept(Changed(q, j, c, repeating), q)
           /\ Changed(q, j, c, repeating).slot[j] = c
<1> DEFINE r == Changed(q, j, c, repeating)
           s == [q.slot EXCEPT ![j] = c]
<1>1. q \in Queues /\ q.slot \in [Slots -> Commands] /\ Pointers(q) /\ q.last \in Slots \cup {-1}
  BY QueueTypes DEF QueueInv
<1>2. s \in [Slots -> Commands] /\ s[j] = c /\ \A i \in Slots \ {j} : s[i] = q.slot[i]
  BY <1>1
<1> HIDE DEF s
<1>3. /\ r.slot = s /\ r.head = q.head /\ r.tail = q.tail /\ r.last = q.last
      /\ r.copy = q.copy /\ r.repeating = repeating
  BY DEF Changed, Record, s
<1>4. r \in Queues
  BY <1>1, <1>2, RecordTypes, QueueTypes DEF Changed, s
<1> HIDE DEF r
<1>5. Held(r) = Held(q) /\ Held(q) \subseteq Slots
  BY <1>3 DEF Held
<1>6. \A i \in Slots : s[i].code = q.slot[i].code
  BY <1>2
<1>7. Proper(r)
  BY <1>3, <1>5, <1>6, Zenon DEF Proper, QueueInv
<1>8. Behind(q.tail) \in Slots /\ (q.last >= 0 => q.last \in Slots)
  BY <1>1, Neighbours DEF Pointers
<1>9. Current(r).code = Current(q).code
  BY <1>3, <1>6, <1>8 DEF Current
<1>10. SameLast(r, q)
  <2>1. CASE q.last >= 0
    <3>1. s[q.last].arg = q.slot[q.last].arg /\ s[q.last].background = q.slot[q.last].background
      BY <1>2, <1>8, <2>1
    <3>2. LastCommand(r) = s[q.last] /\ LastCommand(q) = q.slot[q.last]
      BY <1>3, <2>1 DEF LastCommand
    <3>3. s[q.last].code = q.slot[q.last].code
      BY <1>6, <1>8, <2>1
    <3> QED
      BY <3>1, <3>2, <3>3, Zenon DEF SameLast
  <2>2. CASE ~(q.last >= 0)
    BY <1>3, <2>2 DEF LastCommand, SameLast
  <2> QED
    BY <2>1, <2>2
<1>11. QueueInv(r)
  <2>1. LastCommand(r).code = LastCommand(q).code
        /\ LastCommand(r).background = LastCommand(q).background
    BY <1>10, Zenon DEF SameLast
  <2>2. r.repeating => Current(r).code # CMD_NULL
    BY <1>3, <1>9
  <2>3. r.last >= 0 => q.last >= 0
    BY <1>3
  <2> QED
    BY <1>4, <1>7, <2>1, <2>2, <2>3, Zenon DEF QueueInv
<1>12. ASSUME NEW i \in Slots, Counts(q, i) PROVE Counts(r, i)
  <2>1. CASE i = j
    <3>1. Quiet(r, i) \/ Behind(q.tail) = i \/ (Quiet(r, i) <=> Quiet(q, i))
      BY <1>2, <1>3, <2>1 DEF Quiet
    <3> QED
      BY <1>3, <1>12, <3>1, Zenon DEF Counts
  <2>2. CASE i # j
    <3>1. Quiet(r, i) <=> Quiet(q, i)
      BY <1>2, <1>3, <2>2 DEF Quiet
    <3> QED
      BY <1>3, <1>12, <3>1, Zenon DEF Counts
  <2> QED
    BY <2>1, <2>2
<1>13. (LastAside(q) => LastAside(r)) /\ (LastFirst(q) => LastFirst(r))
  BY <1>3, <1>5, Zenon DEF LastAside, LastFirst
<1>14. Busy(q) => Busy(r)
  BY <1>9, Zenon DEF Busy
<1>15. r.slot[j] = c
  BY <1>2, <1>3
<1> QED
  BY <1>10, <1>11, <1>12, <1>13, <1>14, <1>15, Zenon DEF Kept, r

LEMMA SetRepeatIs ==
    ASSUME NEW q \in Queues, NEW n \in 0 .. MostRepeats
    PROVE  cmd_set_repeat(q, n) =
               Changed(q, Behind(q.tail), [Current(q) EXCEPT !.nrepeats = n], n # 0)
<1> DEFINE s == [q.slot EXCEPT ![Behind(q.tail)] = [Current(q) EXCEPT !.nrepeats = n]]
           p == [q EXCEPT !.slot = s]
           v == n # 0
<1>1. cmd_set_repeat(q, n) = [p EXCEPT !.repeating = v]
  BY Zenon DEF cmd_set_repeat, Current
<1> HIDE DEF s, v
<1>2. p = Record(s, q.head, q.tail, q.last, q.copy, q.allowed, q.repeating)
  BY DEF Queues, Record
<1> HIDE DEF p
<1>3. [p EXCEPT !.repeating = v] = Record(s, q.head, q.tail, q.last, q.copy, q.allowed, v)
  BY <1>2 DEF Record
<1> QED
  BY <1>1, <1>3, Zenon DEF Changed, s, v

LEMMA SetRepeatKeeps ==
    ASSUME NEW q, QueueInv(q), NEW n \in 0 .. MostRepeats,
           n # 0 => Busy(q) /\ (q.repeating \/ LastAside(q))
    PROVE  /\ Kept(cmd_set_repeat(q, n), q)
           /\ cmd_set_repeat(q, n).tail = q.tail
           /\ cmd_set_repeat(q, n).slot[Behind(q.tail)].nrepeats = n
           /\ (cmd_set_repeat(q, n).repeating <=> n # 0)
<1> DEFINE c == [Current(q) EXCEPT !.nrepeats = n]
           r == Changed(q, Behind(q.tail), c, n # 0)
<1>1. q \in Queues /\ Behind(q.tail) \in Slots /\ Current(q) \in Commands
  BY QueueTypes DEF QueueInv
<1>2. /\ c \in Commands /\ c.code = Current(q).code /\ c.nrepeats = n
      /\ c.arg = Current(q).arg /\ c.background = Current(q).background
  BY <1>1, NumberTypes
<1>3. cmd_set_repeat(q, n) = r
  BY <1>1, SetRepeatIs
<1>4. n # 0 => Current(q).code # CMD_NULL
  BY Zenon DEF Busy
<1> HIDE DEF c
<1>5. Kept(r, q) /\ r.slot[Behind(q.tail)] = c
  BY <1>1, <1>2, <1>4, ChangeKeeps DEF Current
<1>6. r.tail = q.tail /\ r.repeating = (n # 0)
  BY DEF Changed, Record
<1> QED
  BY <1>2, <1>3, <1>5, <1>6

\* What stops a command that repeats keeps, and does besides.
Stops(r, q) ==
    /\ Kept(r, q) /\ ~r.repeating
    /\ \A i \in Slots : Counts(q, i) => Quiet(r, i)

LEMMA CancelStops ==
    ASSUME NEW q, QueueInv(q) PROVE Stops(cmd_cancel_repeat(q), q)
<1> DEFINE r == cmd_cancel_repeat(q)
<1>1. /\ q \in Queues /\ Behind(q.tail) \in Slots /\ Current(q) \in Commands
      /\ q.repeating \in BOOLEAN
  BY QueueTypes DEF QueueInv
<1>2. CASE Current(q).nrepeats # 0 \/ q.repeating
  <2>1. r = cmd_set_repeat(q, 0)
    BY <1>2, Zenon DEF cmd_cancel_repeat
  <2>2. 0 \in 0 .. MostRepeats
    BY Numbers
  <2>3. /\ Kept(r, q) /\ r.tail = q.tail /\ r.slot[Behind(q.tail)].nrepeats = 0
        /\ (r.repeating <=> 0 # 0)
    BY <2>1, <2>2, SetRepeatKeeps
  <2> HIDE DEF r
  <2>4. ASSUME NEW i \in Slots, Counts(q, i) PROVE Quiet(r, i)
    BY <2>3, <2>4, Zenon DEF Kept, Counts, Quiet
  <2> QED
    BY <2>3, <2>4 DEF Stops, r
<1>3. CASE ~(Current(q).nrepeats # 0 \/ q.repeating)
  <2>1. r = q
    BY <1>3, Zenon DEF cmd_cancel_repeat
  <2>2. ASSUME NEW i \in Slots, Counts(q, i) PROVE Quiet(q, i)
    BY <1>3, <2>2, Zenon DEF Current, Counts, Quiet
  <2> QED
    BY <1>3, <2>1, <2>2, KeptSame DEF Stops
<1> QED
  BY <1>2, <1>3

LEMMA FlushParts ==
    ASSUME NEW q, QueueInv(q)
    PROVE  LET r == cmdq_flush(q)
           IN  /\ QueueInv(r) /\ SameLast(r, q) /\ LastAside(r) /\ LastFirst(r)
               /\ Busy(q) => Busy(r)
               /\ r.slot = q.slot /\ r.head = q.head /\ r.tail = q.head /\ Held(r) = {}
               /\ (r.repeating <=> q.repeating)
<1> DEFINE r == cmdq_flush(q)
<1>1. q \in Queues /\ Pointers(q) /\ q.head \in Slots
  BY QueueTypes DEF QueueInv
<1>2. r = Record(q.slot, q.head, q.head, q.last, q.copy, q.allowed, q.repeating)
  BY <1>1 DEF cmdq_flush, Record, Queues
<1>3. /\ r.slot = q.slot /\ r.head = q.head /\ r.tail = q.head /\ r.last = q.last
      /\ r.copy = q.copy /\ r.repeating = q.repeating
  BY <1>2, RecordFields
<1> HIDE DEF r
<1>4. r \in Queues
  BY <1>1, <1>2, QueueTypes, RecordTypes
<1>5. Held(r) = {}
  BY <1>3, <1>4, QueueTypes, HeldSlots
<1>6. Busy(q) => Busy(r)
  <2>1. CASE q.head # q.tail
    <3>1. Behind(q.head) \in Held(q)
      BY <1>1, <2>1, HeldSlots
    <3>2. q.slot[Behind(q.head)].code # CMD_NULL
      BY <3>1, Zenon DEF QueueInv, Proper
    <3> QED
      BY <1>3, <3>2 DEF Busy, Current
  <2>2. CASE q.head = q.tail
    BY <1>3, <2>2 DEF Busy, Current
  <2> QED
    BY <2>1, <2>2
<1>7. LastCommand(r) = LastCommand(q) /\ SameLast(r, q)
  BY <1>3, Zenon DEF LastCommand, SameLast
<1>8. Proper(r) /\ LastAside(r) /\ LastFirst(r)
  BY <1>5, Zenon DEF Proper, LastAside, LastFirst
<1>9. QueueInv(r)
  <2>1. r.repeating => Current(r).code # CMD_NULL
    BY <1>3, <1>6, Zenon DEF QueueInv, Busy
  <2> QED
    BY <1>3, <1>4, <1>7, <1>8, <2>1, Zenon DEF QueueInv
<1> QED
  BY <1>3, <1>5, <1>6, <1>7, <1>8, <1>9 DEF r

\* A queue that was stopped and flushed.
LEMMA FlushStops ==
    ASSUME NEW q, NEW r, Stops(r, q)
    PROVE  Stops(cmdq_flush(r), q)
<1> DEFINE t == cmdq_flush(r)
<1>1. QueueInv(r) /\ SameLast(r, q) /\ (Busy(q) => Busy(r)) /\ ~r.repeating
  BY Zenon DEF Stops, Kept
<1>2. /\ QueueInv(t) /\ SameLast(t, r) /\ LastAside(t) /\ LastFirst(t)
      /\ (Busy(r) => Busy(t)) /\ t.slot = r.slot /\ (t.repeating <=> r.repeating)
  BY <1>1, FlushParts
<1> HIDE DEF t
<1>3. ASSUME NEW i \in Slots, Counts(q, i) PROVE Quiet(t, i)
  BY <1>2, <1>3, Zenon DEF Stops, Quiet
<1>4. SameLast(t, q)
  BY <1>1, <1>2, Zenon DEF SameLast
<1>5. Kept(t, q)
  BY <1>1, <1>2, <1>3, <1>4, Zenon DEF Kept, Counts
<1> QED
  BY <1>1, <1>2, <1>3, <1>5, Zenon DEF Stops, t

LEMMA StopsAgain ==
    ASSUME NEW q, NEW r, NEW t, Kept(r, q), Stops(t, r) PROVE Stops(t, q)
<1>1. Kept(t, q) /\ ~t.repeating
  BY KeptAgain, Zenon DEF Stops
<1>2. \A i \in Slots : Counts(q, i) => Quiet(t, i)
  BY Zenon DEF Stops, Kept
<1> QED
  BY <1>1, <1>2, Zenon DEF Stops

LEMMA SlotIs ==
    ASSUME NEW q \in Queues, NEW s
    PROVE  [q EXCEPT !.slot = s] =
               Record(s, q.head, q.tail, q.last, q.copy, q.allowed, q.repeating)
  BY DEF Queues, Record

\* The newest command is changed in its place: it is one that waits.
LEMMA NewestKeeps ==
    ASSUME NEW q, QueueInv(q), q.head # q.tail, LastAside(q), NEW c \in Commands,
           c.code = q.slot[Behind(q.head)].code, c.nrepeats = q.slot[Behind(q.head)].nrepeats
    PROVE  /\ Kept(Changed(q, Behind(q.head), c, q.repeating), q)
           /\ Changed(q, Behind(q.head), c, q.repeating).head # q.tail
           /\ Changed(q, Behind(q.head), c, q.repeating).tail = q.tail
<1> DEFINE j == Behind(q.head)
<1>1. q \in Queues /\ j \in Slots /\ q.repeating \in BOOLEAN /\ Pointers(q)
  BY QueueTypes DEF QueueInv
<1>2. j # q.last
  BY <1>1, HeldSlots, Zenon DEF LastAside
<1>3. q.repeating => Current(q).code # CMD_NULL
  BY Zenon DEF QueueInv
<1>4. Changed(q, j, c, q.repeating).head = q.head /\ Changed(q, j, c, q.repeating).tail = q.tail
  BY DEF Changed, Record
<1> HIDE DEF j
<1>5. c.code = q.slot[j].code /\ c.nrepeats = q.slot[j].nrepeats
  BY DEF j
<1>6. Kept(Changed(q, j, c, q.repeating), q)
  BY <1>1, <1>2, <1>3, <1>5, ChangeKeeps
<1> QED
  BY <1>4, <1>6 DEF j

LEMMA BackgroundKeeps ==
    ASSUME NEW q, QueueInv(q), q.head # q.tail, LastAside(q), NEW b \in 0 .. 2
    PROVE  Kept(Background(q, b), q)
<1> DEFINE j == Behind(q.head)
           c == [q.slot[j] EXCEPT !.background = b]
           s == [q.slot EXCEPT ![j] = c]
<1>1. q \in Queues /\ j \in Slots /\ q.slot[j] \in Commands
  BY QueueTypes DEF QueueInv
<1>2. /\ c \in Commands /\ c.code = q.slot[j].code /\ c.nrepeats = q.slot[j].nrepeats
  BY <1>1, BackgroundTypes
<1>3. Background(q, b) = [q EXCEPT !.slot = s]
  BY Zenon DEF Background
<1>4. Background(q, b) = Changed(q, j, c, q.repeating)
  BY <1>1, <1>3, SlotIs, Zenon DEF Changed
<1> HIDE DEF c
<1> QED
  BY <1>2, <1>4, NewestKeeps

LEMMA ArgumentKeeps ==
    ASSUME NEW q, QueueInv(q), q.head # q.tail, LastAside(q), NEW a \in Special .. MaxRest
    PROVE  Kept(Argument(q, a), q)
<1> DEFINE j == Behind(q.head)
           c == [q.slot[j] EXCEPT !.arg = a]
           s == [q.slot EXCEPT ![j] = c]
<1>1. q \in Queues /\ j \in Slots /\ q.slot[j] \in Commands
  BY QueueTypes DEF QueueInv
<1>2. /\ c \in Commands /\ c.code = q.slot[j].code /\ c.nrepeats = q.slot[j].nrepeats
  BY <1>1, ArgumentTypes
<1>3. Argument(q, a) = [q EXCEPT !.slot = s]
  BY Zenon DEF Argument
<1>4. Argument(q, a) = Changed(q, j, c, q.repeating)
  BY <1>1, <1>3, SlotIs, Zenon DEF Changed
<1> HIDE DEF c
<1> QED
  BY <1>2, <1>4, NewestKeeps

\* do_cmd_run() takes the count of the command that runs for itself.
LEMMA TakeCountKeeps ==
    ASSUME NEW q, QueueInv(q)
    PROVE  /\ Kept([q EXCEPT !.slot[Behind(q.tail)].nrepeats = 0], q)
           /\ q.slot[Behind(q.tail)].nrepeats \in 0 .. MostRepeats
<1> DEFINE j == Behind(q.tail)
           c == [q.slot[j] EXCEPT !.nrepeats = 0]
           s == [q.slot EXCEPT ![j] = c]
           r == [q EXCEPT !.slot[j].nrepeats = 0]
<1>1. q \in Queues /\ j \in Slots /\ q.slot[j] \in Commands /\ q.repeating \in BOOLEAN
  BY QueueTypes DEF QueueInv
<1>2. 0 \in 0 .. MostRepeats
  BY Numbers
<1>3. /\ c \in Commands /\ c.code = q.slot[j].code /\ c.nrepeats = 0
      /\ c.arg = q.slot[j].arg /\ c.background = q.slot[j].background
  BY <1>1, <1>2, NumberTypes
<1>4. r = [q EXCEPT !.slot = s]
  BY Zenon
<1>5. r = Changed(q, j, c, q.repeating)
  BY <1>1, <1>4, SlotIs, Zenon DEF Changed
<1>6. q.repeating => Current(q).code # CMD_NULL
  BY Zenon DEF QueueInv
<1>7. q.slot[j].nrepeats \in 0 .. MostRepeats
  BY <1>1, CommandTypes
<1> HIDE DEF c, r, j
<1>8. Kept(r, q)
  BY <1>1, <1>3, <1>5, <1>6, ChangeKeeps
<1> QED
  BY <1>7, <1>8, Zenon DEF r, j

-----------------------------------------------------------------------------
(* Taking out, and counting.                                               *)

\* The command taken out is a command, and is the last one unless it came up by itself.
LEMMA TakenParts ==
    ASSUME NEW q, QueueInv(q), LastFirst(q), Pending(q)
    PROVE  LET r == Taken(q)
           IN  /\ QueueInv(r) /\ LastAside(r) /\ Busy(r)
               /\ Current(r).background = 0 => LastCommand(r) = Current(r)
               /\ Current(r).background # 0 => LastCommand(r) = LastCommand(q)
<1> DEFINE t == IF q.repeating THEN q ELSE [q EXCEPT !.tail = Ahead(@)]
           r == Taken(q)
<1>1. /\ q \in Queues /\ Pointers(q) /\ q.head \in Slots /\ q.tail \in Slots
      /\ Ahead(q.tail) \in Slots
  BY QueueTypes, Neighbours DEF QueueInv
<1>2. r = IF Current(t).background # 0 THEN t ELSE [t EXCEPT !.last = Behind(t.tail)]
  BY Zenon DEF Taken
<1>3. /\ t \in Queues /\ t.slot = q.slot /\ t.head = q.head /\ t.last = q.last /\ t.copy = q.copy
      /\ (t.repeating <=> q.repeating) /\ Current(t).code # CMD_NULL
      /\ LastAside(t) /\ Held(t) \subseteq Held(q)
  <2>1. CASE q.repeating
    <3>1. Current(q).code # CMD_NULL /\ LastAside(q)
      BY <2>1, Zenon DEF QueueInv, LastFirst, LastAside
    <3>2. t = q
      BY <2>1
    <3> QED
      BY <1>1, <3>1, <3>2
  <2>2. CASE ~q.repeating
    <3>1. q.head # q.tail
      BY <2>2 DEF Pending
    <3>2. t = [q EXCEPT !.tail = Ahead(q.tail)]
      BY <2>2
    <3>3. t = Record(q.slot, q.head, Ahead(q.tail), q.last, q.copy, q.allowed, q.repeating)
      BY <1>1, <3>2 DEF Queues, Record
    <3> HIDE DEF t
    <3>4. t \in Queues
      BY <1>1, <3>3, QueueTypes, RecordTypes
    <3>5. /\ t.slot = q.slot /\ t.head = q.head /\ t.tail = Ahead(q.tail) /\ t.last = q.last
          /\ t.copy = q.copy /\ t.repeating = q.repeating
      BY <3>3, RecordFields
    <3>6. Held(t) = Held(q) \ {q.tail} /\ Behind(t.tail) = q.tail
      BY <1>1, <3>1, <3>5, OneLessHeld
    <3>7. q.tail \in Held(q)
      BY <1>1, <3>1, HeldSlots
    <3>8. q.slot[q.tail].code # CMD_NULL
      BY <3>7, Zenon DEF QueueInv, Proper
    <3>9. Current(t).code # CMD_NULL
      BY <3>5, <3>6, <3>8 DEF Current
    <3>10. LastAside(t)
      BY <3>5, <3>6, Zenon DEF LastAside, LastFirst
    <3> QED
      BY <3>4, <3>5, <3>6, <3>9, <3>10
  <2> QED
    BY <2>1, <2>2
<1> HIDE DEF t, r
<1>4. t.tail \in Slots /\ Behind(t.tail) \in Slots /\ Pointers(t) /\ Behind(t.tail) \notin Held(t)
  BY <1>3, QueueTypes, HeldSlots
<1>5. LastCommand(t) = LastCommand(q)
  BY <1>3 DEF LastCommand
<1>6. Proper(t)
  BY <1>3, Zenon DEF Proper, QueueInv
<1>7. QueueInv(t)
  BY <1>3, <1>5, <1>6, Zenon DEF QueueInv
<1>8. CASE Current(t).background # 0
  <2>1. r = t
    BY <1>2, <1>8
  <2> QED
    BY <1>3, <1>5, <1>7, <1>8, <2>1, Zenon DEF Busy, r
<1>9. CASE Current(t).background = 0
  <2>1. r = [t EXCEPT !.last = Behind(t.tail)]
    BY <1>2, <1>9
  <2>2. r = Record(t.slot, t.head, t.tail, Behind(t.tail), t.copy, t.allowed, t.repeating)
    BY <1>3, <2>1 DEF Queues, Record
  <2>3. r \in Queues
    BY <1>3, <1>4, <2>2, QueueTypes, RecordTypes
  <2>4. /\ r.slot = t.slot /\ r.head = t.head /\ r.tail = t.tail /\ r.last = Behind(t.tail)
        /\ r.repeating = t.repeating
    BY <2>2, RecordFields
  <2>5. Held(r) = Held(t) /\ Current(r) = Current(t)
    BY <2>4 DEF Held, Current
  <2>6. Behind(t.tail) >= 0
    BY <1>4, Neighbours
  <2>7. LastCommand(r) = Current(r)
    BY <2>4, <2>6 DEF LastCommand, Current
  <2>8. LastAside(r)
    BY <1>4, <2>4, <2>5, Zenon DEF LastAside
  <2>9. Proper(r)
    BY <1>6, <2>4, <2>5, Zenon DEF Proper
  <2>10. QueueInv(r) /\ Busy(r)
    BY <1>3, <1>9, <2>3, <2>5, <2>7, <2>9, Zenon DEF QueueInv, Busy
  <2> QED
    BY <1>9, <2>5, <2>7, <2>8, <2>10, Zenon DEF r
<1> QED
  BY <1>8, <1>9

LEMMA StartedKeeps ==
    ASSUME NEW q, QueueInv(q), LastAside(q), Busy(q)
    PROVE  Kept(Started(q), q)
<1> DEFINE c == Current(q)
           r == IF ~repeat_allowed(c.code) THEN cmd_set_repeat(q, 0)
                ELSE IF auto_repeat_n(c.code) > 0 /\ c.nrepeats = 0
                THEN cmd_set_repeat(q, auto_repeat_n(c.code)) ELSE q
           p == Started(q)
<1>1. Started(q) = [r EXCEPT !.allowed = TRUE]
  BY Zenon DEF Started
<1>2. 0 \in 0 .. MostRepeats /\ auto_repeat_n(c.code) \in 0 .. MostRepeats
  BY Numbers DEF auto_repeat_n
<1>3. Kept(r, q)
  <2>1. CASE r = cmd_set_repeat(q, 0)
    BY <1>2, <2>1, SetRepeatKeeps
  <2>2. CASE r = cmd_set_repeat(q, auto_repeat_n(c.code))
    BY <1>2, <2>2, SetRepeatKeeps
  <2>3. CASE r = q
    BY <2>3, KeptSame
  <2> QED
    BY <2>1, <2>2, <2>3
<1> HIDE DEF r, p
<1>4. r \in Queues
  BY <1>3, Zenon DEF Kept, QueueInv
<1>5. p = Record(r.slot, r.head, r.tail, r.last, r.copy, TRUE, r.repeating)
  BY <1>1, <1>4 DEF Queues, Record, p
<1>6. p \in Queues
  BY <1>4, <1>5, QueueTypes, RecordTypes
<1>7. /\ p.slot = r.slot /\ p.head = r.head /\ p.tail = r.tail /\ p.last = r.last
      /\ p.copy = r.copy /\ p.repeating = r.repeating
  BY <1>5, Zenon DEF Record
<1>8. Held(p) = Held(r) /\ Current(p) = Current(r) /\ LastCommand(p) = LastCommand(r)
  BY <1>7 DEF Held, Current, LastCommand
<1>9. QueueInv(r)
  BY <1>3, Zenon DEF Kept
<1>10. Proper(p)
  BY <1>7, <1>8, <1>9, Zenon DEF QueueInv, Proper
<1>11. QueueInv(p)
  BY <1>6, <1>7, <1>8, <1>9, <1>10, Zenon DEF QueueInv
<1>12. (LastAside(r) => LastAside(p)) /\ (LastFirst(r) => LastFirst(p)) /\ (Busy(r) => Busy(p))
  BY <1>7, <1>8, Zenon DEF LastAside, LastFirst, Busy
<1>13. SameLast(p, r) /\ \A i \in Slots : Counts(r, i) => Counts(p, i)
  BY <1>7, <1>8, Zenon DEF SameLast, Counts, Quiet
<1>14. Kept(p, r)
  BY <1>11, <1>12, <1>13, Zenon DEF Kept
<1> QED
  BY <1>3, <1>14, KeptAgain, Zenon DEF p

LEMMA CountedKeeps ==
    ASSUME NEW q, QueueInv(q), LastAside(q), Busy(q), NEW i \in Slots, Counts(q, i),
           NEW n \in 0 .. MostRepeats
    PROVE  Kept(Counted(q, i, n), q)
<1>1. CASE q.slot[i].nrepeats > 0 /\ cmd_get_nrepeats(q) = n
  <2>1. Counted(q, i, n) = cmd_set_repeat(q, n - 1)
    BY <1>1, Zenon DEF Counted
  <2>2. Behind(q.tail) = i
    BY <1>1 DEF Counts, Quiet
  <2>3. n > 0
    BY <1>1, <2>2 DEF cmd_get_nrepeats, Current
  <2>4. n - 1 \in 0 .. MostRepeats
    BY <2>3, Numbers
  <2> QED
    BY <2>1, <2>4, SetRepeatKeeps
<1>2. CASE ~(q.slot[i].nrepeats > 0 /\ cmd_get_nrepeats(q) = n)
  <2>1. Counted(q, i, n) = q
    BY <1>2, Zenon DEF Counted
  <2> QED
    BY <2>1, KeptSame
<1> QED
  BY <1>1, <1>2

-----------------------------------------------------------------------------
(* The queue as a list.                                                    *)

LEMMA ListTypes ==
    ASSUME NEW q \in Queues
    PROVE  /\ AsList(q) \in Seq(Commands) /\ Len(AsList(q)) = Length(q) /\ Length(q) \in Nat
           /\ \A k \in 1 .. Length(q) : AsList(q)[k] = q.slot[At(q, k)]
           /\ ToSet(AsList(q)) = {q.slot[i] : i \in Held(q)}
<1> DEFINE n == Length(q)
           f == [k \in 1 .. n |-> q.slot[At(q, k)]]
<1>1. Pointers(q) /\ q.slot \in [Slots -> Commands] /\ Held(q) \subseteq Slots
  BY QueueTypes DEF Held
<1>2. n \in Nat
  BY <1>1, HowMany, Neighbours
<1>3. AsList(q) = f
  BY DEF AsList, At
<1>4. /\ \A k \in 1 .. n : At(q, k) \in Held(q)
      /\ \A i \in Held(q) : \E k \in 1 .. n : At(q, k) = i
  BY <1>1, Places
<1> HIDE DEF n
<1>5. f \in [1 .. n -> Commands]
  BY <1>1, <1>4
<1>6. \A k \in 1 .. n : f[k] = q.slot[At(q, k)]
  BY <1>4
<1> HIDE DEF f
<1>7. f \in Seq(Commands) /\ Len(f) = n /\ DOMAIN f = 1 .. n
  BY <1>2, <1>5
<1>8. ToSet(f) = {q.slot[i] : i \in Held(q)}
  <2>1. ASSUME NEW c \in ToSet(f) PROVE c \in {q.slot[i] : i \in Held(q)}
    BY <1>4, <1>6, <1>7, <2>1 DEF ToSet
  <2>2. ASSUME NEW i \in Held(q) PROVE q.slot[i] \in ToSet(f)
    <3>1. PICK k \in 1 .. n : At(q, k) = i
      BY <1>4
    <3>2. f[k] = q.slot[i]
      BY <1>6, <3>1
    <3> QED
      BY <1>7, <3>2 DEF ToSet
  <2> QED
    BY <2>1, <2>2
<1> QED
  BY <1>2, <1>3, <1>6, <1>7, <1>8 DEF n

\* A command put behind the others is the last of the list.
LEMMA ListGrows ==
    ASSUME NEW q \in Queues, ~Full(q), NEW r \in Queues, r.head = Ahead(q.head),
           r.tail = q.tail, \A i \in Slots \ {q.head} : r.slot[i] = q.slot[i],
           NEW c, r.slot[q.head] = c
    PROVE  AsList(r) = Append(AsList(q), c)
<1> DEFINE n == Length(q)
           s == AsList(q)
           t == AsList(r)
<1>1. Pointers(q) /\ Held(q) \subseteq Slots /\ q.head \in Slots
  BY QueueTypes DEF Held
<1>2. c \in Commands
  BY <1>1, QueueTypes
<1>3. /\ Length(r) = n + 1 /\ At(r, n + 1) = q.head
      /\ \A k \in 1 .. n : At(r, k) = At(q, k)
  BY <1>1, OneMoreHeld
<1>4. /\ s \in Seq(Commands) /\ Len(s) = n /\ n \in Nat
      /\ \A k \in 1 .. n : s[k] = q.slot[At(q, k)]
  BY ListTypes
<1>5. /\ t \in Seq(Commands) /\ Len(t) = n + 1
      /\ \A k \in 1 .. n + 1 : t[k] = r.slot[At(r, k)]
  BY <1>3, ListTypes
<1>6. \A k \in 1 .. n : At(q, k) \in Held(q)
  BY <1>1, Places
<1>7. q.head \notin Held(q)
  BY <1>1, HeldSlots
<1> HIDE DEF n, s, t
<1>8. \A k \in 1 .. n : t[k] = s[k]
  <2> SUFFICES ASSUME NEW k \in 1 .. n PROVE t[k] = s[k]
    OBVIOUS
  <2>1. k \in 1 .. n + 1
    BY <1>4
  <2>2. t[k] = r.slot[At(q, k)] /\ s[k] = q.slot[At(q, k)]
    BY <1>3, <1>4, <1>5, <2>1
  <2>3. At(q, k) \in Slots \ {q.head}
    BY <1>1, <1>6, <1>7
  <2> QED
    BY <2>2, <2>3
<1>9. t[n + 1] = c
  BY <1>3, <1>4, <1>5
<1>10. /\ Append(s, c) \in Seq(Commands) /\ Len(Append(s, c)) = n + 1
       /\ Append(s, c)[n + 1] = c /\ \A k \in 1 .. n : Append(s, c)[k] = s[k]
  BY <1>2, <1>4
<1>11. \A k \in 1 .. n + 1 : t[k] = Append(s, c)[k]
  <2> SUFFICES ASSUME NEW k \in 1 .. n + 1 PROVE t[k] = Append(s, c)[k]
    OBVIOUS
  <2>1. k \in 1 .. n \/ k = n + 1
    BY <1>4
  <2> QED
    BY <1>8, <1>9, <1>10, <2>1
<1>12. t = Append(s, c)
  BY <1>5, <1>10, <1>11, SeqEqual
<1> QED
  BY <1>12 DEF s, t

LEMMA PushPutsIn ==
    ASSUME NEW q \in Queues, NEW c \in Commands, ~Full(q)
    PROVE  PutsIn(cmdq_push_copy(q, c), q, c)
<1> DEFINE r == cmdq_push_copy(q, c)
<1>1. /\ r \in Queues /\ r.slot = [q.slot EXCEPT ![q.head] = c]
      /\ r.head = Ahead(q.head) /\ r.tail = q.tail
      /\ Current(r) = Current(q) /\ LastCommand(r) = LastCommand(q)
  BY PushParts
<1> HIDE DEF r
<1>2. r.slot[q.head] = c /\ \A i \in Slots \ {q.head} : r.slot[i] = q.slot[i]
  BY <1>1, QueueTypes
<1>3. AsList(r) = Append(AsList(q), c)
  BY <1>1, <1>2, ListGrows
<1> QED
  BY <1>1, <1>3, Zenon DEF PutsIn, r

\* CMD_REPEAT: the last command comes again, and the queue is sound as before; if it
\* is the only one that waits, it may be in its own slot.
LEMMA AgainParts ==
    ASSUME NEW q, QueueInv(q), CanRepeat(q)
    PROVE  LET r == cmdq_push_again(q)
           IN  /\ PutsIn(r, q, LastCommand(q)) /\ LastCommand(q).code # CMD_NULL
               /\ QueueInv(r) /\ (~Pending(q) => LastFirst(r))
               /\ r.slot[q.head] = LastCommand(q) /\ r.copy = q.copy
               /\ \A i \in Slots \ {q.head} : r.slot[i] = q.slot[i]
               /\ r.head = Ahead(q.head) /\ r.tail = q.tail /\ (r.repeating <=> q.repeating)
<1> DEFINE r == cmdq_push_again(q)
           c == LastCommand(q)
<1>1. /\ q \in Queues /\ Pointers(q) /\ q.head \in Slots /\ q.last \in Slots \cup {-1}
      /\ Ahead(q.head) \in Slots /\ c \in Commands /\ q.slot \in [Slots -> Commands]
  BY QueueTypes, Neighbours DEF QueueInv
<1>2. ~Full(q) /\ c.code # CMD_NULL
  BY DEF CanRepeat, QueueInv, LastCommand
<1>3. Behind(q.tail) # q.head /\ q.head \notin Held(q) /\ Behind(q.tail) \in Slots
  BY <1>1, <1>2, HowMany, HeldSlots, QueueTypes
<1>4. q.head >= 0
  BY <1>1, Neighbours
<1>5. /\ r \in Queues /\ r.head = Ahead(q.head) /\ r.tail = q.tail
      /\ r.slot[q.head] = c /\ \A i \in Slots \ {q.head} : r.slot[i] = q.slot[i]
      /\ (r.repeating <=> q.repeating) /\ r.last = q.last /\ r.copy = q.copy
  <2>1. CASE q.last = q.head
    <3>1. r = [q EXCEPT !.head = Ahead(q.head)]
      BY <2>1, Zenon DEF cmdq_push_again
    <3>2. r = Record(q.slot, Ahead(q.head), q.tail, q.last, q.copy, q.allowed, q.repeating)
      BY <1>1, <3>1 DEF Queues, Record
    <3> HIDE DEF r
    <3>3. r \in Queues
      BY <1>1, <3>2, QueueTypes, RecordTypes
    <3>4. /\ r.slot = q.slot /\ r.head = Ahead(q.head) /\ r.tail = q.tail
          /\ r.repeating = q.repeating /\ r.last = q.last /\ r.copy = q.copy
      BY <3>2, RecordFields
    <3>5. c = q.slot[q.head]
      BY <1>4, <2>1 DEF LastCommand
    <3> QED
      BY <3>3, <3>4, <3>5
  <2>2. CASE q.last # q.head
    <3>1. r = Put(q, c)
      BY <2>2, Zenon DEF cmdq_push_again, LastCommand
    <3> HIDE DEF r, c
    <3>2. /\ r \in Queues /\ r.slot = [q.slot EXCEPT ![q.head] = c]
          /\ r.head = Ahead(q.head) /\ r.tail = q.tail
          /\ r.last = q.last /\ r.copy = q.copy /\ (r.repeating <=> q.repeating)
      BY <1>1, <1>2, <3>1, PutParts
    <3>3. r.slot[q.head] = c /\ \A i \in Slots \ {q.head} : r.slot[i] = q.slot[i]
      BY <1>1, <3>2
    <3> QED
      BY <3>2, <3>3
  <2> QED
    BY <2>1, <2>2
<1> HIDE DEF r, c
<1>6. AsList(r) = Append(AsList(q), c)
  BY <1>1, <1>2, <1>5, ListGrows
<1>7. Current(r) = Current(q)
  BY <1>3, <1>5 DEF Current
<1>8. LastCommand(r) = c
  <2>1. CASE q.last >= 0
    <3>1. q.last = q.head \/ q.last \in Slots \ {q.head}
      BY <1>1, <2>1
    <3> QED
      BY <1>5, <2>1, <3>1 DEF LastCommand, c
  <2>2. CASE ~(q.last >= 0)
    BY <1>5, <2>2 DEF LastCommand, c
  <2> QED
    BY <2>1, <2>2
<1>9. Held(r) = Held(q) \cup {q.head}
  BY <1>1, <1>2, <1>5, OneMoreHeld
<1>10. Proper(r)
  BY <1>2, <1>5, <1>9, ProperAfterPut
<1>11. QueueInv(r)
  BY <1>5, <1>7, <1>8, <1>10, Zenon DEF QueueInv, c
<1>12. ASSUME ~Pending(q) PROVE LastFirst(r)
  <2>1. ~q.repeating /\ q.head = q.tail
    BY <1>12 DEF Pending
  <2>2. Held(q) = {}
    BY <1>1, <2>1, HeldSlots
  <2> QED
    BY <1>5, <1>9, <2>1, <2>2 DEF LastFirst
<1> QED
  BY <1>2, <1>5, <1>6, <1>7, <1>8, <1>11, <1>12, Zenon DEF PutsIn, r, c

-----------------------------------------------------------------------------
(* The game as a record.                                                   *)

Terms == [keys : Seq(Events), inkey_xtra : BOOLEAN]

Ups == [running : 0 .. Larger(MaxRun, MostRepeats), steps : BOOLEAN,
        resting : Special .. MaxRest, restDisturb : BOOLEAN, restCount : 0 .. MaxRest,
        paralyzed : 0 .. MaxSleep]

Meanings == (Codes \cup {CMD_NULL}) \X (Special .. MaxRest)

Histories == [cut : BOOLEAN, given : BOOLEAN, last : Meanings, behind : BOOLEAN,
              stuck : BOOLEAN, twice : BOOLEAN]

Games == [board : Boards, term : Terms, queue : Queues, up : Ups, history : Histories]

GameOf(b, t, q, u, h) == [board |-> b, term |-> t, queue |-> q, up |-> u, history |-> h]

LEMMA GameParts ==
    ASSUME NEW g \in Games
    PROVE  /\ g = GameOf(g.board, g.term, g.queue, g.up, g.history)
           /\ g.board \in Boards /\ g.term \in Terms /\ g.queue \in Queues
           /\ g.up \in Ups /\ g.history \in Histories
  BY DEF Games, GameOf

LEMMA GameTypes ==
    ASSUME NEW b \in Boards, NEW t \in Terms, NEW q \in Queues, NEW u \in Ups,
           NEW h \in Histories
    PROVE  /\ GameOf(b, t, q, u, h) \in Games
           /\ GameOf(b, t, q, u, h).board = b /\ GameOf(b, t, q, u, h).term = t
           /\ GameOf(b, t, q, u, h).queue = q /\ GameOf(b, t, q, u, h).up = u
           /\ GameOf(b, t, q, u, h).history = h
  BY DEF Games, GameOf

LEMMA UpTypes ==
    ASSUME NEW u \in Ups
    PROVE  /\ u.running \in 0 .. Larger(MaxRun, MostRepeats) /\ u.steps \in BOOLEAN
           /\ u.resting \in Special .. MaxRest /\ u.restDisturb \in BOOLEAN
           /\ u.restCount \in 0 .. MaxRest /\ u.paralyzed \in 0 .. MaxSleep
  BY DEF Ups

LEMMA HistoryTypes ==
    ASSUME NEW h \in Histories
    PROVE  /\ h.cut \in BOOLEAN /\ h.given \in BOOLEAN /\ h.last \in Meanings
           /\ h.behind \in BOOLEAN /\ h.stuck \in BOOLEAN /\ h.twice \in BOOLEAN
  BY DEF Histories

-----------------------------------------------------------------------------
(* The invariant, of the game as a value.                                  *)

Young(keys) == \A i \in DOMAIN keys : ~keys[i].old

\* The keys on their way: right, and new once the flush that a disturbance asks for
\* has been done.
KeysInv(b, t) ==
    /\ BoardInv(b) /\ t \in Terms /\ Handed(t.keys)
    /\ ~t.inkey_xtra => Fresh(b) /\ Young(t.keys)

LastMeans(q, last) ==
    LastCommand(q).code # CMD_NULL => last = <<LastCommand(q).code, LastCommand(q).arg>>

GameInv(g) ==
    /\ g \in Games
    /\ KeysInv(g.board, g.term)
    /\ QueueInv(g.queue) /\ LastMeans(g.queue, g.history.last)

\* While a command is carried out that was in slot i.
Doing(g, i) ==
    GameInv(g) /\ LastAside(g.queue) /\ Busy(g.queue) /\ Counts(g.queue, i)

LEMMA LastMeansSame ==
    ASSUME NEW q, NEW r, NEW last, SameLast(r, q), LastMeans(q, last) PROVE LastMeans(r, last)
  BY Zenon DEF SameLast, LastMeans

LEMMA OnQueueParts ==
    ASSUME NEW g, GameInv(g), NEW q, Kept(q, g.queue)
    PROVE  /\ GameInv(OnQueue(g, q)) /\ OnQueue(g, q).queue = q
           /\ OnQueue(g, q).board = g.board /\ OnQueue(g, q).term = g.term
           /\ OnQueue(g, q).up = g.up /\ OnQueue(g, q).history = g.history
           /\ \A i \in Slots : Doing(g, i) => Doing(OnQueue(g, q), i)
<1> DEFINE m == OnQueue(g, q)
<1>1. g \in Games /\ QueueInv(q) /\ q \in Queues
  BY Zenon DEF GameInv, Kept, QueueInv
<1>2. m = GameOf(g.board, g.term, q, g.up, g.history)
  BY <1>1 DEF OnQueue, Games, GameOf
<1> HIDE DEF m
<1>3. /\ m \in Games /\ m.queue = q /\ m.board = g.board /\ m.term = g.term /\ m.up = g.up
      /\ m.history = g.history
  BY <1>1, <1>2, GameParts, GameTypes
<1>4. LastMeans(m.queue, m.history.last)
  BY <1>3, LastMeansSame, Zenon DEF Kept, GameInv
<1>5. GameInv(m)
  BY <1>1, <1>3, <1>4, Zenon DEF GameInv
<1>6. ASSUME NEW i \in Slots, Doing(g, i) PROVE Doing(m, i)
  BY <1>3, <1>5, <1>6, Zenon DEF Doing, Kept
<1> QED
  BY <1>3, <1>5, <1>6, Zenon DEF m

LEMMA WithUp ==
    ASSUME NEW g, GameInv(g), NEW u \in Ups
    PROVE  LET m == [g EXCEPT !.up = u]
           IN  /\ GameInv(m) /\ m.queue = g.queue /\ m.board = g.board /\ m.term = g.term
               /\ m.up = u /\ m.history = g.history
               /\ \A i \in Slots : Doing(g, i) => Doing(m, i)
<1> DEFINE m == [g EXCEPT !.up = u]
<1>1. g \in Games
  BY Zenon DEF GameInv
<1>2. m = GameOf(g.board, g.term, g.queue, u, g.history)
  BY <1>1 DEF Games, GameOf
<1> HIDE DEF m
<1>3. /\ m \in Games /\ m.queue = g.queue /\ m.board = g.board /\ m.term = g.term /\ m.up = u
      /\ m.history = g.history
  BY <1>1, <1>2, GameParts, GameTypes
<1>4. GameInv(m)
  BY <1>3, Zenon DEF GameInv
<1>5. ASSUME NEW i \in Slots, Doing(g, i) PROVE Doing(m, i)
  BY <1>3, <1>4, <1>5, Zenon DEF Doing
<1> QED
  BY <1>3, <1>4, <1>5, Zenon DEF m

LEMMA WithHistory ==
    ASSUME NEW g, GameInv(g), NEW h \in Histories,
           h.last = g.history.last
    PROVE  LET m == [g EXCEPT !.history = h]
           IN  /\ GameInv(m) /\ m.queue = g.queue /\ m.board = g.board /\ m.term = g.term
               /\ m.up = g.up /\ m.history = h
               /\ \A i \in Slots : Doing(g, i) => Doing(m, i)
<1> DEFINE m == [g EXCEPT !.history = h]
<1>1. g \in Games
  BY Zenon DEF GameInv
<1>2. m = GameOf(g.board, g.term, g.queue, g.up, h)
  BY <1>1 DEF Games, GameOf
<1> HIDE DEF m
<1>3. /\ m \in Games /\ m.queue = g.queue /\ m.board = g.board /\ m.term = g.term /\ m.up = g.up
      /\ m.history = h
  BY <1>1, <1>2, GameParts, GameTypes
<1>4. GameInv(m)
  BY <1>3, Zenon DEF GameInv
<1>5. ASSUME NEW i \in Slots, Doing(g, i) PROVE Doing(m, i)
  BY <1>3, <1>4, <1>5, Zenon DEF Doing
<1> QED
  BY <1>3, <1>4, <1>5, Zenon DEF m

-----------------------------------------------------------------------------
(* A disturbance.                                                          *)

\* What a disturbance leaves of each part.
QuietQueue(g) == IF g.up.running > 0 THEN cmdq_flush(cmd_cancel_repeat(g.queue))
                 ELSE cmd_cancel_repeat(g.queue)
QuietHistory(h, ran) ==
    [h EXCEPT !.given = @ /\ ~ran, !.cut = TRUE, !.stuck = FALSE]
OldTerm(t) == [keys |-> Old(t.keys), inkey_xtra |-> TRUE]

LEMMA DisturbIs ==
    ASSUME NEW g \in Games
    PROVE  Disturb(g) = GameOf(Aged(g.board), OldTerm(g.term), QuietQueue(g), Stopped(g.up),
                               QuietHistory(g.history, g.up.running > 0))
<1> DEFINE Q == QuietQueue(g)
           U == Stopped(g.up)
           G == [g.history EXCEPT !.given = @ /\ ~(g.up.running > 0)]
           H == [G EXCEPT !.cut = TRUE, !.stuck = FALSE]
           m1 == [g EXCEPT !.queue = Q]
           m2 == [m1 EXCEPT !.up = U]
           m3 == [m2 EXCEPT !.history = G]
<1>1. Quietened(g) = m3
  BY Zenon DEF Quietened, QuietQueue
<1> HIDE DEF Q, U, G
<1>2. g = GameOf(g.board, g.term, g.queue, g.up, g.history)
  BY GameParts
<1>3. m1 = GameOf(g.board, g.term, Q, g.up, g.history)
  BY <1>2 DEF GameOf
<1> HIDE DEF m1
<1>4. m2 = GameOf(g.board, g.term, Q, U, g.history)
  BY <1>3 DEF GameOf
<1> HIDE DEF m2
<1>5. m3 = GameOf(g.board, g.term, Q, U, G)
  BY <1>4 DEF GameOf
<1> HIDE DEF m3
<1>6. /\ m3.term = g.term /\ m3.board = g.board /\ m3.history = G
  BY <1>5 DEF GameOf
<1> DEFINE t == OldTerm(g.term)
           b == Aged(g.board)
           n1 == [m3 EXCEPT !.term = t]
           n2 == [n1 EXCEPT !.board = b]
           n3 == [n2 EXCEPT !.history = H]
<1>7. Disturb(g) = n3
  BY <1>1, <1>6, Zenon DEF Disturb, OldTerm
<1> HIDE DEF t, b, H
<1>8. n1 = GameOf(g.board, t, Q, U, G)
  BY <1>5 DEF GameOf
<1> HIDE DEF n1
<1>9. n2 = GameOf(b, t, Q, U, G)
  BY <1>8 DEF GameOf
<1> HIDE DEF n2
<1>10. n3 = GameOf(b, t, Q, U, H)
  BY <1>9 DEF GameOf
<1>11. H = QuietHistory(g.history, g.up.running > 0)
  BY Zenon DEF H, G, QuietHistory
<1> QED
  BY <1>7, <1>10, <1>11, Zenon DEF Q, U, t, b

LEMMA StoppedParts ==
    ASSUME NEW u \in Ups
    PROVE  LET v == Stopped(u)
           IN  /\ v \in Ups /\ v.running = 0 /\ v.resting = 0 /\ v.paralyzed = u.paralyzed
               /\ v.restCount = u.restCount
               /\ (v.steps <=> u.steps /\ u.running = 0)
               /\ (v.restDisturb <=> u.restDisturb \/ u.resting # 0)
<1> DEFINE s == u.steps /\ u.running = 0
           d == u.restDisturb \/ u.resting # 0
           v == Stopped(u)
<1>1. v = [u EXCEPT !.resting = 0, !.running = 0, !.steps = s, !.restDisturb = d]
  BY Zenon DEF Stopped, player_is_resting
<1>2. /\ s \in BOOLEAN /\ d \in BOOLEAN /\ 0 \in Special .. MaxRest
      /\ 0 \in 0 .. Larger(MaxRun, MostRepeats)
  BY Numbers
<1> HIDE DEF s, d
<1>3. v \in Ups
  BY <1>1, <1>2 DEF Ups
<1>4. v.running = 0 /\ v.resting = 0 /\ v.paralyzed = u.paralyzed /\ v.restCount = u.restCount
  BY <1>1 DEF Ups
<1>5. v.steps = s /\ v.restDisturb = d
  BY <1>1, Zenon DEF Ups
<1> QED
  BY <1>3, <1>4, <1>5, Zenon DEF s, d

LEMMA QuietHistoryParts ==
    ASSUME NEW h \in Histories, NEW ran \in BOOLEAN
    PROVE  LET k == QuietHistory(h, ran)
           IN  /\ k \in Histories /\ k.cut /\ ~k.stuck /\ (k.given <=> h.given /\ ~ran)
               /\ k.last = h.last /\ k.behind = h.behind
               /\ k.twice = h.twice
<1> DEFINE n == h.given /\ ~ran
           k == QuietHistory(h, ran)
<1>1. k = [h EXCEPT !.given = n, !.cut = TRUE, !.stuck = FALSE]
  BY Zenon DEF QuietHistory
<1>2. n \in BOOLEAN
  OBVIOUS
<1> HIDE DEF n
<1>3. k \in Histories
  BY <1>1, <1>2 DEF Histories
<1>4. k.last = h.last
  BY <1>1 DEF Histories
<1>5. /\ k.cut /\ ~k.stuck /\ k.given = n /\ k.behind = h.behind
      /\ k.twice = h.twice
  BY <1>1, Zenon DEF Histories
<1> QED
  BY <1>3, <1>4, <1>5, Zenon DEF n

LEMMA OldTermParts ==
    ASSUME NEW t \in Terms, Handed(t.keys)
    PROVE  OldTerm(t) \in Terms /\ Handed(OldTerm(t).keys) /\ OldTerm(t).inkey_xtra
<1> DEFINE n == Len(t.keys)
           old == Old(t.keys)
<1>1. t.keys \in Seq(Events) /\ n \in Nat /\ DOMAIN t.keys = 1 .. n
  BY DEF Terms
<1>2. \A i \in 1 .. n : t.keys[i] \in Events
  BY <1>1
<1>3. ASSUME NEW e \in Events
      PROVE  [e EXCEPT !.old = TRUE] \in Events /\ (Right(e) => Right([e EXCEPT !.old = TRUE]))
  BY DEF Events, Right
<1> HIDE DEF n
<1>4. old = [i \in 1 .. n |-> [t.keys[i] EXCEPT !.old = TRUE]]
  BY <1>1, Zenon DEF Old
<1>5. old \in [1 .. n -> Events] /\ \A i \in 1 .. n : old[i] = [t.keys[i] EXCEPT !.old = TRUE]
  BY <1>2, <1>3, <1>4
<1> HIDE DEF old
<1>6. old \in Seq(Events) /\ DOMAIN old = 1 .. n
  BY <1>1, <1>5
<1>7. Handed(old)
  <2> SUFFICES ASSUME NEW i \in 1 .. n PROVE Right(old[i])
    BY <1>6, Zenon DEF Handed
  <2>1. Right(t.keys[i])
    BY <1>1, Zenon DEF Handed
  <2> QED
    BY <1>2, <1>3, <1>5, <2>1, Zenon
<1>8. OldTerm(t) \in Terms
  BY <1>6 DEF OldTerm, Terms, old
<1>9. OldTerm(t).keys = old /\ OldTerm(t).inkey_xtra
  BY Zenon DEF OldTerm, old
<1> QED
  BY <1>7, <1>8, <1>9, Zenon

LEMMA DisturbParts ==
    ASSUME NEW g, GameInv(g)
    PROVE  LET m == Disturb(g)
           IN  /\ GameInv(m) /\ Stops(m.queue, g.queue)
               /\ m.up = Stopped(g.up)
               /\ m.history = QuietHistory(g.history, g.up.running > 0)
               /\ IF g.up.running > 0 THEN Held(m.queue) = {}
                  ELSE m.queue = cmd_cancel_repeat(g.queue)
               /\ m.term.inkey_xtra
               /\ \A i \in Slots : Doing(g, i) => Doing(m, i) /\ Quiet(m.queue, i)
<1> DEFINE m == Disturb(g)
           ran == g.up.running > 0
           Q == QuietQueue(g)
           b == Aged(g.board)
           t == OldTerm(g.term)
           u == Stopped(g.up)
           h == QuietHistory(g.history, ran)
<1>1. /\ g \in Games /\ QueueInv(g.queue) /\ LastMeans(g.queue, g.history.last)
      /\ BoardInv(g.board) /\ g.term \in Terms /\ Handed(g.term.keys)
  BY Zenon DEF GameInv, KeysInv
<1>2. g.up \in Ups /\ g.history \in Histories
  BY <1>1, GameParts
<1>3. m = GameOf(b, t, Q, u, h)
  BY <1>1, DisturbIs
<1>4. Stops(cmd_cancel_repeat(g.queue), g.queue)
  BY <1>1, CancelStops
<1>5. Stops(Q, g.queue) /\ (ran => Held(Q) = {}) /\ (~ran => Q = cmd_cancel_repeat(g.queue))
  <2>1. CASE ran
    <3>1. Q = cmdq_flush(cmd_cancel_repeat(g.queue))
      BY <2>1, Zenon DEF QuietQueue
    <3>2. QueueInv(cmd_cancel_repeat(g.queue))
      BY <1>4, Zenon DEF Stops, Kept
    <3>3. Held(Q) = {}
      BY <3>1, <3>2, FlushParts
    <3> QED
      BY <1>4, <2>1, <3>1, <3>3, FlushStops
  <2>2. CASE ~ran
    BY <1>4, <2>2, Zenon DEF QuietQueue
  <2> QED
    BY <2>1, <2>2
<1>6. b \in Boards /\ BoardInv(b)
  BY <1>1, AgedKeeps DEF BoardInv, BoardOK
<1>7. t \in Terms /\ Handed(t.keys) /\ t.inkey_xtra
  BY <1>1, OldTermParts
<1>8. u \in Ups
  BY <1>2, StoppedParts
<1>9. ran \in BOOLEAN
  OBVIOUS
<1> HIDE DEF ran
<1>10. h \in Histories /\ h.last = g.history.last
  BY <1>2, <1>9, QuietHistoryParts
<1>11. Q \in Queues /\ QueueInv(Q) /\ SameLast(Q, g.queue)
  BY <1>5, Zenon DEF Stops, Kept, QueueInv
<1> HIDE DEF m, Q, b, t, u, h
<1>12. /\ m \in Games /\ m.board = b /\ m.term = t /\ m.queue = Q /\ m.up = u /\ m.history = h
  BY <1>3, <1>6, <1>7, <1>8, <1>10, <1>11, GameTypes
<1>13. KeysInv(m.board, m.term)
  BY <1>6, <1>7, <1>12, Zenon DEF KeysInv
<1>14. LastMeans(m.queue, m.history.last)
  BY <1>1, <1>10, <1>11, <1>12, LastMeansSame
<1>15. GameInv(m)
  BY <1>11, <1>12, <1>13, <1>14, Zenon DEF GameInv
<1>16. ASSUME NEW i \in Slots, Doing(g, i) PROVE Doing(m, i) /\ Quiet(m.queue, i)
  <2>1. LastAside(g.queue) /\ Busy(g.queue) /\ Counts(g.queue, i)
    BY <1>16, Zenon DEF Doing
  <2>2. LastAside(Q) /\ Busy(Q) /\ Counts(Q, i) /\ Quiet(Q, i)
    BY <1>5, <2>1, Zenon DEF Stops, Kept
  <2> QED
    BY <1>12, <1>15, <2>2, Zenon DEF Doing
<1> QED
  BY <1>5, <1>7, <1>12, <1>15, <1>16, Zenon DEF m, u, h, ran

LEMMA FlushGame ==
    ASSUME NEW g, GameInv(g)
    PROVE  LET m == Flush(g)
           IN  /\ GameInv(m) /\ m.queue = cmdq_flush(g.queue) /\ m.up = g.up
               /\ m.board = g.board /\ m.term = g.term
               /\ m.history = [g.history EXCEPT !.given = FALSE]
               /\ LastAside(m.queue) /\ Held(m.queue) = {}
               /\ \A i \in Slots : Doing(g, i) /\ Quiet(g.queue, i) => Doing(m, i)
<1> DEFINE q == cmdq_flush(g.queue)
           h == [g.history EXCEPT !.given = FALSE]
           m1 == [g EXCEPT !.queue = q]
           m == [m1 EXCEPT !.history = h]
<1>1. g \in Games /\ QueueInv(g.queue) /\ LastMeans(g.queue, g.history.last)
  BY Zenon DEF GameInv
<1>2. /\ QueueInv(q) /\ SameLast(q, g.queue) /\ LastAside(q) /\ (Busy(g.queue) => Busy(q))
      /\ q.slot = g.queue.slot /\ Held(q) = {} /\ q \in Queues
  BY <1>1, FlushParts DEF QueueInv
<1>3. h \in Histories /\ h.last = g.history.last
  <2>1. g.history \in Histories
    BY <1>1, GameParts
  <2> QED
    BY <2>1 DEF Histories
<1>4. Flush(g) = m
  BY Zenon DEF Flush
<1> HIDE DEF q, h
<1>5. m1 = GameOf(g.board, g.term, q, g.up, g.history)
  BY <1>1 DEF GameOf, Games
<1> HIDE DEF m1
<1>6. m = GameOf(g.board, g.term, q, g.up, h)
  BY <1>5 DEF GameOf
<1> HIDE DEF m
<1>7. /\ m \in Games /\ m.board = g.board /\ m.term = g.term /\ m.queue = q /\ m.up = g.up
      /\ m.history = h
  BY <1>1, <1>2, <1>3, <1>6, GameParts, GameTypes
<1>8. LastMeans(m.queue, m.history.last)
  BY <1>1, <1>2, <1>3, <1>7, LastMeansSame
<1>9. KeysInv(m.board, m.term)
  BY <1>3, <1>7, Zenon DEF GameInv
<1>10. GameInv(m)
  BY <1>2, <1>7, <1>8, <1>9, Zenon DEF GameInv
<1>11. ASSUME NEW i \in Slots, Doing(g, i), Quiet(g.queue, i) PROVE Doing(m, i)
  BY <1>2, <1>7, <1>10, <1>11, Zenon DEF Doing, Counts, Quiet
<1> QED
  BY <1>2, <1>4, <1>7, <1>10, <1>11, Zenon DEF q, h

LEMMA PushGame ==
    ASSUME NEW g, GameInv(g), NEW code \in Codes, NEW arg \in Special .. MaxRest
    PROVE  LET m == Push(g, code, arg)
           IN  /\ GameInv(m) /\ Kept(m.queue, g.queue)
               /\ m.queue = cmdq_push_copy(g.queue, Command(code, 0, arg))
               /\ m.queue.head # m.queue.tail
               /\ m.up = g.up /\ m.board = g.board /\ m.term = g.term /\ m.history = g.history
               /\ \A i \in Slots : Doing(g, i) => Doing(m, i)
<1> DEFINE c == Command(code, 0, arg)
           q == cmdq_push_copy(g.queue, c)
<1>1. 0 \in 0 .. MostRepeats
  BY Numbers
<1>5. QueueInv(g.queue)
  BY Zenon DEF GameInv
<1>2. c \in Commands /\ c.code # CMD_NULL /\ c.nrepeats = 0
  BY <1>1, CommandTypes
<1> HIDE DEF c
<1>3. Kept(q, g.queue) /\ q.head # q.tail
  BY <1>2, <1>5, PushKeeps
<1>4. Push(g, code, arg) = OnQueue(g, q)
  BY Zenon DEF Push, c
<1> HIDE DEF q
<1> QED
  BY <1>3, <1>4, OnQueueParts DEF q, c

LEMMA SideEffectGame ==
    ASSUME NEW g, GameInv(g), g.queue.head # g.queue.tail, LastAside(g.queue), NEW b \in 0 .. 2
    PROVE  LET m == SideEffect(g, b)
           IN  /\ GameInv(m) /\ Kept(m.queue, g.queue) /\ m.queue = Background(g.queue, b)
               /\ m.up = g.up /\ m.board = g.board /\ m.term = g.term /\ m.history = g.history
               /\ \A i \in Slots : Doing(g, i) => Doing(m, i)
<1>1. Kept(Background(g.queue, b), g.queue)
  BY BackgroundKeeps, Zenon DEF GameInv
<1> QED
  BY <1>1, OnQueueParts DEF SideEffect

LEMMA PushWithGame ==
    ASSUME NEW g, GameInv(g), LastAside(g.queue), NEW code \in Codes,
           NEW arg \in Special .. MaxRest
    PROVE  LET m == PushWith(g, code, arg)
           IN  /\ GameInv(m) /\ Kept(m.queue, g.queue)
               /\ m.queue = Argument(cmdq_push_copy(g.queue, Command(code, 0, 0)), arg)
               /\ m.queue.head # m.queue.tail
               /\ m.up = g.up /\ m.board = g.board /\ m.term = g.term /\ m.history = g.history
               /\ \A i \in Slots : Doing(g, i) => Doing(m, i)
<1> DEFINE c == Command(code, 0, 0)
           q == cmdq_push_copy(g.queue, c)
           r == Argument(q, arg)
<1>1. 0 \in 0 .. MostRepeats /\ 0 \in Special .. MaxRest
  BY Numbers
<1>2. c \in Commands /\ c.code # CMD_NULL /\ c.nrepeats = 0
  BY <1>1, CommandTypes
<1> HIDE DEF c
<1>3. QueueInv(g.queue)
  BY Zenon DEF GameInv
<1>4. Kept(q, g.queue) /\ q.head # q.tail
  BY <1>2, <1>3, PushKeeps
<1>5. QueueInv(q) /\ LastAside(q)
  BY <1>4, Zenon DEF Kept
<1>6. Kept(r, q)
  BY <1>4, <1>5, ArgumentKeeps
<1>7. r.head # r.tail
  <2>1. q \in Queues
    BY <1>5, Zenon DEF QueueInv
  <2>2. r.head = q.head /\ r.tail = q.tail
    BY <2>1 DEF Argument, Queues
  <2> QED
    BY <1>4, <2>2
<1>8. Kept(r, g.queue)
  BY <1>4, <1>6, KeptAgain, Zenon
<1>9. PushWith(g, code, arg) = OnQueue(g, r)
  BY Zenon DEF PushWith, c
<1> HIDE DEF r
<1> QED
  BY <1>7, <1>8, <1>9, OnQueueParts DEF r, c

-----------------------------------------------------------------------------
(* The commands: whatever they lead to, the invariant holds.               *)

AllDo(results, i) == \A r \in results : Doing(r.game, i)

LEMMA ResultIs ==
    ASSUME NEW g PROVE Turn(g).game = g /\ Free(g).game = g
  BY Zenon DEF Turn, Free, Result

LEMMA DisturbDoes ==
    ASSUME NEW i \in Slots, NEW g, Doing(g, i)
    PROVE  Doing(Disturb(g), i) /\ Quiet(Disturb(g).queue, i)
  BY DisturbParts DEF Doing

LEMMA ParalyzeGame ==
    ASSUME NEW g, GameInv(g)
    PROVE  LET m == Paralyze(g)
           IN  /\ GameInv(m) /\ m.queue = Disturb(g).queue /\ m.history = Disturb(g).history
               /\ m.up.running = 0 /\ m.up.resting = 0 /\ m.up.steps = Disturb(g).up.steps
               /\ m.up.restDisturb = Disturb(g).up.restDisturb
               /\ \A i \in Slots : Doing(g, i) => Doing(m, i)
<1> DEFINE d == Disturb(g)
           p == IF d.up.paralyzed = 0 THEN MaxSleep ELSE d.up.paralyzed
           u == [d.up EXCEPT !.paralyzed = p]
           m == [d EXCEPT !.up = u]
<1>1. GameInv(d) /\ d.up = Stopped(g.up) /\ \A i \in Slots : Doing(g, i) => Doing(d, i)
  BY DisturbParts
<1>2. d.up \in Ups /\ d.up.running = 0 /\ d.up.resting = 0
  <2>1. g.up \in Ups
    BY GameParts, Zenon DEF GameInv
  <2> QED
    BY <1>1, <2>1, StoppedParts
<1>3. Paralyze(g) = m
  BY Zenon DEF Paralyze
<1> HIDE DEF d
<1>4. p \in 0 .. MaxSleep
  BY <1>2, Numbers, UpTypes
<1> HIDE DEF p
<1>5. u \in Ups /\ u.running = 0 /\ u.resting = 0
  BY <1>2, <1>4 DEF Ups
<1>6. u.steps = d.up.steps /\ u.restDisturb = d.up.restDisturb
  BY <1>2, Zenon DEF Ups
<1> HIDE DEF u
<1>7. /\ GameInv(m) /\ m.queue = d.queue /\ m.up = u /\ m.history = d.history
      /\ \A i \in Slots : Doing(d, i) => Doing(m, i)
  BY <1>1, <1>5, WithUp
<1> HIDE DEF m
<1> QED
  BY <1>1, <1>3, <1>5, <1>6, <1>7, Zenon DEF d

LEMMA TrapDoes ==
    ASSUME NEW i \in Slots, NEW g, Doing(g, i), NEW m \in TrapHits(g) PROVE Doing(m, i)
<1>1. GameInv(g)
  BY Zenon DEF Doing
<1>2. CASE m = Disturb(g)
  BY <1>2, DisturbDoes
<1>3. CASE m = Paralyze(g)
  BY <1>1, <1>3, ParalyzeGame
<1>4. CASE m = Flush(Disturb(g))
  <2>1. Doing(Disturb(g), i) /\ Quiet(Disturb(g).queue, i)
    BY DisturbDoes
  <2>2. GameInv(Disturb(g))
    BY <2>1, Zenon DEF Doing
  <2> QED
    BY <1>4, <2>1, <2>2, FlushGame
<1> QED
  BY <1>2, <1>3, <1>4 DEF TrapHits

LEMMA StepsDo ==
    ASSUME NEW i \in Slots, NEW g, Doing(g, i), NEW m \in Steps(g) PROVE Doing(m, i)
<1>1. PICK t \in {g} \cup TrapHits(g) : m = SideEffect(Push(t, "CMD_AUTOPICKUP", 0), 2)
  BY DEF Steps
<1>2. Doing(t, i)
  BY TrapDoes
<1> DEFINE p == Push(t, "CMD_AUTOPICKUP", 0)
<1>3. "CMD_AUTOPICKUP" \in Codes /\ 0 \in Special .. MaxRest /\ 2 \in 0 .. 2
  BY Numbers DEF Codes
<1>4. Doing(p, i) /\ p.queue.head # p.queue.tail
  BY <1>2, <1>3, PushGame DEF Doing
<1> HIDE DEF p
<1>5. Doing(SideEffect(p, 2), i)
  BY <1>3, <1>4, SideEffectGame DEF Doing
<1> QED
  BY <1>1, <1>5 DEF p

LEMMA SetRepeatGame ==
    ASSUME NEW g, GameInv(g), Busy(g.queue), LastAside(g.queue), NEW n \in 0 .. MostRepeats
    PROVE  LET m == SetRepeat(g, n)
           IN  /\ GameInv(m) /\ Kept(m.queue, g.queue) /\ m.queue = cmd_set_repeat(g.queue, n)
               /\ m.up = g.up /\ m.history = g.history
               /\ \A i \in Slots : Doing(g, i) => Doing(m, i)
<1>1. Kept(cmd_set_repeat(g.queue, n), g.queue)
  BY SetRepeatKeeps DEF GameInv
<1> QED
  BY <1>1, OnQueueParts DEF SetRepeat

LEMMA AlterDoes ==
    ASSUME NEW i \in Slots, NEW g, Doing(g, i) PROVE AllDo(Alter(g), i)
<1> DEFINE r == IF cmd_get_nrepeats(g.queue) = 0 THEN SetRepeat(g, AutoRepeat) ELSE g
<1>1. Doing(r, i)
  BY SetRepeatGame, Numbers DEF Doing
<1>2. Doing(Disturb(r), i)
  BY <1>1, DisturbDoes
<1>3. Alter(g) = {Turn(r), Turn(Disturb(r))}
  BY DEF Alter
<1> HIDE DEF r
<1> QED
  BY <1>1, <1>2, <1>3, ResultIs DEF AllDo

LEMMA MoveDoes ==
    ASSUME NEW i \in Slots, NEW g, Doing(g, i) PROVE AllDo(move_player(g), i)
<1>1. ASSUME NEW r \in move_player(g) PROVE Doing(r.game, i)
  <2>1. CASE r \in {Turn(m) : m \in Steps(g)}
    BY <2>1, StepsDo, ResultIs
  <2>2. CASE r \in {Turn(Disturb(g)), Free(Disturb(g))}
    BY <2>2, DisturbDoes, ResultIs
  <2> QED
    BY <2>1, <2>2 DEF move_player
<1> QED
  BY <1>1 DEF AllDo

LEMMA WalkDoes ==
    ASSUME NEW i \in Slots, NEW g, Doing(g, i) PROVE AllDo(Walk(g), i) /\ AllDo(Work(g), i)
<1>1. AllDo(move_player(g), i) /\ AllDo(Alter(g), i)
  BY MoveDoes, AlterDoes
<1>2. AllDo({Free(g), Turn(g)}, i)
  BY ResultIs DEF AllDo
<1>3. AllDo(Work(g), i)
  BY DisturbDoes, ResultIs DEF AllDo, Work
<1> QED
  BY <1>1, <1>2, <1>3 DEF AllDo, Walk

-----------------------------------------------------------------------------
(* Running, and the paths.                                                 *)

\* The next step of a run, put in.
StepQueue(g) ==
    LET q == Argument(cmdq_push_copy(g.queue, Command("CMD_RUN", 0, 0)), 0)
    IN  IF g.up.steps THEN Background(q, 1) ELSE q

LEMMA OnwardParts ==
    ASSUME NEW g, GameInv(g), LastAside(g.queue)
    PROVE  LET m == Onward(g)
           IN  /\ GameInv(m) /\ Kept(m.queue, g.queue)
               /\ \A i \in Slots : Doing(g, i) => Doing(m, i)
               /\ IF g.up.running = 0 /\ ~g.up.steps THEN m = g
                  ELSE IF g.up.running > 1
                  THEN /\ m.up = [g.up EXCEPT !.running = g.up.running - 1]
                       /\ m.queue = StepQueue(g)
                       /\ m.history = [g.history EXCEPT !.stuck = @ \/ Full(g.queue)]
                  ELSE /\ m.up.running = 0 /\ ~m.up.steps /\ m.up.resting = g.up.resting
                       /\ m.up.restDisturb = g.up.restDisturb
                       /\ m.queue = g.queue /\ m.history = g.history
<1> DEFINE n == IF g.up.running > 0 THEN g.up.running - 1 ELSE g.up.running
           u == [g.up EXCEPT !.running = n]
           h == [g.history EXCEPT !.stuck = @ \/ Full(g.queue)]
           s1 == [g EXCEPT !.up = u]
           s2 == [s1 EXCEPT !.history = h]
           next == PushWith(s2, "CMD_RUN", 0)
           v == [u EXCEPT !.steps = FALSE]
           stop == [g EXCEPT !.up = v]
           m == Onward(g)
<1>1. g \in Games /\ QueueInv(g.queue)
  BY Zenon DEF GameInv
<1>2. g.up \in Ups /\ g.history \in Histories
  BY <1>1, GameParts
<1>3. g.up.running \in 0 .. Larger(MaxRun, MostRepeats) /\ Larger(MaxRun, MostRepeats) \in Nat
      /\ g.up.steps \in BOOLEAN
  BY <1>2, UpTypes, Numbers
<1>4. n \in 0 .. Larger(MaxRun, MostRepeats) /\ (n > 0 <=> g.up.running > 1)
      /\ (n > 0 => n = g.up.running - 1)
  BY <1>3
<1>5. m = IF g.up.running = 0 /\ ~g.up.steps THEN g
          ELSE IF u.running > 0 THEN IF u.steps THEN SideEffect(next, 1) ELSE next
          ELSE stop
  <2> DEFINE next0 == PushWith([g EXCEPT !.up = u, !.history.stuck = @ \/ Full(g.queue)],
                               "CMD_RUN", 0)
  <2>1. next = next0
    BY Zenon
  <2>2. m = IF g.up.running = 0 /\ ~g.up.steps THEN g
            ELSE IF u.running > 0 THEN IF u.steps THEN SideEffect(next0, 1) ELSE next0
            ELSE stop
    BY DEF Onward
  <2> HIDE DEF next0, next, m, stop, u
  <2> QED
    BY <2>1, <2>2, Zenon
<1> HIDE DEF n, m
<1>6. u \in Ups /\ u.running = n /\ u.resting = g.up.resting
  BY <1>2, <1>4 DEF Ups
<1>7. u.steps = g.up.steps /\ u.restDisturb = g.up.restDisturb
  BY <1>2, Zenon DEF Ups
<1> HIDE DEF u
<1>8. v \in Ups /\ v.running = n /\ v.resting = g.up.resting
  BY <1>6 DEF Ups
<1>9. ~v.steps /\ v.restDisturb = g.up.restDisturb
  BY <1>6, <1>7, Zenon DEF Ups
<1> HIDE DEF v
<1>10. h \in Histories /\ h.last = g.history.last
  <2>1. (g.history.stuck \/ Full(g.queue)) \in BOOLEAN
    OBVIOUS
  <2> DEFINE w == g.history.stuck \/ Full(g.queue)
  <2> HIDE DEF w
  <2>2. h = [g.history EXCEPT !.stuck = w]
    BY Zenon DEF w
  <2>3. w \in BOOLEAN
    BY <2>1 DEF w
  <2> HIDE DEF h
  <2> QED
    BY <1>2, <2>2, <2>3 DEF Histories
<1> HIDE DEF h
<1>11. /\ GameInv(s1) /\ s1.queue = g.queue /\ s1.up = u /\ s1.history = g.history
       /\ \A i \in Slots : Doing(g, i) => Doing(s1, i)
  BY <1>6, WithUp
<1> HIDE DEF s1
<1>12. /\ GameInv(s2) /\ s2.queue = g.queue /\ s2.up = u /\ s2.history = h
       /\ \A i \in Slots : Doing(g, i) => Doing(s2, i)
  <2>1. /\ GameInv(s2) /\ s2.queue = s1.queue /\ s2.up = s1.up /\ s2.history = h
        /\ \A i \in Slots : Doing(s1, i) => Doing(s2, i)
    BY <1>10, <1>11, WithHistory
  <2> HIDE DEF s2
  <2> QED
    BY <1>11, <2>1, Zenon
<1> HIDE DEF s2
<1>13. "CMD_RUN" \in Codes /\ 0 \in Special .. MaxRest /\ 1 \in 0 .. 2
  BY Numbers DEF Codes
<1>14. /\ GameInv(next) /\ Kept(next.queue, g.queue)
       /\ next.queue = Argument(cmdq_push_copy(g.queue, Command("CMD_RUN", 0, 0)), 0)
       /\ next.queue.head # next.queue.tail /\ next.up = u /\ next.history = h
       /\ \A i \in Slots : Doing(g, i) => Doing(next, i)
  <2>1. LastAside(s2.queue)
    BY <1>12
  <2>2. /\ GameInv(next) /\ Kept(next.queue, s2.queue)
        /\ next.queue = Argument(cmdq_push_copy(s2.queue, Command("CMD_RUN", 0, 0)), 0)
        /\ next.queue.head # next.queue.tail /\ next.up = s2.up /\ next.history = s2.history
        /\ \A i \in Slots : Doing(s2, i) => Doing(next, i)
    BY <1>12, <1>13, <2>1, PushWithGame
  <2> HIDE DEF next
  <2> QED
    BY <1>12, <2>2, Zenon
<1> HIDE DEF next
<1>15. CASE g.up.running = 0 /\ ~g.up.steps
  <2>1. m = g
    BY <1>5, <1>15
  <2> QED
    BY <1>1, <1>15, <2>1, KeptSame, Zenon DEF m
<1>16. CASE ~(g.up.running = 0 /\ ~g.up.steps) /\ g.up.running > 1
  <2>1. m = IF g.up.steps THEN SideEffect(next, 1) ELSE next
    BY <1>4, <1>5, <1>6, <1>7, <1>16
  <2>2. LastAside(next.queue)
    BY <1>14, Zenon DEF Kept
  <2>3. /\ GameInv(SideEffect(next, 1)) /\ Kept(SideEffect(next, 1).queue, next.queue)
        /\ SideEffect(next, 1).queue = Background(next.queue, 1)
        /\ SideEffect(next, 1).up = next.up /\ SideEffect(next, 1).history = next.history
        /\ \A i \in Slots : Doing(next, i) => Doing(SideEffect(next, 1), i)
    BY <1>13, <1>14, <2>2, SideEffectGame
  <2>4. Kept(SideEffect(next, 1).queue, g.queue)
    BY <1>14, <2>3, KeptAgain, Zenon
  <2>5. /\ GameInv(m) /\ Kept(m.queue, g.queue) /\ m.up = u /\ m.history = h
        /\ \A i \in Slots : Doing(g, i) => Doing(m, i)
    BY <1>14, <2>1, <2>3, <2>4, Zenon
  <2>6. m.queue = StepQueue(g)
    BY <1>14, <2>1, <2>3, Zenon DEF StepQueue
  <2>7. u = [g.up EXCEPT !.running = g.up.running - 1]
    BY <1>4, <1>16 DEF u
  <2> QED
    BY <1>16, <2>5, <2>6, <2>7, Zenon DEF m, h
<1>17. CASE ~(g.up.running = 0 /\ ~g.up.steps) /\ ~(g.up.running > 1)
  <2>1. m = stop
    BY <1>4, <1>5, <1>6, <1>17
  <2>2. /\ GameInv(stop) /\ stop.queue = g.queue /\ stop.up = v /\ stop.history = g.history
        /\ \A i \in Slots : Doing(g, i) => Doing(stop, i)
    BY <1>8, WithUp
  <2>3. v.running = 0
    BY <1>4, <1>8, <1>17
  <2>4. Kept(stop.queue, g.queue)
    BY <1>1, <2>2, KeptSame
  <2> HIDE DEF stop
  <2> QED
    BY <1>8, <1>9, <1>17, <2>1, <2>2, <2>3, <2>4, Zenon DEF m
<1> QED
  BY <1>15, <1>16, <1>17

LEMMA OnwardDoes ==
    ASSUME NEW i \in Slots, NEW g, Doing(g, i) PROVE Doing(Onward(g), i)
  BY OnwardParts DEF Doing

LEMMA RunningTypes ==
    ASSUME NEW u \in Ups, NEW n \in 0 .. Larger(MaxRun, MostRepeats), NEW s \in BOOLEAN
    PROVE  /\ [u EXCEPT !.running = n] \in Ups /\ [u EXCEPT !.steps = s] \in Ups
           /\ [u EXCEPT !.running = n].running = n
  BY DEF Ups

LEMMA RunMoveDoes ==
    ASSUME NEW i \in Slots, NEW g, Doing(g, i), NEW moves, AllDo(moves, i)
    PROVE  AllDo(RunMove(g, moves), i)
<1> DEFINE halt == Free([g EXCEPT !.up.running = 0])
<1>1. Doing(halt.game, i)
  <2> DEFINE u == [g.up EXCEPT !.running = 0]
             m == [g EXCEPT !.up = u]
  <2>1. halt.game = m
    BY ResultIs, Zenon
  <2>2. GameInv(g) /\ g.up \in Ups
    BY GameParts DEF Doing, GameInv
  <2>3. u \in Ups
    BY <2>2, Numbers DEF Ups
  <2> HIDE DEF u
  <2>4. Doing(m, i)
    BY <2>2, <2>3, WithUp
  <2> QED
    BY <2>1, <2>4
<1> HIDE DEF halt
<1>2. ASSUME NEW r \in RunMove(g, moves) PROVE Doing(r.game, i)
  <2>1. PICK m \in moves \cup {halt} : r = [m EXCEPT !.game = Onward(m.game)]
    BY Zenon DEF RunMove, halt
  <2>2. Doing(m.game, i)
    BY <1>1 DEF AllDo
  <2>3. Doing(Onward(m.game), i)
    BY <2>2, OnwardDoes
  <2>4. r.game = Onward(m.game)
    BY <2>1
  <2> QED
    BY <2>3, <2>4
<1> QED
  BY <1>2 DEF AllDo

LEMMA ClearDoes ==
    ASSUME NEW i \in Slots, NEW g, Doing(g, i) PROVE Doing(Clear(g), i)
<1> DEFINE p == Push(Disturb(g), "CMD_TUNNEL", 0)
           open == SideEffect(p, 1)
           w == Push(open, "CMD_PATHFIND", 0)
           h == [w.history EXCEPT !.behind = TRUE, !.cut = FALSE]
           m == [w EXCEPT !.history = h]
<1>1. /\ "CMD_TUNNEL" \in Codes /\ "CMD_PATHFIND" \in Codes /\ 0 \in Special .. MaxRest
      /\ 1 \in 0 .. 2
  BY Numbers DEF Codes
<1>2. Doing(Disturb(g), i)
  BY DisturbDoes
<1>3. Doing(p, i) /\ p.queue.head # p.queue.tail
  BY <1>1, <1>2, PushGame DEF Doing
<1> HIDE DEF p
<1>4. Doing(open, i)
  BY <1>1, <1>3, SideEffectGame DEF Doing
<1> HIDE DEF open
<1>5. Doing(w, i)
  BY <1>1, <1>4, PushGame DEF Doing
<1>6. Clear(g) = m
  BY Zenon DEF Clear, open, p
<1> HIDE DEF w
<1>7. GameInv(w) /\ w.history \in Histories
  BY <1>5, GameParts DEF Doing, GameInv
<1>8. h \in Histories /\ h.last = w.history.last
  BY <1>7 DEF Histories
<1> HIDE DEF h
<1>9. Doing(m, i)
  BY <1>5, <1>7, <1>8, WithHistory
<1> QED
  BY <1>6, <1>9

LEMMA RunOnDoes ==
    ASSUME NEW i \in Slots, NEW g, Doing(g, i) PROVE AllDo(RunOn(g), i)
<1> DEFINE u == [g.up EXCEPT !.steps = FALSE]
           straight == [g EXCEPT !.up = u]
<1>1. GameInv(g) /\ g.up \in Ups
  BY GameParts DEF Doing, GameInv
<1>2. u \in Ups
  BY <1>1 DEF Ups
<1>3. straight = [g EXCEPT !.up.steps = FALSE]
  BY Zenon
<1> HIDE DEF u
<1>4. Doing(straight, i)
  BY <1>1, <1>2, WithUp
<1> HIDE DEF straight
<1>5. AllDo(RunMove(g, move_player(g)), i) /\ AllDo(RunMove(straight, move_player(straight)), i)
  BY <1>4, MoveDoes, RunMoveDoes
<1>6. AllDo({Free(Disturb(g))}, i) /\ AllDo({Free(Clear(g))}, i)
  BY DisturbDoes, ClearDoes, ResultIs DEF AllDo
<1>7. ASSUME NEW r \in RunOn(g)
      PROVE  \/ r \in {Free(Disturb(g))} \/ r \in RunMove(g, move_player(g))
             \/ r \in {Free(Clear(g))} \/ r \in RunMove(straight, move_player(straight))
  BY <1>3, <1>7, Zenon DEF RunOn
<1> QED
  BY <1>5, <1>6, <1>7 DEF AllDo

LEMMA RunFromDoes ==
    ASSUME NEW i \in Slots, NEW g, Doing(g, i) PROVE AllDo(RunFrom(g), i)
<1> DEFINE j == Behind(g.queue.tail)
           n == g.queue.slot[j].nrepeats
           k == IF n > 0 THEN n ELSE MaxRun
           q == [g.queue EXCEPT !.slot[j].nrepeats = 0]
           h == [g.history EXCEPT !.twice = @ \/ g.queue.repeating]
           u == [g.up EXCEPT !.running = k]
           s1 == [g EXCEPT !.queue = q]
           s2 == [s1 EXCEPT !.history = h]
           s3 == [s2 EXCEPT !.up = u]
           h2 == [h EXCEPT !.twice = TRUE]
           s4 == [s3 EXCEPT !.history = h2]
           start == [g EXCEPT !.queue.slot[j].nrepeats = 0,
                              !.history.twice = @ \/ g.queue.repeating,
                              !.up.running = k]
<1>1. GameInv(g) /\ g.up \in Ups /\ g.history \in Histories /\ QueueInv(g.queue)
  BY GameParts DEF Doing, GameInv
<1>2. Kept(q, g.queue) /\ n \in 0 .. MostRepeats
  BY <1>1, TakeCountKeeps
<1>3. start = s3
  BY Zenon
<1>4. RunFrom(g) = {Free(g), Free(Disturb(g))}
            \cup RunMove(start, move_player(start)
                                    \cup Alter([start EXCEPT !.history.twice = TRUE]))
  BY Zenon DEF RunFrom
<1>5. k \in 0 .. Larger(MaxRun, MostRepeats)
  BY <1>2, Numbers
<1> HIDE DEF k, q, start
<1>6. u \in Ups
  BY <1>1, <1>5, RunningTypes
<1>7. /\ h \in Histories /\ h.last = g.history.last
      /\ h2 \in Histories /\ h2.last = g.history.last
  <2> DEFINE w == g.history.twice \/ g.queue.repeating
  <2>1. w \in BOOLEAN
    OBVIOUS
  <2>2. h = [g.history EXCEPT !.twice = w]
    BY Zenon
  <2> HIDE DEF w, h
  <2>3. h \in Histories /\ h.last = g.history.last
    BY <1>1, <2>1, <2>2 DEF Histories
  <2>4. h2 \in Histories /\ h2.last = h.last
    BY <2>3 DEF Histories
  <2> QED
    BY <2>3, <2>4
<1> HIDE DEF u, h, h2
<1>8. Doing(s1, i) /\ GameInv(s1) /\ s1.history = g.history
  <2>1. s1 = OnQueue(g, q)
    BY Zenon DEF OnQueue
  <2> QED
    BY <1>1, <1>2, <2>1, OnQueueParts
<1> HIDE DEF s1
<1>9. Doing(s2, i) /\ GameInv(s2) /\ s2.history = h
  BY <1>7, <1>8, WithHistory
<1> HIDE DEF s2
<1>10. Doing(s3, i) /\ GameInv(s3) /\ s3.history = h
  BY <1>6, <1>9, WithUp
<1> HIDE DEF s3
<1>11. Doing(s4, i)
  BY <1>7, <1>10, WithHistory
<1>12. [start EXCEPT !.history.twice = TRUE] = s4
  BY <1>3, <1>10, Zenon DEF h2
<1> HIDE DEF s4
<1>13. AllDo(move_player(start) \cup Alter(s4), i)
  BY <1>3, <1>10, <1>11, MoveDoes, AlterDoes DEF AllDo
<1> DEFINE moves == move_player(start) \cup Alter(s4)
<1> HIDE DEF moves
<1>14. AllDo(RunMove(start, moves), i)
  BY <1>3, <1>10, <1>13, RunMoveDoes DEF moves
<1>15. AllDo({Free(g), Free(Disturb(g))}, i)
  BY DisturbDoes, ResultIs DEF AllDo
<1> QED
  BY <1>4, <1>12, <1>14, <1>15 DEF AllDo, moves

LEMMA RunDoes ==
    ASSUME NEW i \in Slots, NEW g, Doing(g, i), NEW dir PROVE AllDo(Run(g, dir), i)
<1> DEFINE w == g.up.running > 0
           h == [g.history EXCEPT !.stuck = w]
           web == [g EXCEPT !.history = h]
<1>1. GameInv(g) /\ g.history \in Histories
  BY GameParts DEF Doing, GameInv
<1>2. w \in BOOLEAN
  OBVIOUS
<1>3. web = [g EXCEPT !.history.stuck = g.up.running > 0]
  BY Zenon
<1> HIDE DEF w
<1>4. h \in Histories /\ h.last = g.history.last
  BY <1>1, <1>2 DEF Histories
<1> HIDE DEF h
<1>5. Doing(web, i)
  BY <1>1, <1>4, WithHistory
<1> HIDE DEF web
<1>6. AllDo({Turn(web)}, i)
  BY <1>5, ResultIs DEF AllDo
<1>7. AllDo(RunOn(g), i) /\ AllDo(RunFrom(g), i)
  BY RunOnDoes, RunFromDoes
<1>8. Run(g, dir) = {Turn(web)} \cup IF dir = 0 THEN RunOn(g) ELSE RunFrom(g)
  BY <1>3, Zenon DEF Run
<1> QED
  BY <1>6, <1>7, <1>8 DEF AllDo

LEMMA PathfindDoes ==
    ASSUME NEW i \in Slots, NEW g, Doing(g, i) PROVE AllDo(Pathfind(g), i)
<1> DEFINE none == [g.up EXCEPT !.steps = FALSE]
           left1 == [g EXCEPT !.up = none]
           path == [g.up EXCEPT !.steps = TRUE, !.running = MaxRun]
           goes == [g EXCEPT !.up = path]
<1>1. GameInv(g) /\ g.up \in Ups
  BY GameParts DEF Doing, GameInv
<1>2. none \in Ups /\ path \in Ups
  <2>1. MaxRun \in 0 .. Larger(MaxRun, MostRepeats)
    BY Numbers
  <2> QED
    BY <1>1, <2>1 DEF Ups
<1>3. Pathfind(g) = {Free(g), Free(left1)} \cup RunOn(goes)
  BY Zenon DEF Pathfind
<1> HIDE DEF none, path
<1>4. Doing(left1, i) /\ Doing(goes, i)
  BY <1>1, <1>2, WithUp
<1> HIDE DEF left1, goes
<1>5. AllDo(RunOn(goes), i)
  BY <1>4, RunOnDoes
<1>6. AllDo({Free(g), Free(left1)}, i)
  BY <1>4, ResultIs DEF AllDo
<1> QED
  BY <1>3, <1>5, <1>6 DEF AllDo

-----------------------------------------------------------------------------
(* Resting.                                                                *)

LEMMA RestFields ==
    ASSUME NEW u \in Ups, NEW n \in Special .. MaxRest
    PROVE  LET v == [u EXCEPT !.resting = n]
           IN  /\ v \in Ups /\ v.running = u.running /\ v.steps = u.steps /\ v.resting = n
               /\ v.restDisturb = u.restDisturb
  BY DEF Ups

LEMMA RestDisturbFields ==
    ASSUME NEW u \in Ups, NEW d \in BOOLEAN
    PROVE  LET v == [u EXCEPT !.restDisturb = d]
           IN  /\ v \in Ups /\ v.running = u.running /\ v.steps = u.steps
               /\ v.resting = u.resting /\ v.restDisturb = d
  BY DEF Ups

LEMMA CountFields ==
    ASSUME NEW u \in Ups, NEW n \in 0 .. MaxRest
    PROVE  LET v == [u EXCEPT !.restCount = n]
           IN  /\ v \in Ups /\ v.running = u.running /\ v.steps = u.steps
               /\ v.resting = u.resting /\ v.restDisturb = u.restDisturb
  BY DEF Ups

LEMMA RestingParts ==
    ASSUME NEW u \in Ups, NEW n \in Special .. MaxRest
    PROVE  LET v == player_resting_set_count(u, n)
           IN  /\ v \in Ups /\ v.running = u.running /\ v.steps = u.steps
               /\ v.resting = IF u.restDisturb THEN 0 ELSE n
               /\ ~v.restDisturb
<1> DEFINE v == player_resting_set_count(u, n)
<1>1. CASE u.restDisturb
  <2> DEFINE w == [u EXCEPT !.resting = 0]
             x == [w EXCEPT !.restDisturb = FALSE]
  <2>1. v = x
    BY <1>1, Zenon DEF player_resting_set_count
  <2>2. 0 \in Special .. MaxRest
    BY Numbers
  <2>3. w \in Ups /\ w.running = u.running /\ w.steps = u.steps /\ w.resting = 0
    BY <2>2, RestFields
  <2> HIDE DEF w
  <2>4. x \in Ups /\ x.running = w.running /\ x.steps = w.steps /\ x.resting = w.resting
    BY <2>3, RestDisturbFields
  <2>5. ~x.restDisturb
    BY <2>3, RestDisturbFields
  <2> HIDE DEF x
  <2> QED
    BY <1>1, <2>1, <2>3, <2>4, <2>5
<1>2. CASE ~u.restDisturb
  <2> DEFINE x == [u EXCEPT !.resting = n]
  <2>1. v = x
    BY <1>2, Zenon DEF player_resting_set_count
  <2>2. x \in Ups /\ x.running = u.running /\ x.steps = u.steps /\ x.resting = n
    BY RestFields
  <2>3. ~x.restDisturb
    BY <1>2, RestFields
  <2> HIDE DEF x
  <2> QED
    BY <1>2, <2>1, <2>2, <2>3
<1> QED
  BY <1>1, <1>2

\* What one turn of a rest leads to.
LEMMA RestParts ==
    ASSUME NEW g, GameInv(g), LastAside(g.queue), NEW n \in Special .. MaxRest,
           NEW r \in Rest(g, n)
    PROVE  /\ GameInv(r.game) /\ Kept(r.game.queue, g.queue)
           /\ \A i \in Slots : Doing(g, i) => Doing(r.game, i)
           /\ r.game.history = g.history
           /\ r.game.up.running = g.up.running /\ r.game.up.steps = g.up.steps
           /\ ~r.game.up.restDisturb
           /\ g.up.restDisturb => r.game.up.resting = 0
           /\ \/ r.game.queue = g.queue
              \/ /\ r.game.up.resting # 0
                 /\ \E a \in Special .. MaxRest :
                       r.game.queue =
                           Argument(cmdq_push_copy(g.queue, Command("CMD_REST", 0, 0)), a)
<1> DEFINE fresh == ~player_is_resting(g.up)
           turns == IF fresh /\ n = 1 THEN g.up.restCount ELSE n
           count == IF fresh /\ n > 1 THEN n ELSE g.up.restCount
           w == [g.up EXCEPT !.restCount = count]
           u == player_resting_set_count(w, turns)
           less == IF u.resting > 0 THEN u.resting - 1 ELSE u.resting
           v == [u EXCEPT !.resting = less]
           rested == [g EXCEPT !.up = v]
           over == [g EXCEPT !.up = u]
           again == PushWith(rested, "CMD_REST", turns)
           z == [again.up EXCEPT !.restCount = 0]
           forever == [again EXCEPT !.up = z]
           once == PushWith(rested, "CMD_REST", turns - 1)
<1>1. GameInv(g) /\ g.up \in Ups
  BY GameParts DEF GameInv
<1>2. rested = [g EXCEPT !.up = [u EXCEPT !.resting = IF @ > 0 THEN @ - 1 ELSE @]]
  BY Zenon
<1>3. forever = [PushWith(rested, "CMD_REST", turns) EXCEPT !.up.restCount = 0]
  BY Zenon
<1>5. turns \in Special .. MaxRest /\ count \in 0 .. MaxRest
  <2>1. g.up.restCount \in 0 .. MaxRest
    BY <1>1, UpTypes
  <2> QED
    BY <2>1, Numbers
<1> HIDE DEF rested, forever, again, once, less, over, count
<1>4. Rest(g, n) =
          IF u.resting = 0 THEN {Free(over)}
          ELSE IF u.resting = Special THEN {Turn(forever)}
          ELSE IF u.resting > 1 THEN {Turn(once)}
          ELSE {Turn(rested)}
  BY <1>2, <1>3, Zenon DEF Rest, over, once, count
<1> HIDE DEF fresh, turns
<1>6. /\ w \in Ups /\ w.running = g.up.running /\ w.steps = g.up.steps
      /\ w.resting = g.up.resting /\ w.restDisturb = g.up.restDisturb
  BY <1>1, <1>5, CountFields
<1> HIDE DEF w
<1>7. /\ u \in Ups /\ u.running = w.running /\ u.steps = w.steps
      /\ u.resting = IF w.restDisturb THEN 0 ELSE turns
      /\ ~u.restDisturb
  BY <1>5, <1>6, RestingParts
<1> HIDE DEF u
<1>8. /\ less \in Special .. MaxRest
      /\ u.resting = Special \/ u.resting > 1 => less # 0
  <2>1. u.resting \in Special .. MaxRest
    BY <1>7, UpTypes
  <2> QED
    BY <2>1, Numbers DEF less
<1>9. /\ v \in Ups /\ v.running = u.running /\ v.steps = u.steps /\ v.resting = less
      /\ ~v.restDisturb
  BY <1>7, <1>8, RestFields
<1> HIDE DEF v
<1>10. /\ GameInv(rested) /\ rested.queue = g.queue /\ rested.up = v
       /\ rested.history = g.history
       /\ \A i \in Slots : Doing(g, i) => Doing(rested, i)
  BY <1>1, <1>9, WithUp DEF rested
<1>11. /\ GameInv(over) /\ over.queue = g.queue /\ over.up = u
       /\ over.history = g.history
       /\ \A i \in Slots : Doing(g, i) => Doing(over, i)
  BY <1>1, <1>7, WithUp DEF over
<1>12. Kept(g.queue, g.queue)
  BY <1>1, KeptSame DEF GameInv
<1>13. CASE u.resting = 0
  <2>1. r.game = over
    BY <1>4, <1>13, ResultIs
  <2> QED
    BY <1>6, <1>7, <1>11, <1>12, <1>13, <2>1
<1>14. CASE u.resting = Special
  <2>1. r.game = forever
    BY <1>4, <1>14, Numbers, ResultIs
  <2>2. /\ GameInv(again) /\ Kept(again.queue, g.queue) /\ again.up = v
        /\ again.history = g.history
        /\ again.queue = Argument(cmdq_push_copy(g.queue, Command("CMD_REST", 0, 0)), turns)
        /\ \A i \in Slots : Doing(g, i) => Doing(again, i)
    BY <1>5, <1>10, PushWithGame DEF again, Codes
  <2>3. /\ z \in Ups /\ z.running = v.running /\ z.steps = v.steps
        /\ z.resting = v.resting /\ z.restDisturb = v.restDisturb
    <3>1. 0 \in 0 .. MaxRest
      BY Numbers
    <3> QED
      BY <1>9, <2>2, <3>1, CountFields
  <2> HIDE DEF z
  <2>4. /\ GameInv(forever) /\ forever.queue = again.queue /\ forever.up = z
        /\ forever.history = g.history
        /\ \A i \in Slots : Doing(g, i) => Doing(forever, i)
    BY <2>2, <2>3, WithUp DEF forever
  <2>5. ~w.restDisturb
    BY <1>7, <1>14, Numbers
  <2>6. z.resting # 0 /\ z.running = g.up.running /\ z.steps = g.up.steps /\ ~z.restDisturb
    BY <1>6, <1>7, <1>8, <1>9, <1>14, <2>3
  <2>7. \E a \in Special .. MaxRest : forever.queue =
            Argument(cmdq_push_copy(g.queue, Command("CMD_REST", 0, 0)), a)
    BY <1>5, <2>2, <2>4
  <2> QED
    BY <1>6, <2>1, <2>2, <2>4, <2>5, <2>6, <2>7
<1>15. CASE u.resting > 1
  <2>1. r.game = once
    BY <1>4, <1>15, Numbers, ResultIs
  <2>2. ~w.restDisturb /\ turns - 1 \in Special .. MaxRest
    BY <1>5, <1>7, <1>15, Numbers
  <2>3. /\ GameInv(once) /\ Kept(once.queue, g.queue) /\ once.up = v
        /\ once.history = g.history
        /\ once.queue = Argument(cmdq_push_copy(g.queue, Command("CMD_REST", 0, 0)), turns - 1)
        /\ \A i \in Slots : Doing(g, i) => Doing(once, i)
    BY <1>10, <2>2, PushWithGame DEF once, Codes
  <2>4. \E a \in Special .. MaxRest : once.queue =
            Argument(cmdq_push_copy(g.queue, Command("CMD_REST", 0, 0)), a)
    BY <2>2, <2>3
  <2> QED
    BY <1>6, <1>7, <1>8, <1>9, <1>15, <2>1, <2>2, <2>3, <2>4
<1>16. CASE u.resting # 0 /\ u.resting # Special /\ ~(u.resting > 1)
  <2>1. r.game = rested
    BY <1>4, <1>16, ResultIs
  <2>2. less = 0
    <3>1. u.resting \in Special .. MaxRest
      BY <1>7, UpTypes
    <3> QED
      BY <1>16, <3>1, Numbers DEF less
  <2> QED
    BY <1>6, <1>7, <1>9, <1>10, <1>12, <2>1, <2>2
<1> QED
  BY <1>13, <1>14, <1>15, <1>16

LEMMA RestDoes ==
    ASSUME NEW i \in Slots, NEW g, Doing(g, i), NEW n \in Special .. MaxRest
    PROVE  AllDo(Rest(g, n), i)
<1>1. GameInv(g) /\ LastAside(g.queue)
  BY DEF Doing
<1> QED
  BY <1>1, RestParts DEF AllDo

\* Every command keeps what holds while one is carried out.
LEMMA DoesDo ==
    ASSUME NEW i \in Slots, NEW g, Doing(g, i), NEW c \in Commands, c.code \in Codes
    PROVE  AllDo(Does(g, c), i)
<1>1. AllDo({Free(g), Turn(g)}, i) /\ AllDo({Turn(g)}, i)
  BY ResultIs DEF AllDo
<1>2. c.arg \in Special .. MaxRest
  BY CommandTypes
<1>3. CASE c.code = "CMD_WALK"
  BY <1>3, WalkDoes DEF Does
<1>4. CASE c.code = "CMD_RUN"
  BY <1>4, RunDoes DEF Does
<1>5. CASE c.code = "CMD_TUNNEL"
  BY <1>5, WalkDoes DEF Does
<1>6. CASE c.code = "CMD_PATHFIND"
  BY <1>6, PathfindDoes DEF Does
<1>7. CASE c.code = "CMD_REST"
  BY <1>2, <1>7, RestDoes DEF Does
<1>8. CASE c.code = "CMD_AUTOPICKUP"
  BY <1>1, <1>8 DEF Does
<1>9. CASE c.code = "CMD_SLEEP"
  BY <1>1, <1>9 DEF Does
<1> QED
  BY <1>3, <1>4, <1>5, <1>6, <1>7, <1>8, <1>9 DEF Codes

-----------------------------------------------------------------------------
(* Keys, in the game as a value.                                           *)

LEMMA WithKeys ==
    ASSUME NEW g, GameInv(g), NEW b, NEW t, NEW h \in Histories, KeysInv(b, t),
           h.last = g.history.last
    PROVE  LET m == GameOf(b, t, g.queue, g.up, h)
           IN  /\ GameInv(m) /\ m.board = b /\ m.term = t /\ m.queue = g.queue /\ m.up = g.up
               /\ m.history = h
<1> DEFINE m == GameOf(b, t, g.queue, g.up, h)
<1>1. g.queue \in Queues /\ g.up \in Ups
  BY GameParts, Zenon DEF GameInv
<1>2. b \in Boards /\ t \in Terms
  BY Zenon DEF KeysInv, BoardInv, BoardOK
<1>3. /\ m \in Games /\ m.board = b /\ m.term = t /\ m.queue = g.queue /\ m.up = g.up
      /\ m.history = h
  BY <1>1, <1>2, GameTypes
<1> HIDE DEF m
<1>4. GameInv(m)
  BY <1>3, Zenon DEF GameInv
<1> QED
  BY <1>3, <1>4 DEF m

\* The keys that a poll brings come behind those that wait.
LEMMA JoinedKeys ==
    ASSUME NEW s \in Seq(Events), NEW r \in Seq(Events)
    PROVE  /\ s \o r \in Seq(Events)
           /\ Handed(s) /\ Handed(r) => Handed(s \o r)
           /\ Young(s) /\ Young(r) => Young(s \o r)
<1>1. /\ s \o r \in Seq(Events) /\ Len(s) \in Nat /\ Len(r) \in Nat
      /\ DOMAIN s = 1 .. Len(s) /\ DOMAIN r = 1 .. Len(r)
      /\ DOMAIN (s \o r) = 1 .. Len(s) + Len(r)
  OBVIOUS
<1>2. ASSUME NEW i \in DOMAIN (s \o r)
      PROVE  \/ i \in DOMAIN s /\ (s \o r)[i] = s[i]
             \/ i - Len(s) \in DOMAIN r /\ (s \o r)[i] = r[i - Len(s)]
  <2>1. i \in 1 .. Len(s) + Len(r)
    BY <1>1, <1>2
  <2>2. CASE i <= Len(s)
    BY <1>1, <2>1, <2>2
  <2>3. CASE i > Len(s)
    BY <1>1, <2>1, <2>3
  <2> QED
    BY <1>1, <2>1, <2>2, <2>3
<1>3. ASSUME Handed(s), Handed(r) PROVE Handed(s \o r)
  BY <1>2, <1>3, Zenon DEF Handed
<1>4. ASSUME Young(s), Young(r) PROVE Young(s \o r)
  BY <1>2, <1>4, Zenon DEF Young
<1> QED
  BY <1>1, <1>3, <1>4

LEMMA FewerKeys ==
    ASSUME NEW s \in Seq(Events), s # <<>>
    PROVE  /\ Tail(s) \in Seq(Events)
           /\ Handed(s) => Handed(Tail(s))
           /\ Young(s) => Young(Tail(s)) /\ ~Head(s).old
<1>1. /\ Tail(s) \in Seq(Events) /\ Len(s) \in Nat /\ Len(s) > 0 /\ Head(s) = s[1]
      /\ DOMAIN s = 1 .. Len(s) /\ DOMAIN Tail(s) = 1 .. Len(s) - 1
  OBVIOUS
<1>2. ASSUME NEW i \in DOMAIN Tail(s) PROVE i + 1 \in DOMAIN s /\ Tail(s)[i] = s[i + 1]
  BY <1>1, <1>2
<1>3. 1 \in DOMAIN s
  BY <1>1
<1>4. ASSUME Handed(s) PROVE Handed(Tail(s))
  BY <1>2, <1>4, Zenon DEF Handed
<1>5. ASSUME Young(s) PROVE Young(Tail(s)) /\ ~Head(s).old
  BY <1>1, <1>2, <1>3, <1>5, Zenon DEF Young
<1> QED
  BY <1>1, <1>4, <1>5

LEMMA KeyTypes ==
    ASSUME NEW t \in Terms, NEW keys \in Seq(Events), NEW x \in BOOLEAN
    PROVE  /\ t.keys \in Seq(Events) /\ t.inkey_xtra \in BOOLEAN
           /\ [keys |-> keys, inkey_xtra |-> x] \in Terms
           /\ [t EXCEPT !.keys = keys] = [keys |-> keys, inkey_xtra |-> t.inkey_xtra]
  BY DEF Terms

\* A poll that brings keys.
LEMMA CheckParts ==
    ASSUME NEW g, GameInv(g), NEW b \in {keyboard_poll(g.board)} \cup PollsThatFail(g.board)
    PROVE  LET m == check_events(g, b)
           IN  /\ GameInv(m) /\ m.queue = g.queue /\ m.up = g.up /\ m.history = g.history
               /\ m.term.keys = g.term.keys \o b.queue
               /\ m.term.inkey_xtra = g.term.inkey_xtra
<1> DEFINE d == Drained(b)
           keys == g.term.keys \o b.queue
           t == [g.term EXCEPT !.keys = keys]
           m1 == [g EXCEPT !.board = d]
           m == [m1 EXCEPT !.term = t]
<1>1. /\ g \in Games /\ KeysInv(g.board, g.term) /\ BoardInv(g.board)
      /\ g.term \in Terms /\ g.history \in Histories /\ Handed(g.term.keys)
  BY GameParts, Zenon DEF GameInv, KeysInv
<1>2. BoardInv(b) /\ (Fresh(g.board) => Fresh(b))
  BY <1>1, PollsKeep
<1>3. BoardInv(d) /\ (Fresh(b) => Fresh(d))
  BY <1>2, DrainedKeeps
<1>4. b.queue \in Seq(Events) /\ Handed(b.queue)
  BY <1>2, BoardTypes DEF BoardInv
<1>5. Fresh(b) => Young(b.queue)
  BY Zenon DEF Fresh, Young
<1>6. g.term.keys \in Seq(Events) /\ g.term.inkey_xtra \in BOOLEAN
  BY <1>1 DEF Terms
<1>7. /\ keys \in Seq(Events) /\ Handed(keys)
      /\ Young(g.term.keys) /\ Young(b.queue) => Young(keys)
  BY <1>1, <1>4, <1>6, JoinedKeys
<1>8. check_events(g, b) = m
  BY Zenon DEF check_events
<1> HIDE DEF d, keys
<1>9. t \in Terms /\ t.keys = keys /\ t.inkey_xtra = g.term.inkey_xtra
  BY <1>1, <1>7 DEF Terms
<1> HIDE DEF t
<1>10. KeysInv(d, t)
  BY <1>1, <1>2, <1>3, <1>5, <1>7, <1>9, Zenon DEF KeysInv
<1>11. m1 = GameOf(d, g.term, g.queue, g.up, g.history)
  BY <1>1 DEF Games, GameOf
<1> HIDE DEF m1
<1>12. m = GameOf(d, t, g.queue, g.up, g.history)
  BY <1>11 DEF GameOf
<1> HIDE DEF m
<1>13. GameInv(m) /\ m.term = t /\ m.queue = g.queue /\ m.up = g.up /\ m.history = g.history
  BY <1>1, <1>10, <1>12, WithKeys
<1> QED
  BY <1>8, <1>9, <1>13 DEF keys

\* A key is taken.
LEMMA TakeKey ==
    ASSUME NEW g, GameInv(g), g.term.keys # <<>>
    PROVE  LET m == [g EXCEPT !.term.keys = Tail(@)]
           IN  GameInv(m) /\ m.queue = g.queue /\ m.up = g.up /\ m.history = g.history
<1> DEFINE keys == Tail(g.term.keys)
           t == [g.term EXCEPT !.keys = keys]
           m == [g EXCEPT !.term = t]
<1>1. /\ g \in Games /\ KeysInv(g.board, g.term)
      /\ g.term \in Terms /\ g.history \in Histories /\ Handed(g.term.keys)
  BY GameParts, Zenon DEF GameInv, KeysInv
<1>2. g.term.keys \in Seq(Events) /\ g.term.inkey_xtra \in BOOLEAN
  BY <1>1 DEF Terms
<1>3. keys \in Seq(Events) /\ Handed(keys) /\ (Young(g.term.keys) => Young(keys))
  BY <1>1, <1>2, FewerKeys
<1>4. [g EXCEPT !.term.keys = Tail(@)] = m
  BY Zenon
<1> HIDE DEF keys
<1>5. t \in Terms /\ t.keys = keys /\ t.inkey_xtra = g.term.inkey_xtra
  BY <1>1, <1>3 DEF Terms
<1> HIDE DEF t
<1>6. KeysInv(g.board, t)
  BY <1>1, <1>3, <1>5, Zenon DEF KeysInv
<1>7. m = GameOf(g.board, t, g.queue, g.up, g.history)
  BY <1>1 DEF Games, GameOf
<1> HIDE DEF m
<1>8. GameInv(m) /\ m.queue = g.queue /\ m.up = g.up /\ m.history = g.history
  BY <1>1, <1>6, <1>7, WithKeys
<1> QED
  BY <1>4, <1>8

\* The delayed flush leaves nothing that it could have reached.
LEMMA FlushKeys ==
    ASSUME NEW g, GameInv(g), NEW b \in {keyboard_poll(g.board)} \cup PollsThatFail(g.board)
    PROVE  LET m == Term_flush(g, b)
           IN  GameInv(m) /\ m.queue = g.queue /\ m.up = g.up /\ m.history = g.history
<1> DEFINE d == FlushedBoard(g, b)
           t == [keys |-> <<>>, inkey_xtra |-> FALSE]
           m1 == [g EXCEPT !.board = d]
           m == [m1 EXCEPT !.term = t]
<1>1. /\ g \in Games /\ KeysInv(g.board, g.term) /\ BoardInv(g.board)
      /\ g.history \in Histories
  BY GameParts, Zenon DEF GameInv, KeysInv
<1>2. BoardInv(b)
  BY <1>1, PollsKeep
<1>3. BoardInv(Drained(b)) /\ Drained(b).queue = <<>> /\ Drained(b).fifo = b.fifo
  BY <1>2, DrainedKeeps
<1>4. BoardInv(d) /\ Fresh(d)
  <2>1. CASE Waiting(g.board) <= KbdQueueSize /\ b = keyboard_poll(g.board)
    <3>1. DOMAIN b.fifo = {}
      BY <1>1, <2>1, AllRead
    <3>2. d = Drained(b)
      BY <2>1 DEF FlushedBoard
    <3>3. DOMAIN Drained(b).queue = {}
      BY <1>3
    <3> QED
      BY <1>3, <3>1, <3>2, <3>3 DEF Fresh
  <2>2. CASE ~(Waiting(g.board) <= KbdQueueSize /\ b = keyboard_poll(g.board))
    <3>1. d = PassedOver(Drained(b))
      BY <2>2 DEF FlushedBoard
    <3> QED
      BY <1>3, <3>1, PassedOverKeeps
  <2> QED
    BY <2>1, <2>2
<1>5. t \in Terms /\ t.keys = <<>> /\ ~t.inkey_xtra /\ Handed(t.keys) /\ Young(t.keys)
  BY DEF Terms, Handed, Young
<1>6. Term_flush(g, b) = m
  BY Zenon DEF Term_flush
<1> HIDE DEF d, t
<1>7. KeysInv(d, t)
  BY <1>4, <1>5, Zenon DEF KeysInv
<1>8. m1 = GameOf(d, g.term, g.queue, g.up, g.history)
  BY <1>1 DEF Games, GameOf
<1> HIDE DEF m1
<1>9. m = GameOf(d, t, g.queue, g.up, g.history)
  BY <1>8 DEF GameOf
<1> HIDE DEF m
<1>10. GameInv(m) /\ m.queue = g.queue /\ m.up = g.up /\ m.history = g.history
  BY <1>1, <1>7, <1>9, WithKeys
<1> QED
  BY <1>6, <1>10

-----------------------------------------------------------------------------
(* The invariant of the specification.                                     *)

\* At the prompt nothing is left to be carried out; what is asked for by CMD_REPEAT
\* can wait in the slot of the last command, and nothing else can.
Inv ==
    /\ GameInv(Game)
    /\ LastFirst(queue)
    /\ pc \in {"turn", "pop", "prompt", "world"}
    /\ pc = "prompt" => ~Pending(queue)

LEMMA GameFields ==
    /\ Game = GameOf(board, term, queue, up, history)
    /\ Game.board = board /\ Game.term = term /\ Game.queue = queue
    /\ Game.up = up /\ Game.history = history
  BY DEF Game, GameOf

LEMMA BecomesGame ==
    ASSUME NEW g, GameInv(g), Becomes(g)
    PROVE  /\ Game' = g /\ GameInv(Game)' /\ queue' = g.queue /\ board' = g.board
           /\ term' = g.term /\ up' = g.up /\ history' = g.history
<1>1. g = GameOf(g.board, g.term, g.queue, g.up, g.history)
  BY GameParts, Zenon DEF GameInv
<1>2. /\ queue' = g.queue /\ board' = g.board /\ term' = g.term /\ up' = g.up
      /\ history' = g.history
  BY Zenon DEF Becomes
<1>3. Game' = GameOf(board', term', queue', up', history')
  BY DEF Game, GameOf
<1>4. Game' = g
  BY <1>1, <1>2, <1>3, Zenon
<1>5. GameInv(Game)'
  <2>1. GameInv(Game') <=> GameInv(Game)'
    BY DEF GameInv
  <2> QED
    BY <1>4, <2>1
<1> QED
  BY <1>2, <1>4, <1>5

LEMMA SameGame ==
    ASSUME Inv, UNCHANGED <<board, term, queue, up, history>>, pc' \in {"turn", "pop", "world"}
           \/ pc' = pc
    PROVE  Inv'
<1>1. Game' = Game /\ queue' = queue
  BY DEF Game
<1>2. GameInv(Game') <=> GameInv(Game)'
  BY DEF GameInv
<1>3. LastFirst(queue') <=> LastFirst(queue)'
  BY DEF LastFirst
<1> QED
  BY <1>1, <1>2, <1>3, Zenon DEF Inv

\* A step to a game that holds, with the queue as it was or not at the prompt.
LEMMA StepTo ==
    ASSUME Inv, NEW g, GameInv(g), Becomes(g), LastFirst(g.queue),
           pc' \in {"turn", "pop", "world"} \/ (pc' = pc /\ (pc = "prompt" => g.queue = queue))
    PROVE  Inv'
<1>1. GameInv(Game)' /\ queue' = g.queue
  BY BecomesGame
<1>2. LastFirst(queue)'
  <2>1. LastFirst(queue)' <=> LastFirst(queue')
    BY DEF LastFirst
  <2> QED
    BY <1>1, <2>1
<1>3. (pc = "prompt" => ~Pending(queue))'
  BY <1>1, Zenon DEF Inv
<1>4. (pc \in {"turn", "pop", "prompt", "world"})'
  BY Zenon DEF Inv
<1> QED
  BY <1>1, <1>2, <1>3, <1>4, Zenon DEF Inv

LEMMA InitInv == Init => Inv
<1> SUFFICES ASSUME Init PROVE Inv
  OBVIOUS
<1>1. /\ board = NoKeys /\ term = [keys |-> <<>>, inkey_xtra |-> FALSE] /\ queue = EmptyQueue
      /\ up = Idle /\ pc = "prompt" /\ history = NoHistory
  BY Zenon DEF Init
<1>2. BoardInv(NoKeys) /\ Fresh(NoKeys) /\ NoKeys \in Boards
  BY NoKeysInv DEF Fresh, NoKeys, BoardInv, BoardOK
<1>3. /\ term \in Terms /\ Handed(term.keys) /\ Young(term.keys)
  BY <1>1 DEF Terms, Handed, Young
<1>4. KeysInv(board, term)
  BY <1>1, <1>2, <1>3 DEF KeysInv
<1>5. QueueInv(EmptyQueue) /\ LastAside(EmptyQueue) /\ LastCommand(EmptyQueue).code = CMD_NULL
  BY EmptyQueueInv
<1>6. Idle \in Ups
  <2>1. 0 \in 0 .. Larger(MaxRun, MostRepeats) /\ 0 \in Special .. MaxRest
        /\ 0 \in 0 .. MaxRest /\ 0 \in 0 .. MaxSleep
    BY Numbers
  <2> QED
    BY <2>1 DEF Idle, Ups
<1>7. NoHistory \in Histories
  <2>1. <<CMD_NULL, 0>> \in Meanings
    BY Numbers DEF Meanings
  <2> QED
    BY <2>1 DEF NoHistory, Histories
<1>8. GameInv(Game)
  <2>1. Game \in Games
    BY <1>1, <1>2, <1>3, <1>5, <1>6, <1>7, GameTypes, GameFields DEF QueueInv
  <2>2. LastMeans(queue, history.last)
    BY <1>1, <1>5, Zenon DEF LastMeans
  <2> QED
    BY <1>1, <1>4, <1>5, <2>1, <2>2, GameFields, Zenon DEF GameInv
<1>9. LastFirst(queue)
  BY <1>1, <1>5, Zenon DEF LastFirst, LastAside
<1>10. ~Pending(queue)
  BY <1>1 DEF Pending, EmptyQueue
<1> QED
  BY <1>1, <1>8, <1>9, <1>10, Zenon DEF Inv

LEMMA Parts ==
    ASSUME Inv
    PROVE  /\ GameInv(Game) /\ QueueInv(queue) /\ LastFirst(queue) /\ BoardInv(board)
           /\ KeysInv(board, term) /\ term \in Terms /\ up \in Ups
           /\ history \in Histories /\ LastMeans(queue, history.last) /\ queue \in Queues
<1>1. GameInv(Game) /\ LastFirst(queue)
  BY Zenon DEF Inv
<1>2. Game \in Games
  BY <1>1, Zenon DEF GameInv
<1>3. term \in Terms /\ up \in Ups /\ history \in Histories /\ queue \in Queues
  BY <1>2, GameParts, GameFields
<1> QED
  BY <1>1, <1>3, GameFields, Zenon DEF GameInv, KeysInv

LEMMA FingersInv == ASSUME Inv, Fingers PROVE Inv'
<1>1. PICK k \in Keys : board' = Press(board, k) \/ board' = Release(board, k)
  BY Zenon DEF Fingers
<1>2. UNCHANGED <<term, queue, up, pc, history>>
  BY Zenon DEF Fingers
<1>3. BoardInv(board') /\ (Fresh(board) => Fresh(board'))
  BY <1>1, Parts, FingersKeep
<1> DEFINE g == GameOf(board', term, queue, up, history)
<1>4. KeysInv(board', term)
  BY <1>3, Parts, Zenon DEF KeysInv
<1>5. GameInv(g) /\ g.queue = queue /\ g.term = term /\ g.up = up /\ g.history = history
      /\ g.board = board'
  BY <1>4, Parts, WithKeys, GameFields
<1> HIDE DEF g
<1>6. Becomes(g)
  BY <1>2, <1>5, Zenon DEF Becomes
<1> QED
  BY <1>2, <1>5, <1>6, Parts, StepTo

LEMMA FlushInputInv == ASSUME Inv, FlushInput PROVE Inv'
<1>1. PICK b \in AfterPoll : Becomes(Term_flush(Game, b))
  BY Zenon DEF FlushInput
<1>2. pc' = pc
  BY Zenon DEF FlushInput
<1>3. GameInv(Term_flush(Game, b)) /\ Term_flush(Game, b).queue = queue
  BY <1>1, Parts, FlushKeys, GameFields DEF AfterPoll
<1> QED
  BY <1>1, <1>2, <1>3, Parts, StepTo

LEMMA AskInv == ASSUME Inv, Ask PROVE Inv'
<1>1. PICK b \in AfterPoll : Becomes(check_events(Game, b))
  BY Zenon DEF Ask
<1>2. pc' = pc
  BY Zenon DEF Ask
<1>3. GameInv(check_events(Game, b)) /\ check_events(Game, b).queue = queue
  BY <1>1, Parts, CheckParts, GameFields DEF AfterPoll
<1> QED
  BY <1>1, <1>2, <1>3, Parts, StepTo

\* A disturbance keeps what holds.
LEMMA DisturbedGame ==
    ASSUME NEW g, GameInv(g), LastFirst(g.queue)
    PROVE  GameInv(Disturb(g)) /\ LastFirst(Disturb(g).queue)
<1>1. GameInv(Disturb(g)) /\ Stops(Disturb(g).queue, g.queue)
  BY DisturbParts
<1> QED
  BY <1>1, Zenon DEF Stops, Kept

LEMMA RestCompleteInv == ASSUME Inv, RestComplete PROVE Inv'
<1>1. Becomes(Disturb(Game)) /\ pc = "turn" /\ pc' = pc
  BY Zenon DEF RestComplete
<1>2. GameInv(Disturb(Game)) /\ LastFirst(Disturb(Game).queue)
  BY Parts, DisturbedGame, GameFields
<1> QED
  BY <1>1, <1>2, StepTo

LEMMA InterruptInv == ASSUME Inv, Interrupt PROVE Inv'
<1>1. PICK b \in AfterPoll :
          LET g == check_events(Game, b)
          IN  Becomes(IF g.term.keys = <<>> THEN g
                      ELSE Disturb([g EXCEPT !.term.keys = Tail(@)]))
  BY Zenon DEF Interrupt
<1> DEFINE g == check_events(Game, b)
           t == [g EXCEPT !.term.keys = Tail(@)]
<1>2. pc' = "pop"
  BY Zenon DEF Interrupt
<1>3. GameInv(g) /\ g.queue = queue
  BY <1>1, Parts, CheckParts, GameFields DEF AfterPoll
<1>4. CASE g.term.keys = <<>>
  BY <1>1, <1>2, <1>3, <1>4, Parts, StepTo
<1>5. CASE g.term.keys # <<>>
  <2>1. GameInv(t) /\ t.queue = g.queue
    BY <1>3, <1>5, TakeKey
  <2>2. GameInv(Disturb(t)) /\ LastFirst(Disturb(t).queue)
    BY <1>3, <2>1, Parts, DisturbedGame
  <2>3. Becomes(Disturb(t))
    BY <1>1, <1>5
  <2> QED
    BY <1>2, <2>2, <2>3, StepTo
<1> QED
  BY <1>4, <1>5

LEMMA WorldInv == ASSUME Inv, Monster \/ Time PROVE Inv'
<1>1. /\ GameInv(Game) /\ Game.queue = queue /\ LastFirst(queue)
      /\ GameInv(Disturb(Game)) /\ LastFirst(Disturb(Game).queue)
  BY Parts, DisturbedGame, GameFields
<1>2. CASE Monster
  <2>1. pc = "world" /\ pc' = pc
    BY <1>2, Zenon DEF Monster
  <2>2. CASE Becomes(Disturb(Game))
    BY <1>1, <2>1, <2>2, StepTo
  <2>3. CASE Becomes(Flush(Disturb(Game)))
    <3>1. GameInv(Flush(Disturb(Game))) /\ LastAside(Flush(Disturb(Game)).queue)
      BY <1>1, FlushGame
    <3>2. LastFirst(Flush(Disturb(Game)).queue)
      BY <3>1, Zenon DEF LastFirst, LastAside
    <3> QED
      BY <2>1, <2>3, <3>1, <3>2, StepTo
  <2>4. CASE Becomes(Paralyze(Game))
    <3>1. GameInv(Paralyze(Game)) /\ Paralyze(Game).queue = Disturb(Game).queue
      BY <1>1, ParalyzeGame
    <3> QED
      BY <1>1, <2>1, <2>4, <3>1, StepTo
  <2> QED
    BY <1>2, <2>2, <2>3, <2>4 DEF Monster
<1>3. CASE Time
  <2>1. pc' = "turn"
    BY <1>3, Zenon DEF Time
  <2>2. CASE UNCHANGED <<board, term, queue, up, history>>
    BY <2>1, <2>2, SameGame
  <2> DEFINE p == up.paralyzed - 1
             u == [up EXCEPT !.paralyzed = p]
             g == [Game EXCEPT !.up = u]
  <2>3. CASE up.paralyzed > 0 /\ Becomes(IF g.up.paralyzed = 0 THEN Disturb(g) ELSE g)
    <3>1. up \in Ups /\ p \in 0 .. MaxSleep
      <4>1. up \in Ups /\ up.paralyzed \in 0 .. MaxSleep
        BY Parts, UpTypes
      <4> QED
        BY <2>3, <4>1, Numbers
    <3> HIDE DEF p
    <3>2. u \in Ups
      BY <3>1 DEF Ups
    <3> HIDE DEF u
    <3>3. GameInv(g) /\ g.queue = queue
      BY <1>1, <3>2, WithUp
    <3> HIDE DEF g
    <3>4. GameInv(Disturb(g)) /\ LastFirst(Disturb(g).queue)
      BY <1>1, <3>3, DisturbedGame
    <3> QED
      BY <1>1, <2>1, <2>3, <3>3, <3>4, StepTo
  <2>4. g = [Game EXCEPT !.up.paralyzed = @ - 1]
    BY GameFields, Zenon
  <2> HIDE DEF p, u, g
  <2>5. \/ UNCHANGED <<board, term, queue, up, history>>
        \/ up.paralyzed > 0 /\ Becomes(IF g.up.paralyzed = 0 THEN Disturb(g) ELSE g)
    BY <1>3, <2>4, Zenon DEF Time
  <2> QED
    BY <2>2, <2>3, <2>5
<1> QED
  BY <1>2, <1>3

LEMMA NoCheckInv == ASSUME Inv, NoCheck PROVE Inv'
  BY SameGame, Zenon DEF NoCheck

-----------------------------------------------------------------------------
(* A command is given.                                                     *)

LEMMA PlayerCommandTypes ==
    ASSUME NEW c \in PlayerCommands PROVE c \in Commands /\ c.code \in Codes
<1>1. /\ 0 \in 0 .. MostRepeats /\ MaxCount \in 0 .. MostRepeats /\ 0 \in Special .. MaxRest
      /\ 1 \in Special .. MaxRest /\ Special \in Special .. MaxRest
      /\ MaxRest \in Special .. MaxRest
  BY Numbers
<1>2. /\ "CMD_WALK" \in Codes /\ "CMD_RUN" \in Codes /\ "CMD_TUNNEL" \in Codes
      /\ "CMD_PATHFIND" \in Codes /\ "CMD_REST" \in Codes
  BY DEF Codes
<1>3. CASE \E code \in {"CMD_WALK", "CMD_RUN"}, n \in {0, MaxCount} : c = Command(code, n, 1)
  <2>1. PICK code \in {"CMD_WALK", "CMD_RUN"}, n \in {0, MaxCount} : c = Command(code, n, 1)
    BY <1>3
  <2>2. code \in Codes /\ n \in 0 .. MostRepeats
    BY <1>1, <1>2
  <2> QED
    BY <1>1, <2>1, <2>2, CommandTypes
<1>4. CASE c \in {Command("CMD_TUNNEL", 0, 0), Command("CMD_PATHFIND", 0, 0)}
  BY <1>1, <1>2, <1>4, CommandTypes
<1>5. CASE \E n \in {Special, MaxRest} : c = Command("CMD_REST", 0, n)
  <2>1. PICK n \in {Special, MaxRest} : c = Command("CMD_REST", 0, n)
    BY <1>5
  <2>2. n \in Special .. MaxRest
    BY <1>1
  <2> QED
    BY <1>1, <1>2, <2>1, <2>2, CommandTypes
<1> QED
  BY <1>3, <1>4, <1>5 DEF PlayerCommands

\* Into a queue from which all is gone.
LEMMA FirstCommand ==
    ASSUME NEW q, QueueInv(q), ~Pending(q), NEW c \in Commands, c.code \in Codes
    PROVE  LET r == cmdq_push_copy(q, c)
           IN  /\ QueueInv(r) /\ SameLast(r, q) /\ LastAside(r) /\ LastFirst(r)
               /\ r.slot = [q.slot EXCEPT ![q.head] = c] /\ Held(r) = {q.head}
               /\ ~r.repeating /\ r.head # r.tail
<1> DEFINE r == cmdq_push_copy(q, c)
<1>1. q \in Queues /\ q.head = q.tail /\ ~q.repeating /\ Pointers(q) /\ q.head \in Slots
  BY QueueTypes, Zenon DEF QueueInv, Pending
<1>2. ~Full(q) /\ Held(q) = {}
  BY <1>1, HeldSlots
<1>3. /\ r \in Queues /\ r.slot = [q.slot EXCEPT ![q.head] = c]
      /\ (r.repeating <=> q.repeating)
      /\ LastCommand(r) = LastCommand(q)
      /\ Held(r) = Held(q) \cup {q.head}
      /\ r.last = (IF q.last = q.head THEN -1 ELSE q.last)
      /\ r.head # r.tail
  BY <1>1, <1>2, PushParts
<1> HIDE DEF r
<1>4. c.code # CMD_NULL
  BY DEF Codes, CMD_NULL
<1>5. q.slot \in [Slots -> Commands]
  BY <1>1, QueueTypes
<1>6. Proper(r)
  <2>1. r.slot[q.head] = c /\ \A i \in Slots \ {q.head} : r.slot[i] = q.slot[i]
    BY <1>1, <1>3, <1>5
  <2> QED
    BY <1>3, <1>4, <2>1, ProperAfterPut
<1>7. r.last >= 0 => q.last >= 0
  BY <1>3
<1>8. QueueInv(r)
  BY <1>1, <1>3, <1>6, <1>7, Zenon DEF QueueInv
<1>9. LastAside(r)
  <2>1. -1 # q.head
    BY <1>1, Neighbours
  <2> QED
    BY <1>2, <1>3, <2>1 DEF LastAside
<1>10. SameLast(r, q)
  BY <1>3, Zenon DEF SameLast
<1> QED
  BY <1>1, <1>2, <1>3, <1>8, <1>9, <1>10, Zenon DEF LastFirst, LastAside, r

\* What a command that is given leads to.
Given(q) == [Game EXCEPT !.term.keys = Tail(@), !.queue = q,
                         !.history.cut = FALSE, !.history.behind = FALSE,
                         !.history.given = Pending(q),
                         !.history.twice = @ /\ up.running > 0]

LEMMA GivenParts ==
    ASSUME Inv, term.keys # <<>>, NEW q, QueueInv(q), LastMeans(q, history.last),
           Pending(q) \in BOOLEAN
    PROVE  /\ GameInv(Given(q)) /\ Given(q).queue = q /\ Given(q).up = up
           /\ LET h == Given(q).history
              IN  /\ ~h.cut /\ ~h.behind /\ (h.given <=> Pending(q))
                  /\ h.twice <=> history.twice /\ up.running > 0
                  /\ h.stuck = history.stuck /\ h.last = history.last
<1> DEFINE keys == Tail(term.keys)
           t == [term EXCEPT !.keys = keys]
           w == Pending(q)
           z == history.twice /\ up.running > 0
           h1 == [history EXCEPT !.cut = FALSE]
           h2 == [h1 EXCEPT !.behind = FALSE]
           h3 == [h2 EXCEPT !.given = w]
           h == [h3 EXCEPT !.twice = z]
           m1 == [Game EXCEPT !.term = t]
           m2 == [m1 EXCEPT !.queue = q]
           m == [m2 EXCEPT !.history = h]
<1>1. /\ term \in Terms /\ history \in Histories /\ KeysInv(board, term)
      /\ Handed(term.keys) /\ up \in Ups /\ board \in Boards
  BY Parts, Zenon DEF KeysInv, BoardInv, BoardOK
<1>2. term.keys \in Seq(Events) /\ term.inkey_xtra \in BOOLEAN
  BY <1>1 DEF Terms
<1>3. keys \in Seq(Events) /\ Handed(keys) /\ (Young(term.keys) => Young(keys))
  BY <1>1, <1>2, FewerKeys
<1>4. Given(q) = m
  BY GameFields, Zenon DEF Given
<1> HIDE DEF keys
<1>5. t \in Terms /\ t.keys = keys /\ t.inkey_xtra = term.inkey_xtra
  BY <1>1, <1>3 DEF Terms
<1> HIDE DEF t
<1>6. KeysInv(board, t)
  BY <1>1, <1>3, <1>5, Zenon DEF KeysInv
<1>7. w \in BOOLEAN /\ z \in BOOLEAN
  BY <1>1, HistoryTypes
<1> HIDE DEF w, z
<1>8. /\ h1 \in Histories /\ ~h1.cut /\ h1.given = history.given /\ h1.twice = history.twice
      /\ h1.stuck = history.stuck /\ h1.last = history.last
  BY <1>1 DEF Histories
<1> HIDE DEF h1
<1>9. /\ h2 \in Histories /\ ~h2.behind /\ (h2.cut <=> h1.cut) /\ h2.twice = h1.twice
      /\ h2.stuck = h1.stuck /\ h2.last = h1.last
  BY <1>8 DEF Histories
<1> HIDE DEF h2
<1>10. /\ h3 \in Histories /\ h3.given = w /\ (h3.cut <=> h2.cut) /\ (h3.behind <=> h2.behind)
       /\ h3.stuck = h2.stuck /\ h3.last = h2.last
  BY <1>7, <1>9 DEF Histories
<1> HIDE DEF h3
<1>11. /\ h \in Histories /\ h.twice = z /\ (h.cut <=> h3.cut) /\ (h.behind <=> h3.behind)
       /\ h.given = h3.given /\ h.stuck = h3.stuck /\ h.last = h3.last
  BY <1>7, <1>10 DEF Histories
<1> HIDE DEF h
<1>12. m1 = GameOf(board, t, queue, up, history)
  BY GameFields DEF GameOf
<1> HIDE DEF m1
<1>13. m2 = GameOf(board, t, q, up, history)
  BY <1>12 DEF GameOf
<1> HIDE DEF m2
<1>14. m = GameOf(board, t, q, up, h)
  BY <1>13 DEF GameOf
<1> HIDE DEF m
<1>15. /\ m \in Games /\ m.board = board /\ m.term = t /\ m.queue = q /\ m.up = up
       /\ m.history = h
  BY <1>1, <1>5, <1>11, <1>14, GameTypes DEF QueueInv
<1>16. h.last = history.last /\ h.stuck = history.stuck
  BY <1>8, <1>9, <1>10, <1>11
<1>17. GameInv(m)
  BY <1>6, <1>15, <1>16, Zenon DEF GameInv
<1>18. /\ ~h.cut /\ ~h.behind /\ (h.given <=> w) /\ (h.twice <=> z)
  BY <1>8, <1>9, <1>10, <1>11
<1> QED
  BY <1>4, <1>15, <1>16, <1>17, <1>18, Zenon DEF w, z

\* The queue after what the player answers.
LEMMA AnswerQueue ==
    ASSUME Inv, pc = "prompt",
           NEW q, \/ \E c \in PlayerCommands : q = cmdq_push_copy(queue, c)
                  \/ q = cmdq_push_again(queue)
    PROVE  QueueInv(q) /\ LastMeans(q, history.last) /\ LastFirst(q)
<1>1. /\ QueueInv(queue) /\ LastMeans(queue, history.last) /\ LastFirst(queue)
      /\ ~Pending(queue)
  BY Parts, Zenon DEF Inv
<1>2. CASE \E c \in PlayerCommands : q = cmdq_push_copy(queue, c)
  <2>1. PICK c \in PlayerCommands : q = cmdq_push_copy(queue, c)
    BY <1>2
  <2>2. c \in Commands /\ c.code \in Codes
    BY PlayerCommandTypes
  <2>3. QueueInv(q) /\ LastFirst(q) /\ SameLast(q, queue)
    BY <1>1, <2>1, <2>2, FirstCommand
  <2> QED
    BY <1>1, <2>3, LastMeansSame
<1>3. CASE q = cmdq_push_again(queue) /\ CanRepeat(queue)
  <2>1. PutsIn(q, queue, LastCommand(queue)) /\ QueueInv(q) /\ LastFirst(q)
    BY <1>1, <1>3, AgainParts
  <2>2. LastCommand(q) = LastCommand(queue)
    BY <2>1, Zenon DEF PutsIn
  <2> QED
    BY <1>1, <2>1, <2>2, Zenon DEF LastMeans
<1>4. CASE q = cmdq_push_again(queue) /\ ~CanRepeat(queue)
  <2>1. q = queue
    BY <1>4 DEF cmdq_push_again
  <2> QED
    BY <1>1, <2>1
<1> QED
  BY <1>2, <1>3, <1>4

LEMMA AnswerInv == ASSUME Inv, Answer PROVE Inv'
<1>1. PICK q : /\ \/ \E c \in PlayerCommands : q = cmdq_push_copy(queue, c)
                  \/ q = cmdq_push_again(queue)
               /\ Becomes(Given(q))
  BY DEF Answer, Given
<1>2. pc = "prompt" /\ term.keys # <<>> /\ pc' = "turn"
  BY Zenon DEF Answer
<1>3. QueueInv(q) /\ LastMeans(q, history.last) /\ LastFirst(q)
  BY <1>1, <1>2, AnswerQueue
<1>4. Pending(q) \in BOOLEAN
  BY <1>3, QueueTypes DEF Pending, QueueInv
<1>5. GameInv(Given(q)) /\ Given(q).queue = q
  BY <1>2, <1>3, <1>4, GivenParts
<1> QED
  BY <1>1, <1>2, <1>3, <1>5, StepTo

-----------------------------------------------------------------------------
(* A command is carried out.                                               *)

LEMMA ReadyParts ==
    ASSUME Inv
    PROVE  /\ GameInv(Ready) /\ LastFirst(Ready.queue) /\ Ready.up = up
           /\ Ready.history = history
           /\ Ready.queue = IF up.paralyzed > 0
                            THEN cmdq_push_copy(queue, Command("CMD_SLEEP", 0, 0)) ELSE queue
           /\ up.paralyzed > 0 => Pending(Ready.queue)
<1>1. GameInv(Game) /\ LastFirst(queue)
  BY Parts
<1>2. CASE up.paralyzed > 0
  <2> DEFINE m == Push(Game, "CMD_SLEEP", 0)
  <2>1. Ready = m
    BY <1>2 DEF Ready
  <2>2. "CMD_SLEEP" \in Codes /\ 0 \in Special .. MaxRest
    BY Numbers DEF Codes
  <2>3. /\ GameInv(m) /\ Kept(m.queue, queue) /\ m.queue.head # m.queue.tail
        /\ m.queue = cmdq_push_copy(queue, Command("CMD_SLEEP", 0, 0))
        /\ m.up = up /\ m.history = history
    BY <1>1, <2>2, PushGame, GameFields
  <2>4. LastFirst(m.queue)
    BY <1>1, <2>3, Zenon DEF Kept
  <2>5. Pending(m.queue)
    BY <2>3, Zenon DEF Pending
  <2> QED
    BY <1>2, <2>1, <2>3, <2>4, <2>5
<1>3. CASE ~(up.paralyzed > 0)
  BY <1>1, <1>3, GameFields DEF Ready
<1> QED
  BY <1>2, <1>3

LEMMA ExhaustedInv == ASSUME Inv, Exhausted PROVE Inv'
<1>1. ~Pending(Ready.queue) /\ pc' = "prompt" /\ UNCHANGED <<board, term, queue, up, history>>
  BY Zenon DEF Exhausted
<1>2. ~Pending(queue)
  BY <1>1, ReadyParts
<1>3. GameInv(Game)' /\ LastFirst(queue)'
  <2>1. Game' = Game /\ queue' = queue
    BY <1>1 DEF Game
  <2>2. GameInv(Game') <=> GameInv(Game)'
    BY DEF GameInv
  <2>3. LastFirst(queue') <=> LastFirst(queue)'
    BY DEF LastFirst
  <2> QED
    BY <2>1, <2>2, <2>3, Parts
<1>4. (pc \in {"turn", "pop", "prompt", "world"})' /\ (pc = "prompt" => ~Pending(queue))'
  BY <1>1, <1>2, Zenon
<1> QED
  BY <1>3, <1>4, Zenon DEF Inv

\* History keeps to its type when a command is begun.
LEMMA BegunParts ==
    ASSUME NEW h \in Histories, NEW c \in Commands
    PROVE  LET k == Begun(h, c)
               anew == c.code = "CMD_PATHFIND" /\ h.behind
           IN  /\ k \in Histories /\ k.stuck = h.stuck
               /\ k.twice = h.twice /\ ~k.given
               /\ k.last = (IF c.background = 0 THEN <<c.code, c.arg>> ELSE h.last)
               /\ (k.behind <=> h.behind /\ ~anew)
               /\ (k.cut <=> h.cut /\ ~anew /\ ~h.given)
<1> DEFINE anew == c.code = "CMD_PATHFIND" /\ h.behind
           last == IF c.background = 0 THEN <<c.code, c.arg>> ELSE h.last
           behind == h.behind /\ ~anew
           cut == h.cut /\ ~anew /\ ~h.given
           h1 == [h EXCEPT !.last = last]
           h2 == [h1 EXCEPT !.behind = behind]
           h3 == [h2 EXCEPT !.given = FALSE]
           k == [h3 EXCEPT !.cut = cut]
<1>1. last \in Meanings
  <2>1. <<c.code, c.arg>> \in Meanings
    BY CommandTypes DEF Meanings
  <2> QED
    BY <2>1, HistoryTypes
<1>2. behind \in BOOLEAN /\ cut \in BOOLEAN
  BY HistoryTypes
<1>3. Begun(h, c) = k
  BY Zenon DEF Begun
<1> HIDE DEF last, behind, cut
<1>4. /\ h1 \in Histories /\ h1.last = last /\ h1.stuck = h.stuck
      /\ h1.twice = h.twice
  BY <1>1 DEF Histories
<1> HIDE DEF h1
<1>5. /\ h2 \in Histories /\ h2.last = h1.last
      /\ h2.stuck = h1.stuck /\ h2.twice = h1.twice /\ h2.behind = behind
  BY <1>2, <1>4 DEF Histories
<1> HIDE DEF h2
<1>6. /\ h3 \in Histories /\ h3.last = h2.last
      /\ h3.stuck = h2.stuck /\ h3.twice = h2.twice /\ h3.behind = h2.behind /\ ~h3.given
  BY <1>5 DEF Histories
<1> HIDE DEF h3
<1>7. /\ k \in Histories /\ k.last = h3.last
      /\ k.stuck = h3.stuck /\ k.twice = h3.twice /\ k.behind = h3.behind
      /\ (k.given <=> h3.given) /\ k.cut = cut
  BY <1>2, <1>6 DEF Histories
<1> HIDE DEF k
<1>8. k.last = last /\ k.stuck = h.stuck /\ k.twice = h.twice
      /\ k.behind = behind /\ ~k.given
  BY <1>4, <1>5, <1>6, <1>7
<1> QED
  BY <1>3, <1>7, <1>8, Zenon DEF last, behind, cut

\* The command that is begun, and its slot.
Began == LET q == Taken(Ready.queue)
         IN  [Ready EXCEPT !.queue = Started(q),
                           !.history = Begun(@, q.slot[Behind(q.tail)])]

LEMMA BeganParts ==
    ASSUME Inv, Pending(Ready.queue)
    PROVE  LET q == Taken(Ready.queue)
               i == Behind(q.tail)
               c == q.slot[i]
           IN  /\ i \in Slots /\ c \in Commands /\ c.code \in Codes /\ Doing(Began, i)
               /\ QueueInv(q) /\ LastAside(q) /\ Began.queue = Started(q) /\ Began.up = up
               /\ Began.history = Begun(history, c)
<1> DEFINE q == Taken(Ready.queue)
           i == Behind(q.tail)
           c == q.slot[i]
           s == Started(q)
           h == Begun(history, c)
           m1 == [Ready EXCEPT !.queue = s]
           m == [m1 EXCEPT !.history = h]
<1>1. GameInv(Ready) /\ LastFirst(Ready.queue) /\ Ready.history = history /\ Ready.up = up
  BY ReadyParts
<1>2. /\ Ready \in Games /\ QueueInv(Ready.queue) /\ LastMeans(Ready.queue, history.last)
      /\ KeysInv(Ready.board, Ready.term)
  BY <1>1, Zenon DEF GameInv
<1>3. /\ QueueInv(q) /\ LastAside(q) /\ Busy(q)
      /\ Current(q).background = 0 => LastCommand(q) = Current(q)
      /\ Current(q).background # 0 => LastCommand(q) = LastCommand(Ready.queue)
  BY <1>1, <1>2, TakenParts
<1>4. q \in Queues /\ i \in Slots /\ c \in Commands /\ c = Current(q)
  <2>1. q \in Queues
    BY <1>3, Zenon DEF QueueInv
  <2> QED
    BY <2>1, QueueTypes DEF Current
<1>5. c.code \in Codes
  BY <1>3, <1>4, CommandTypes, Zenon DEF Busy
<1>6. Began = m
  BY <1>1, Zenon DEF Began
<1>7. Kept(s, q)
  BY <1>3, StartedKeeps
<1>8. history \in Histories
  BY Parts
<1>9. /\ h \in Histories
      /\ h.last = IF c.background = 0 THEN <<c.code, c.arg>> ELSE history.last
  BY <1>4, <1>8, BegunParts
<1>10. LastMeans(s, h.last)
  <2>1. LastMeans(q, h.last)
    <3>1. CASE c.background = 0
      BY <1>3, <1>4, <1>9, <3>1 DEF LastMeans
    <3>2. CASE c.background # 0
      BY <1>2, <1>3, <1>4, <1>9, <3>2 DEF LastMeans
    <3> QED
      BY <3>1, <3>2
  <2> QED
    BY <1>7, <2>1, LastMeansSame DEF Kept
<1>11. Counts(q, i)
  BY Zenon DEF Counts
<1>12. LastAside(s) /\ Busy(s) /\ Counts(s, i) /\ QueueInv(s) /\ s \in Queues
  BY <1>3, <1>4, <1>7, <1>11, Zenon DEF Kept, QueueInv
<1> HIDE DEF s, h, q, i, c
<1>13. m1 = GameOf(Ready.board, Ready.term, s, Ready.up, Ready.history)
  BY <1>2 DEF Games, GameOf
<1> HIDE DEF m1
<1>14. m = GameOf(Ready.board, Ready.term, s, Ready.up, h)
  BY <1>13 DEF GameOf
<1> HIDE DEF m
<1>15. /\ m \in Games /\ m.board = Ready.board /\ m.term = Ready.term /\ m.queue = s
       /\ m.up = Ready.up /\ m.history = h
  BY <1>2, <1>9, <1>12, <1>14, GameParts, GameTypes
<1>16. GameInv(m)
  BY <1>2, <1>9, <1>10, <1>12, <1>15, Zenon DEF GameInv
<1>17. Doing(m, i)
  BY <1>12, <1>15, <1>16, Zenon DEF Doing
<1> QED
  BY <1>1, <1>3, <1>4, <1>5, <1>6, <1>15, <1>17, Zenon DEF s, h, q, i, c

\* What a command that was carried out leaves when it is counted.
LEMMA CountedGame ==
    ASSUME NEW g, NEW i \in Slots, Doing(g, i), NEW n \in 0 .. MostRepeats
    PROVE  LET m == OnQueue(g, Counted(g.queue, i, n))
           IN  /\ GameInv(m) /\ LastAside(m.queue) /\ m.queue = Counted(g.queue, i, n)
               /\ Kept(m.queue, g.queue) /\ m.up = g.up /\ m.history = g.history
<1> DEFINE q == Counted(g.queue, i, n)
<1>1. /\ GameInv(g) /\ LastAside(g.queue) /\ Busy(g.queue) /\ Counts(g.queue, i)
      /\ QueueInv(g.queue)
  BY Zenon DEF Doing, GameInv
<1>2. Kept(q, g.queue)
  BY <1>1, CountedKeeps
<1> HIDE DEF q
<1>3. LastAside(q)
  BY <1>1, <1>2, Zenon DEF Kept
<1> QED
  BY <1>1, <1>2, <1>3, OnQueueParts DEF q

LEMMA PerformInv == ASSUME Inv, Perform PROVE Inv'
<1> DEFINE q == Taken(Ready.queue)
           i == Behind(q.tail)
           c == q.slot[i]
<1>1. /\ Pending(Ready.queue)
      /\ \/ \E r \in Does(Began, c) :
               /\ Becomes(OnQueue(r.game, Counted(r.game.queue, i, c.nrepeats)))
               /\ pc' = IF r.energy THEN "world" ELSE "pop"
         \/ Becomes(Disturb(Began)) /\ pc' = "world"
  BY Zenon DEF Perform, Began
<1>2. i \in Slots /\ c \in Commands /\ c.code \in Codes /\ Doing(Began, i)
  BY <1>1, BeganParts
<1> HIDE DEF q, i, c
<1>3. c.nrepeats \in 0 .. MostRepeats
  BY <1>2, CommandTypes
<1>4. CASE \E r \in Does(Began, c) :
               /\ Becomes(OnQueue(r.game, Counted(r.game.queue, i, c.nrepeats)))
               /\ pc' = IF r.energy THEN "world" ELSE "pop"
  <2>1. PICK r \in Does(Began, c) :
               /\ Becomes(OnQueue(r.game, Counted(r.game.queue, i, c.nrepeats)))
               /\ pc' = IF r.energy THEN "world" ELSE "pop"
    BY <1>4
  <2>2. Doing(r.game, i)
    BY <1>2, DoesDo DEF AllDo
  <2> DEFINE m == OnQueue(r.game, Counted(r.game.queue, i, c.nrepeats))
  <2>3. GameInv(m) /\ LastAside(m.queue)
    BY <1>2, <1>3, <2>2, CountedGame
  <2>4. LastFirst(m.queue)
    BY <2>3, Zenon DEF LastFirst, LastAside
  <2>5. pc' \in {"turn", "pop", "world"}
    BY <2>1
  <2> QED
    BY <2>1, <2>3, <2>4, <2>5, StepTo
<1>5. CASE Becomes(Disturb(Began)) /\ pc' = "world"
  <2>1. GameInv(Began) /\ LastAside(Began.queue)
    BY <1>2, Zenon DEF Doing
  <2>2. LastFirst(Began.queue)
    BY <2>1, Zenon DEF LastFirst, LastAside
  <2>3. GameInv(Disturb(Began)) /\ LastFirst(Disturb(Began).queue)
    BY <2>1, <2>2, DisturbedGame
  <2> QED
    BY <1>5, <2>3, StepTo
<1> QED
  BY <1>1, <1>4, <1>5

LEMMA NextInv == ASSUME Inv, [Next]_vars PROVE Inv'
<1>1. CASE UNCHANGED vars
  BY <1>1, SameGame, Zenon DEF vars
<1>2. CASE Next
  BY <1>2, FingersInv, FlushInputInv, RestCompleteInv, InterruptInv, NoCheckInv, PerformInv,
     ExhaustedInv, AskInv, AnswerInv, WorldInv, Zenon DEF Next
<1> QED
  BY <1>1, <1>2

LEMMA InvAlways == Spec => []Inv
<1>1. Init => Inv
  BY InitInv
<1>2. Inv /\ [Next]_vars => Inv'
  BY NextInv
<1> QED
  BY <1>1, <1>2, PTL DEF Spec

-----------------------------------------------------------------------------
(* What follows from it.                                                   *)

LEMMA InvTypes == Inv => TypeOK
<1> SUFFICES ASSUME Inv PROVE TypeOK
  OBVIOUS
<1>1. /\ BoardInv(board) /\ term \in Terms /\ up \in Ups /\ queue \in Queues
  BY Parts
<1>2. KeyboardOK
  BY <1>1, BoardTypes DEF BoardInv, KeyboardOK
<1>3. term.keys \in Seq(Events) /\ term.inkey_xtra \in BOOLEAN
  BY <1>1 DEF Terms
<1>4. queue.head \in Slots /\ queue.tail \in Slots /\ queue.last \in Slots \cup {-1}
  BY <1>1, QueueTypes
<1>5. \A c \in {queue.slot[i] : i \in Slots} \cup {queue.copy} :
          /\ c.code \in Codes \cup {CMD_NULL}
          /\ c.nrepeats \in 0 .. MostRepeats
          /\ c.background \in 0 .. 2 /\ c.arg \in Special .. MaxRest
  <2>1. queue.slot \in [Slots -> Commands] /\ queue.copy \in Commands
    BY <1>1, QueueTypes
  <2>2. ASSUME NEW c \in {queue.slot[i] : i \in Slots} \cup {queue.copy} PROVE c \in Commands
    BY <2>1
  <2> QED
    BY <2>2, CommandTypes
<1>6. /\ up.running \in 0 .. Larger(MaxRun, MostRepeats)
      /\ up.resting \in Special .. MaxRest /\ up.paralyzed \in 0 .. MaxSleep
  BY <1>1, UpTypes
<1>7. pc \in {"turn", "pop", "prompt", "world"}
  BY Zenon DEF Inv
<1> QED
  BY <1>2, <1>3, <1>4, <1>5, <1>6, <1>7 DEF TypeOK

\* The input, the command queue and the player's upkeep keep to their types; so a run
\* never gets longer than the count that a command can carry, nor the queue's indices
\* past its ends.
THEOREM TypeCorrect == Spec => []TypeOK
<1>1. Inv => TypeOK
  BY InvTypes
<1> QED
  BY <1>1, InvAlways, PTL

LEMMA InvOrder == Inv => QueueKeepsOrder
<1> SUFFICES ASSUME Inv PROVE QueueKeepsOrder
  OBVIOUS
<1>1. /\ QueueInv(queue) /\ LastMeans(queue, history.last) /\ queue \in Queues
      /\ Pointers(queue)
  BY Parts, QueueTypes
<1>2. Full(queue) <=> Length(queue) = QueueSize - 1
  BY <1>1, HowMany DEF N
<1>3. Command("CMD_WALK", 0, 1) \in Commands
  <2>1. "CMD_WALK" \in Codes /\ 0 \in 0 .. MostRepeats /\ 1 \in Special .. MaxRest
    BY Numbers DEF Codes
  <2> QED
    BY <2>1, CommandTypes
<1>4. ~Full(queue) =>
          PutsIn(cmdq_push_copy(queue, Command("CMD_WALK", 0, 1)), queue,
                 Command("CMD_WALK", 0, 1))
  BY <1>1, <1>3, PushPutsIn
<1>5. ASSUME CanRepeat(queue)
      PROVE  /\ PutsIn(cmdq_push_again(queue), queue, LastCommand(queue))
             /\ <<LastCommand(queue).code, LastCommand(queue).arg>> = history.last
             /\ LastCommand(queue).background = 0
  <2>1. /\ PutsIn(cmdq_push_again(queue), queue, LastCommand(queue))
        /\ LastCommand(queue).code # CMD_NULL
    BY <1>1, <1>5, AgainParts
  <2> QED
    BY <1>1, <2>1, Zenon DEF LastMeans, QueueInv
<1> QED
  BY <1>2, <1>4, <1>5, Zenon DEF QueueKeepsOrder

\* The ring of commands behaves like a list, full, empty and wrapped round: what is put
\* in comes last and disturbs nothing that is there, and CMD_REPEAT brings back the last
\* command that was not a side effect, even when its slot has been written over.
THEOREM QueueAlwaysKeepsOrder == Spec => []QueueKeepsOrder
<1>1. Inv => QueueKeepsOrder
  BY InvOrder
<1> QED
  BY <1>1, InvAlways, PTL

LEMMA InvModifiers == Inv => KeysKeepTheirModifiers
<1> SUFFICES ASSUME Inv PROVE KeysKeepTheirModifiers
  OBVIOUS
<1>1. /\ BoardInv(board) /\ KeysInv(board, term) /\ term \in Terms
  BY Parts
<1>2. LatchesFollowFingers
  <2>1. SUFFICES ASSUME board.fifo = <<>>, NEW l \in Latches \ board.doubt
                 PROVE  l \in board.mods <=> l \in Down(board.held)
    BY Zenon DEF LatchesFollowFingers
  <2>2. InTheEnd(board, l) <=> l \in Down(board.held)
    BY <1>1, Zenon DEF BoardInv, Settled
  <2>3. Len(board.fifo) = 0
    BY <2>1
  <2>4. InTheEnd(board, l) <=> l \in board.mods
    BY <2>3, SetAtFirst DEF InTheEnd
  <2> QED
    BY <2>2, <2>4
<1>3. ASSUME NEW e \in ToSet(board.queue \o term.keys), e.sure PROVE e.mods = e.with
  <2>1. board.queue \in Seq(Events) /\ term.keys \in Seq(Events)
    BY <1>1, BoardTypes DEF BoardInv, Terms
  <2>2. Handed(board.queue) /\ Handed(term.keys)
    BY <1>1, Zenon DEF BoardInv, KeysInv
  <2>3. Handed(board.queue \o term.keys)
    BY <2>1, <2>2, JoinedKeys
  <2>4. PICK i \in DOMAIN (board.queue \o term.keys) : e = (board.queue \o term.keys)[i]
    BY Zenon DEF ToSet
  <2> QED
    BY <1>3, <2>3, <2>4, Zenon DEF Handed, Right
<1> QED
  BY <1>2, <1>3, Zenon DEF KeysKeepTheirModifiers

\* A key carries the modifiers that were held when it was pressed, however late it is
\* read, and the latches follow the fingers, whatever keys there are, however long the
\* FIFO is and whichever polls fail.
THEOREM KeysAlwaysKeepTheirModifiers == Spec => []KeysKeepTheirModifiers
<1>1. Inv => KeysKeepTheirModifiers
  BY InvModifiers
<1> QED
  BY <1>1, InvAlways, PTL

LEMMA AnswerIsNew ==
    Inv /\ [Next]_vars => [Answer => ~Head(term.keys).old]_vars
<1> SUFFICES ASSUME Inv, Answer PROVE ~Head(term.keys).old
  OBVIOUS
<1>1. ~term.inkey_xtra /\ term.keys # <<>>
  BY Zenon DEF Answer
<1>2. KeysInv(board, term) /\ term \in Terms
  BY Parts
<1>3. Young(term.keys)
  BY <1>1, <1>2, Zenon DEF KeysInv
<1>4. term.keys \in Seq(Events)
  BY <1>2 DEF Terms
<1> QED
  BY <1>1, <1>3, <1>4, FewerKeys

\* A key that was pressed before a disturbance never becomes a command after it: neither
\* one the term has, nor one in the ring, nor one in the south bridge that the flush's
\* one poll comes to.  What that poll left there, because more waited than it reads or
\* because an I2C call failed, is not old: `old` of Keyboard.
THEOREM FlushedKeysAlwaysGone == Spec => FlushedKeysStayGone
<1>1. Inv /\ [Next]_vars => [Answer => ~Head(term.keys).old]_vars
  BY AnswerIsNew
<1> QED
  BY <1>1, InvAlways, PTL DEF FlushedKeysStayGone, Spec

-----------------------------------------------------------------------------
(* What waits in the queue: the commands that go on by themselves.         *)

Small == {"CMD_SLEEP", "CMD_AUTOPICKUP"}
Goers == {"CMD_RUN", "CMD_REST", "CMD_PATHFIND"}

Has(q, code) == \E i \in Held(q) : q.slot[i].code = code

\* A command that may be repeated: it has a direction, or it is a work.
Repeats(c) == c.code \in {"CMD_WALK", "CMD_TUNNEL"} \/ (c.code = "CMD_RUN" /\ c.arg # 0)

\* Only such a command has a count, wherever it is.
Kinds(q) ==
    /\ \A i \in Slots : q.slot[i].nrepeats # 0 => Repeats(q.slot[i])
    /\ q.copy.nrepeats # 0 => Repeats(q.copy)

\* What waits and was not ordered by the player.
BySelf(c) ==
    c.code \in Small \cup Goers /\ c.nrepeats = 0 /\ (c.code = "CMD_RUN" => c.arg = 0)
WaitOK(q) == \A i \in Held(q) : BySelf(q.slot[i])

\* Of what goes on by itself one command waits, or steps of a run that was begun twice.
Pairs(q, twice) ==
    \A i, j \in Held(q) :
        i # j /\ q.slot[i].code \in Goers /\ q.slot[j].code \in Goers =>
            twice /\ q.slot[i].code = "CMD_RUN" /\ q.slot[j].code = "CMD_RUN"

\* r holds what q holds, and perhaps one command of that code more.
Alike(c, d) ==
    /\ c.code = d.code /\ c.nrepeats = d.nrepeats
    /\ c.code = "CMD_RUN" /\ d.arg = 0 => c.arg = 0
Brought(c, code) == c.code = code /\ c.nrepeats = 0 /\ (code = "CMD_RUN" => c.arg = 0)
More(r, q, code) ==
    \A j \in Held(r) : \/ j \in Held(q) /\ Alike(r.slot[j], q.slot[j])
                       \/ j = q.head /\ Brought(r.slot[j], code)
All(r, q) == \A j \in Held(q) : j \in Held(r) /\ r.slot[j].code = q.slot[j].code

LEMMA MoreKeeps ==
    ASSUME NEW q, NEW r, NEW code, More(r, q, code)
    PROVE  /\ WaitOK(q) /\ code \in Small \cup Goers => WaitOK(r)
           /\ \A x : Has(r, x) => Has(q, x) \/ x = code
<1>1. ASSUME WaitOK(q), code \in Small \cup Goers, NEW j \in Held(r) PROVE BySelf(r.slot[j])
  <2>1. CASE j \in Held(q) /\ Alike(r.slot[j], q.slot[j])
    BY <1>1, <2>1 DEF WaitOK, BySelf, Alike
  <2>2. CASE Brought(r.slot[j], code)
    BY <1>1, <2>2 DEF BySelf, Brought
  <2> QED
    BY <1>1, <2>1, <2>2 DEF More
<1>2. ASSUME NEW x, Has(r, x) PROVE Has(q, x) \/ x = code
  BY <1>2, Zenon DEF Has, More, Alike, Brought
<1> QED
  BY <1>1, <1>2, Zenon DEF WaitOK

LEMMA MorePairs ==
    ASSUME NEW q, NEW r, NEW code, More(r, q, code), NEW twice \in BOOLEAN, Pairs(q, twice),
           code \in Goers => \A x \in Goers : Has(q, x) => x = "CMD_RUN" /\ code = x /\ twice
    PROVE  Pairs(r, twice)
<1> SUFFICES ASSUME NEW i \in Held(r), NEW j \in Held(r), i # j, r.slot[i].code \in Goers,
                    r.slot[j].code \in Goers
             PROVE  twice /\ r.slot[i].code = "CMD_RUN" /\ r.slot[j].code = "CMD_RUN"
  BY Zenon DEF Pairs
<1> DEFINE WasThere(k) == k \in Held(q) /\ r.slot[k].code = q.slot[k].code
           IsNew(k) == k = q.head /\ r.slot[k].code = code
<1>1. (WasThere(i) \/ IsNew(i)) /\ (WasThere(j) \/ IsNew(j))
  BY Zenon DEF More, Alike, Brought
<1>2. CASE WasThere(i) /\ WasThere(j)
  BY <1>2, Zenon DEF Pairs
<1>3. CASE WasThere(i) /\ IsNew(j)
  BY <1>3, Zenon DEF Has
<1>4. CASE IsNew(i) /\ WasThere(j)
  BY <1>4, Zenon DEF Has
<1>5. ~(IsNew(i) /\ IsNew(j))
  OBVIOUS
<1> QED
  BY <1>1, <1>2, <1>3, <1>4, <1>5

\* A change to what waits that leaves its codes and counts.
LEMMA MoreAgain ==
    ASSUME NEW q, NEW r, NEW t, NEW code, More(r, q, code), Held(t) = Held(r),
           \A j \in Held(r) : Alike(t.slot[j], r.slot[j])
    PROVE  /\ More(t, q, code)
           /\ All(r, q) => All(t, q)
<1>1. ASSUME NEW j \in Held(t)
      PROVE  \/ j \in Held(q) /\ Alike(t.slot[j], q.slot[j])
             \/ j = q.head /\ Brought(t.slot[j], code)
  <2>1. j \in Held(r) /\ Alike(t.slot[j], r.slot[j])
    BY <1>1
  <2>2. CASE j \in Held(q) /\ Alike(r.slot[j], q.slot[j])
    BY <2>1, <2>2, Zenon DEF Alike
  <2>3. CASE j = q.head /\ Brought(r.slot[j], code)
    BY <2>1, <2>3, Zenon DEF Alike, Brought
  <2> QED
    BY <2>1, <2>2, <2>3, Zenon DEF More
<1>2. ASSUME All(r, q), NEW j \in Held(q) PROVE j \in Held(t) /\ t.slot[j].code = q.slot[j].code
  BY <1>2, Zenon DEF All, Alike
<1> QED
  BY <1>1, <1>2, Zenon DEF More, All

LEMMA MoreSame ==
    ASSUME NEW q, NEW code PROVE More(q, q, code) /\ All(q, q)
  BY Zenon DEF More, All, Alike

\* The command in slot i may be carried out again: it is repeated, or has a count.
Loaded(q, i) == q.repeating \/ q.slot[i].nrepeats # 0
LoadedFirst(q, i) == Loaded(q, i) => Behind(q.tail) = i

\* It was so before, and the command is the same.
StillLoaded(r, q, i) ==
    Loaded(r, i) /\ LoadedFirst(q, i) =>
        /\ Loaded(q, i) /\ r.tail = q.tail
        /\ r.slot[i].code = q.slot[i].code /\ r.slot[i].arg = q.slot[i].arg

\* What putting a command in, and changing the newest, keep.
Adds(r, q, code) ==
    /\ More(r, q, code) /\ All(r, q) /\ (Kinds(q) => Kinds(r))
    /\ \A i \in Slots : StillLoaded(r, q, i)

LEMMA PushCopy ==
    ASSUME NEW q \in Queues, NEW c \in Commands, ~Full(q)
    PROVE  LET r == cmdq_push_copy(q, c)
           IN  r.copy = q.copy \/ r.copy = q.slot[q.head]
<1> DEFINE r == cmdq_push_copy(q, c)
<1>1. Put(q, c).copy = q.copy /\ Put(q, c) \in Queues
  BY PutParts
<1>2. CASE q.last = q.head
  <2>1. r = [Put(q, c) EXCEPT !.copy = q.slot[q.head], !.last = -1]
    BY <1>2 DEF cmdq_push_copy
  <2> QED
    BY <1>1, <2>1 DEF Queues
<1>3. CASE q.last # q.head
  <2>1. r = Put(q, c)
    BY <1>3 DEF cmdq_push_copy
  <2> QED
    BY <1>1, <2>1
<1> QED
  BY <1>2, <1>3

LEMMA PushAdds ==
    ASSUME NEW q, QueueInv(q), NEW code \in Codes, NEW a \in Special .. MaxRest,
           code = "CMD_RUN" => a = 0
    PROVE  LET r == cmdq_push_copy(q, Command(code, 0, a))
           IN  Adds(r, q, code) /\ (~Full(q) => Has(r, code))
<1> DEFINE c == Command(code, 0, a)
           r == cmdq_push_copy(q, c)
<1>1. /\ c \in Commands /\ c.code = code /\ c.nrepeats = 0 /\ c.arg = a
  <2>1. 0 \in 0 .. MostRepeats
    BY Numbers
  <2> QED
    BY <2>1, CommandTypes
<1>2. q \in Queues /\ q.slot \in [Slots -> Commands] /\ Pointers(q) /\ q.head \in Slots
      /\ q.copy \in Commands /\ q.tail \in Slots
  BY QueueTypes, Zenon DEF QueueInv
<1> HIDE DEF c
<1>3. CASE Full(q)
  <2>1. r = q
    BY <1>3 DEF cmdq_push_copy
  <2> QED
    BY <1>3, <2>1, MoreSame DEF Adds, StillLoaded, c
<1>4. CASE ~Full(q)
  <2>1. /\ r \in Queues /\ r.slot = [q.slot EXCEPT ![q.head] = c]
        /\ r.tail = q.tail /\ (r.repeating <=> q.repeating)
        /\ Held(r) = Held(q) \cup {q.head} /\ q.head \notin Held(q)
    BY <1>1, <1>2, <1>4, PushParts
  <2>2. r.copy = q.copy \/ r.copy = q.slot[q.head]
    BY <1>1, <1>2, <1>4, PushCopy
  <2> HIDE DEF r
  <2>3. r.slot[q.head] = c /\ \A j \in Slots \ {q.head} : r.slot[j] = q.slot[j]
    BY <1>1, <1>2, <2>1
  <2>4. \A j \in Held(q) : j \in Slots \ {q.head}
    BY <2>1 DEF Held
  <2>5. More(r, q, code)
    <3>1. Brought(c, code)
      BY <1>1 DEF Brought
    <3>2. \A j \in Held(q) : Alike(r.slot[j], q.slot[j])
      BY <2>3, <2>4, Zenon DEF Alike
    <3> QED
      BY <2>1, <2>3, <3>1, <3>2 DEF More
  <2>6. All(r, q)
    BY <2>1, <2>3, <2>4, Zenon DEF All
  <2>7. ASSUME Kinds(q) PROVE Kinds(r)
    <3>1. \A i \in Slots : r.slot[i].nrepeats # 0 => Repeats(r.slot[i])
      BY <1>1, <2>3, <2>7, Zenon DEF Kinds
    <3>2. r.copy.nrepeats # 0 => Repeats(r.copy)
      BY <1>2, <2>2, <2>7 DEF Kinds
    <3> QED
      BY <3>1, <3>2, Zenon DEF Kinds
  <2>8. ASSUME NEW i \in Slots PROVE StillLoaded(r, q, i)
    <3>1. SUFFICES ASSUME Loaded(r, i), LoadedFirst(q, i)
                   PROVE  /\ Loaded(q, i) /\ r.tail = q.tail
                          /\ r.slot[i].code = q.slot[i].code /\ r.slot[i].arg = q.slot[i].arg
      BY Zenon DEF StillLoaded
    <3>2. Behind(q.tail) # q.head
      BY <1>2, <1>4, HowMany
    <3>3. CASE i = q.head
      <4>1. r.slot[i].nrepeats = 0
        BY <1>1, <2>3, <3>3
      <4>2. q.repeating
        BY <2>1, <3>1, <4>1 DEF Loaded
      <4> QED
        BY <3>1, <3>2, <3>3, <4>2 DEF Loaded, LoadedFirst
    <3>4. CASE i # q.head
      <4>1. r.slot[i] = q.slot[i]
        BY <2>3, <3>4
      <4> QED
        BY <2>1, <3>1, <4>1 DEF Loaded
    <3> QED
      BY <3>3, <3>4
  <2>9. Has(r, code)
    BY <1>1, <2>1, <2>3, Zenon DEF Has
  <2> QED
    BY <2>5, <2>6, <2>7, <2>8, <2>9 DEF Adds, r, c
<1> QED
  BY <1>3, <1>4 DEF c

\* The newest is changed, and only it.
LEMMA NewestAdds ==
    ASSUME NEW q, QueueInv(q), NEW r, QueueInv(r), NEW code, Adds(r, q, code),
           r.head # r.tail, NEW c \in Commands,
           Alike(c, r.slot[Behind(r.head)]), c.nrepeats = 0,
           NEW t, t = Changed(r, Behind(r.head), c, r.repeating)
    PROVE  Adds(t, q, code) /\ (\A x : Has(r, x) => Has(t, x))
<1>1. /\ r \in Queues /\ r.slot \in [Slots -> Commands] /\ Pointers(r)
      /\ Behind(r.head) \in Slots /\ Behind(r.tail) \in Slots
  BY QueueTypes, Zenon DEF QueueInv
<1>2. Behind(r.head) \in Held(r) /\ Behind(r.tail) \notin Held(r)
  BY <1>1, HeldSlots
<1> DEFINE n == Behind(r.head)
           s == [r.slot EXCEPT ![n] = c]
<1>3. t = Record(s, r.head, r.tail, r.last, r.copy, r.allowed, r.repeating)
  BY Zenon DEF Changed
<1>4. /\ t.slot = s /\ t.head = r.head /\ t.tail = r.tail /\ t.copy = r.copy
      /\ t.repeating = r.repeating
  BY <1>3, RecordFields
<1>5. t.slot[n] = c /\ \A j \in Slots \ {n} : t.slot[j] = r.slot[j]
  BY <1>1, <1>4
<1> HIDE DEF s
<1>6. Held(t) = Held(r)
  BY <1>4 DEF Held
<1>7. \A j \in Held(r) : j \in Slots
  BY DEF Held
<1>8. \A j \in Slots : Alike(t.slot[j], r.slot[j])
  <2>1. \A j : Alike(r.slot[j], r.slot[j])
    BY DEF Alike
  <2> QED
    BY <1>5, <2>1
<1>9. More(t, q, code) /\ All(t, q)
  BY <1>6, <1>7, <1>8, MoreAgain DEF Adds
<1>10. ASSUME Kinds(q) PROVE Kinds(t)
  <2>1. Kinds(r)
    BY <1>10, Zenon DEF Adds
  <2>2. ASSUME NEW i \in Slots, t.slot[i].nrepeats # 0 PROVE Repeats(t.slot[i])
    <3>1. CASE i = n
      BY <1>5, <2>2, <3>1
    <3>2. CASE i # n
      BY <1>5, <2>1, <2>2, <3>2 DEF Kinds
    <3> QED
      BY <3>1, <3>2
  <2>3. t.copy.nrepeats # 0 => Repeats(t.copy)
    BY <1>4, <2>1 DEF Kinds
  <2> QED
    BY <2>2, <2>3, Zenon DEF Kinds
<1>11. ASSUME NEW i \in Slots PROVE StillLoaded(t, q, i)
  <2>1. StillLoaded(r, q, i)
    BY Zenon DEF Adds
  <2>2. SUFFICES ASSUME Loaded(t, i), LoadedFirst(q, i)
                 PROVE  /\ Loaded(q, i) /\ t.tail = q.tail
                        /\ t.slot[i].code = q.slot[i].code /\ t.slot[i].arg = q.slot[i].arg
    BY Zenon DEF StillLoaded
  <2>3. t.slot[i].nrepeats = r.slot[i].nrepeats
    BY <1>8, Zenon DEF Alike
  <2>4. Loaded(r, i)
    BY <1>4, <2>2, <2>3 DEF Loaded
  <2>5. Loaded(q, i) /\ r.tail = q.tail
        /\ r.slot[i].code = q.slot[i].code /\ r.slot[i].arg = q.slot[i].arg
    BY <2>1, <2>2, <2>4, Zenon DEF StillLoaded
  <2>6. i # n
    BY <1>2, <2>2, <2>5 DEF LoadedFirst
  <2>7. t.slot[i] = r.slot[i]
    BY <1>5, <2>6
  <2> QED
    BY <1>4, <2>5, <2>7
<1>12. ASSUME NEW x, Has(r, x) PROVE Has(t, x)
  <2>1. PICK j \in Held(r) : r.slot[j].code = x
    BY <1>12, Zenon DEF Has
  <2>2. t.slot[j].code = x
    BY <1>7, <1>8, <2>1, Zenon DEF Alike
  <2> QED
    BY <1>6, <2>1, <2>2, Zenon DEF Has
<1> QED
  BY <1>9, <1>10, <1>11, <1>12, Zenon DEF Adds

LEMMA BackgroundIs ==
    ASSUME NEW q \in Queues, NEW b \in 0 .. 2
    PROVE  LET c == [q.slot[Behind(q.head)] EXCEPT !.background = b]
           IN  /\ Background(q, b) = Changed(q, Behind(q.head), c, q.repeating)
               /\ c \in Commands /\ Alike(c, q.slot[Behind(q.head)])
<1> DEFINE n == Behind(q.head)
           c == [q.slot[n] EXCEPT !.background = b]
           s == [q.slot EXCEPT ![n] = c]
<1>1. q.slot \in [Slots -> Commands] /\ n \in Slots /\ q.slot[n] \in Commands
  BY QueueTypes
<1>2. Background(q, b) = [q EXCEPT !.slot = s]
  BY Zenon DEF Background
<1>3. /\ c \in Commands /\ c.code = q.slot[n].code /\ c.nrepeats = q.slot[n].nrepeats
      /\ c.arg = q.slot[n].arg
  BY <1>1, BackgroundTypes
<1> HIDE DEF c
<1>4. Background(q, b) = Changed(q, n, c, q.repeating)
  BY <1>2, SlotIs DEF Changed
<1> QED
  BY <1>3, <1>4 DEF Alike, c

LEMMA ArgumentIs ==
    ASSUME NEW q \in Queues, NEW a \in Special .. MaxRest
    PROVE  LET c == [q.slot[Behind(q.head)] EXCEPT !.arg = a]
           IN  /\ Argument(q, a) = Changed(q, Behind(q.head), c, q.repeating)
               /\ c \in Commands
               /\ a = 0 \/ c.code # "CMD_RUN" => Alike(c, q.slot[Behind(q.head)])
               /\ c.code = q.slot[Behind(q.head)].code
<1> DEFINE n == Behind(q.head)
           c == [q.slot[n] EXCEPT !.arg = a]
           s == [q.slot EXCEPT ![n] = c]
<1>1. q.slot \in [Slots -> Commands] /\ n \in Slots /\ q.slot[n] \in Commands
  BY QueueTypes
<1>2. Argument(q, a) = [q EXCEPT !.slot = s]
  BY Zenon DEF Argument
<1>3. /\ c \in Commands /\ c.code = q.slot[n].code /\ c.nrepeats = q.slot[n].nrepeats
      /\ c.arg = a
  BY <1>1, ArgumentTypes
<1> HIDE DEF c
<1>4. Argument(q, a) = Changed(q, n, c, q.repeating)
  BY <1>2, SlotIs DEF Changed
<1> QED
  BY <1>3, <1>4 DEF Alike, c

\* What a step finds is to be picked up: the command for it is put in, as a side effect.
LEMMA PickUpAdds ==
    ASSUME NEW q, QueueInv(q), WaitOK(q), LastAside(q)
    PROVE  LET r == cmdq_push_copy(q, Command("CMD_AUTOPICKUP", 0, 0))
           IN  Adds(Background(r, 2), q, "CMD_AUTOPICKUP")
<1> DEFINE r == cmdq_push_copy(q, Command("CMD_AUTOPICKUP", 0, 0))
<1>1. "CMD_AUTOPICKUP" \in Codes /\ 0 \in Special .. MaxRest /\ 0 \in 0 .. MostRepeats
  BY Numbers DEF Codes
<1>2. Adds(r, q, "CMD_AUTOPICKUP")
  BY <1>1, PushAdds
<1>3. Kept(r, q) /\ r.head # r.tail
  BY <1>1, CommandTypes, PushKeeps
<1> HIDE DEF r
<1>4. QueueInv(r) /\ r \in Queues /\ Pointers(r)
  BY <1>3, QueueTypes DEF Kept, QueueInv
<1>5. WaitOK(r)
  BY <1>2, MoreKeeps DEF Adds, Small
<1>6. Behind(r.head) \in Held(r)
  BY <1>3, <1>4, HeldSlots
<1>7. r.slot[Behind(r.head)].nrepeats = 0
  BY <1>5, <1>6 DEF WaitOK, BySelf
<1> DEFINE c == [r.slot[Behind(r.head)] EXCEPT !.background = 2]
<1>8. /\ Background(r, 2) = Changed(r, Behind(r.head), c, r.repeating)
      /\ c \in Commands /\ Alike(c, r.slot[Behind(r.head)])
  BY <1>4, BackgroundIs, 2 \in 0 .. 2
<1> HIDE DEF c
<1>9. c.nrepeats = 0
  BY <1>7, <1>8, Zenon DEF Alike
<1> QED
  BY <1>2, <1>3, <1>4, <1>8, <1>9, NewestAdds DEF r

\* An argument that may be written into the newest command: it makes no run of a step.
NoRun(q, code, a) == a = 0 \/ (~Has(q, "CMD_RUN") /\ code # "CMD_RUN")

\* A command with its argument, put in by the one that is carried out.
LEMMA PushWithAdds ==
    ASSUME NEW q, QueueInv(q), WaitOK(q), LastAside(q), NEW code \in Goers,
           NEW a \in Special .. MaxRest, NoRun(q, code, a)
    PROVE  LET r == Argument(cmdq_push_copy(q, Command(code, 0, 0)), a)
           IN  Adds(r, q, code) /\ (~Full(q) => Has(r, code)) /\ WaitOK(r)
<1> DEFINE r == cmdq_push_copy(q, Command(code, 0, 0))
           t == Argument(r, a)
<1>1. code \in Codes /\ 0 \in Special .. MaxRest /\ 0 \in 0 .. MostRepeats
  BY Numbers DEF Codes, Goers
<1>2. Adds(r, q, code) /\ (~Full(q) => Has(r, code))
  BY <1>1, PushAdds
<1>3. Kept(r, q) /\ r.head # r.tail
  BY <1>1, CommandTypes, PushKeeps
<1> HIDE DEF r
<1>4. QueueInv(r) /\ r \in Queues /\ Pointers(r)
  BY <1>3, QueueTypes DEF Kept, QueueInv
<1>5. WaitOK(r) /\ (\A x : Has(r, x) => Has(q, x) \/ x = code)
  BY <1>2, MoreKeeps DEF Adds, Goers
<1>6. Behind(r.head) \in Held(r)
  BY <1>3, <1>4, HeldSlots
<1>7. r.slot[Behind(r.head)].nrepeats = 0
  BY <1>5, <1>6 DEF WaitOK, BySelf
<1> DEFINE c == [r.slot[Behind(r.head)] EXCEPT !.arg = a]
<1>8. /\ t = Changed(r, Behind(r.head), c, r.repeating) /\ c \in Commands
      /\ a = 0 \/ c.code # "CMD_RUN" => Alike(c, r.slot[Behind(r.head)])
      /\ c.code = r.slot[Behind(r.head)].code
  BY <1>4, ArgumentIs
<1> HIDE DEF c
<1>9. Alike(c, r.slot[Behind(r.head)])
  <2>1. CASE a = 0
    BY <1>8, <2>1
  <2>2. CASE ~Has(q, "CMD_RUN") /\ code # "CMD_RUN"
    <3>1. ~Has(r, "CMD_RUN")
      BY <1>5, <2>2
    <3>2. r.slot[Behind(r.head)].code # "CMD_RUN"
      BY <1>6, <3>1 DEF Has
    <3> QED
      BY <1>8, <3>2
  <2> QED
    BY <2>1, <2>2 DEF NoRun
<1>10. c.nrepeats = 0
  BY <1>7, <1>9, Zenon DEF Alike
<1> HIDE DEF t
<1>11. Adds(t, q, code) /\ \A x : Has(r, x) => Has(t, x)
  BY <1>2, <1>3, <1>4, <1>8, <1>9, <1>10, NewestAdds
<1>12. WaitOK(t)
  BY <1>11, MoreKeeps DEF Adds, Goers
<1> QED
  BY <1>2, <1>11, <1>12 DEF t, r

\* The next step of a run, and of a path as a side effect.
LEMMA StepQueueAdds ==
    ASSUME NEW g, QueueInv(g.queue), WaitOK(g.queue), LastAside(g.queue)
    PROVE  /\ Adds(StepQueue(g), g.queue, "CMD_RUN")
           /\ ~Full(g.queue) => Has(StepQueue(g), "CMD_RUN")
<1> DEFINE q == g.queue
           p == cmdq_push_copy(q, Command("CMD_RUN", 0, 0))
           r == Argument(p, 0)
           t == Background(r, 1)
<1>1. "CMD_RUN" \in Codes /\ 0 \in Special .. MaxRest /\ 0 \in 0 .. MostRepeats
      /\ "CMD_RUN" \in Goers
  BY Numbers DEF Codes, Goers
<1>2. Adds(r, q, "CMD_RUN") /\ (~Full(q) => Has(r, "CMD_RUN")) /\ WaitOK(r)
  <2>1. NoRun(q, "CMD_RUN", 0)
    BY DEF NoRun
  <2> QED
    BY <1>1, <2>1, PushWithAdds
<1>3. Kept(p, q) /\ p.head # p.tail
  BY <1>1, CommandTypes, PushKeeps
<1>4. LastAside(p) /\ QueueInv(p) /\ p \in Queues
  BY <1>3, Zenon DEF Kept, QueueInv
<1> HIDE DEF p
<1>5. Kept(r, p)
  BY <1>1, <1>3, <1>4, ArgumentKeeps
<1>6. r.head # r.tail
  <2> DEFINE c == [p.slot[Behind(p.head)] EXCEPT !.arg = 0]
  <2>1. r = Changed(p, Behind(p.head), c, p.repeating)
    BY <1>1, <1>4, ArgumentIs
  <2> HIDE DEF c
  <2>2. r.head = p.head /\ r.tail = p.tail
    BY <2>1, RecordFields DEF Changed
  <2> QED
    BY <1>3, <2>2
<1>7. LastAside(r) /\ QueueInv(r) /\ r \in Queues /\ Pointers(r)
  BY <1>4, <1>5, QueueTypes DEF Kept, QueueInv
<1> HIDE DEF r
<1>8. Behind(r.head) \in Held(r)
  BY <1>6, <1>7, HeldSlots
<1>9. r.slot[Behind(r.head)].nrepeats = 0
  BY <1>2, <1>8 DEF WaitOK, BySelf
<1> DEFINE c == [r.slot[Behind(r.head)] EXCEPT !.background = 1]
<1>10. /\ t = Changed(r, Behind(r.head), c, r.repeating)
       /\ c \in Commands /\ Alike(c, r.slot[Behind(r.head)])
  BY <1>7, BackgroundIs, 1 \in 0 .. 2
<1> HIDE DEF c
<1>11. c.nrepeats = 0
  BY <1>9, <1>10, Zenon DEF Alike
<1> HIDE DEF t
<1>12. Adds(t, q, "CMD_RUN") /\ \A x : Has(r, x) => Has(t, x)
  BY <1>2, <1>6, <1>7, <1>10, <1>11, NewestAdds
<1>13. StepQueue(g) = IF g.up.steps THEN t ELSE r
  BY DEF StepQueue, t, r, p
<1> QED
  BY <1>2, <1>12, <1>13

-----------------------------------------------------------------------------
(* How the game goes on by itself.                                         *)

\* What the player did not order goes on only until he is disturbed: a step waits only
\* of a run there is, or of one that was begun twice; a rest that was cut short will
\* not go on; a path waits only behind what is in its way.
Basis(g) ==
    /\ ~g.history.given
    /\ Kinds(g.queue) /\ WaitOK(g.queue) /\ Pairs(g.queue, g.history.twice)
    /\ Has(g.queue, "CMD_RUN") /\ g.up.running = 0 => g.history.twice
    /\ Has(g.queue, "CMD_REST") /\ g.up.resting = 0 => g.up.restDisturb
    /\ Has(g.queue, "CMD_PATHFIND") => g.history.behind
    /\ g.history.cut => g.up.running = 0 /\ g.up.resting = 0

\* There is no path without a run.
Base(g) == Basis(g) /\ (g.up.steps => g.up.running > 0)

\* What may wait while command c is repeated.
Fits(g, c) ==
    \A x \in Goers : Has(g.queue, x) =>
        \/ x = "CMD_RUN" /\ c.code = "CMD_RUN" /\ g.history.twice
        \/ x = "CMD_PATHFIND" /\ c.code = "CMD_TUNNEL"

\* While the command in slot i is carried out, which may be repeated.
Load(g, i) ==
    Loaded(g.queue, i) => /\ ~g.history.cut /\ Behind(g.queue.tail) = i
                          /\ Repeats(g.queue.slot[i]) /\ Fits(g, g.queue.slot[i])

\* A run has its next step, unless it is stuck or was begun twice.
Steady(g) ==
    g.up.running > 0 /\ ~g.history.stuck /\ ~g.history.twice => Has(g.queue, "CMD_RUN")

\* Nothing that goes on by itself waits; or only steps of a run that was begun twice.
Bare(g) == \A x : Has(g.queue, x) => x \in Small
Alone(g) == \A x : Has(g.queue, x) => x \in Small \/ (x = "CMD_RUN" /\ g.history.twice)
Going(g, i) ==
    Alone(g) /\ (Loaded(g.queue, i) => g.queue.slot[i].code = "CMD_RUN" /\ g.history.twice)

LEMMA NothingWaits ==
    ASSUME NEW q, Held(q) = {}, NEW twice
    PROVE  WaitOK(q) /\ Pairs(q, twice) /\ \A x : ~Has(q, x)
  BY DEF WaitOK, Pairs, Has

\* A command that does not go on by itself is put in.
LEMMA SmallKeeps ==
    ASSUME NEW g, GameInv(g), Base(g), NEW code \in Small,
           NEW m, Adds(m.queue, g.queue, code), m.up = g.up, m.history = g.history
    PROVE  /\ Base(m)
           /\ \A x : Has(m.queue, x) => Has(g.queue, x) \/ x = code
           /\ \A x \in Goers : Has(m.queue, x) => Has(g.queue, x)
           /\ Steady(g) => Steady(m)
           /\ Bare(g) => Bare(m)
           /\ Alone(g) => Alone(m)
<1>1. /\ More(m.queue, g.queue, code) /\ All(m.queue, g.queue)
      /\ Kinds(m.queue)
  BY Zenon DEF Adds, Base, Basis
<1>2. WaitOK(m.queue) /\ (\A x : Has(m.queue, x) => Has(g.queue, x) \/ x = code)
  BY <1>1, MoreKeeps DEF Base, Basis
<1>3. code \notin Goers
  BY DEF Small, Goers
<1>4. g.history.twice \in BOOLEAN
  BY GameParts, HistoryTypes DEF GameInv
<1>5. Pairs(m.queue, m.history.twice)
  BY <1>1, <1>3, <1>4, MorePairs DEF Base, Basis
<1>6. \A x \in Goers : Has(m.queue, x) => Has(g.queue, x)
  BY <1>2, <1>3
<1>7. "CMD_RUN" \in Goers /\ "CMD_REST" \in Goers /\ "CMD_PATHFIND" \in Goers
  BY DEF Goers
<1>8. Base(m)
  BY <1>1, <1>2, <1>5, <1>6, <1>7 DEF Base, Basis
<1>9. Steady(g) => Steady(m)
  <2>1. Has(g.queue, "CMD_RUN") => Has(m.queue, "CMD_RUN")
    BY <1>1, Zenon DEF Has, All
  <2> QED
    BY <2>1 DEF Steady
<1>10. Bare(g) => Bare(m)
  BY <1>2, Zenon DEF Bare
<1>11. Alone(g) => Alone(m)
  BY <1>2, Zenon DEF Alone
<1> QED
  BY <1>2, <1>6, <1>8, <1>9, <1>10, <1>11

\* So it is with what a step finds.
LEMMA AddSmall ==
    ASSUME NEW g, GameInv(g), NEW i \in Slots, Base(g), Load(g, i), NEW code \in Small,
           NEW m, Adds(m.queue, g.queue, code), m.up = g.up, m.history = g.history
    PROVE  /\ Base(m) /\ Load(m, i)
           /\ Steady(g) => Steady(m)
           /\ Going(g, i) => Going(m, i)
<1>1. /\ Base(m) /\ (Steady(g) => Steady(m)) /\ (Alone(g) => Alone(m))
      /\ \A x \in Goers : Has(m.queue, x) => Has(g.queue, x)
  BY SmallKeeps, Zenon
<1>2. LoadedFirst(g.queue, i) /\ StillLoaded(m.queue, g.queue, i)
  BY Zenon DEF Load, LoadedFirst, Adds
<1>3. ASSUME Loaded(m.queue, i)
      PROVE  /\ Loaded(g.queue, i) /\ m.queue.tail = g.queue.tail
             /\ m.queue.slot[i].code = g.queue.slot[i].code
             /\ m.queue.slot[i].arg = g.queue.slot[i].arg
  BY <1>2, <1>3, Zenon DEF StillLoaded
<1>4. Load(m, i)
  <2>1. SUFFICES ASSUME Loaded(m.queue, i)
                 PROVE  /\ ~m.history.cut /\ Behind(m.queue.tail) = i
                        /\ Repeats(m.queue.slot[i]) /\ Fits(m, m.queue.slot[i])
    BY Zenon DEF Load
  <2>2. /\ ~g.history.cut /\ Behind(g.queue.tail) = i
        /\ Repeats(g.queue.slot[i]) /\ Fits(g, g.queue.slot[i])
    BY <1>3, <2>1, Zenon DEF Load
  <2>3. Fits(m, m.queue.slot[i])
    BY <1>1, <1>3, <2>1, <2>2, Zenon DEF Fits
  <2>4. Repeats(m.queue.slot[i])
    BY <1>3, <2>1, <2>2 DEF Repeats
  <2> QED
    BY <1>3, <2>1, <2>2, <2>3, <2>4
<1>5. Going(g, i) => Going(m, i)
  BY <1>1, <1>3, Zenon DEF Going
<1> QED
  BY <1>1, <1>4, <1>5

\* The repeats are cancelled.
LEMMA CancelParts ==
    ASSUME NEW q, QueueInv(q)
    PROVE  LET r == cmd_cancel_repeat(q)
           IN  /\ r.head = q.head /\ r.tail = q.tail /\ Held(r) = Held(q) /\ r.copy = q.copy
               /\ ~r.repeating
               /\ \A j \in Held(q) : r.slot[j] = q.slot[j]
               /\ \A j \in Slots : /\ r.slot[j].code = q.slot[j].code
                                   /\ r.slot[j].arg = q.slot[j].arg
                                   /\ \/ r.slot[j].nrepeats = q.slot[j].nrepeats
                                      \/ r.slot[j].nrepeats = 0
<1> DEFINE r == cmd_cancel_repeat(q)
           n == Behind(q.tail)
           c == [Current(q) EXCEPT !.nrepeats = 0]
<1>1. /\ q \in Queues /\ q.slot \in [Slots -> Commands] /\ Pointers(q) /\ n \in Slots
      /\ Current(q) \in Commands /\ q.repeating \in BOOLEAN /\ Current(q) = q.slot[n]
  BY QueueTypes, Zenon DEF QueueInv, Current
<1>2. n \notin Held(q) /\ \A j \in Held(q) : j \in Slots
  BY <1>1, HeldSlots DEF Held
<1>3. CASE Current(q).nrepeats # 0 \/ q.repeating
  <2>1. 0 \in 0 .. MostRepeats
    BY Numbers
  <2>2. r = Changed(q, n, c, FALSE)
    BY <1>1, <1>3, <2>1, SetRepeatIs DEF cmd_cancel_repeat
  <2>3. c.code = q.slot[n].code /\ c.arg = q.slot[n].arg /\ c.nrepeats = 0
    BY <1>1, <2>1, NumberTypes
  <2> HIDE DEF c, r
  <2> DEFINE s == [q.slot EXCEPT ![n] = c]
  <2>7. r = Record(s, q.head, q.tail, q.last, q.copy, q.allowed, FALSE)
    BY <2>2, Zenon DEF Changed
  <2>8. /\ r.slot = s /\ r.head = q.head /\ r.tail = q.tail /\ r.copy = q.copy
        /\ r.repeating = FALSE
    <3> HIDE DEF s
    <3> QED
      BY <2>7, Zenon DEF Record
  <2>4. /\ r.slot = [q.slot EXCEPT ![n] = c] /\ r.head = q.head /\ r.tail = q.tail
        /\ r.copy = q.copy /\ r.repeating = FALSE
    BY <2>8
  <2>5. r.slot[n] = c /\ \A j \in Slots \ {n} : r.slot[j] = q.slot[j]
    BY <1>1, <2>4
  <2>6. Held(r) = Held(q)
    BY <2>4 DEF Held
  <2> QED
    BY <1>2, <2>3, <2>4, <2>5, <2>6 DEF r
<1>4. CASE ~(Current(q).nrepeats # 0 \/ q.repeating)
  <2>1. r = q
    BY <1>4 DEF cmd_cancel_repeat
  <2> QED
    BY <1>4, <2>1
<1> QED
  BY <1>3, <1>4

\* A disturbance, whoever it comes from.
LEMMA DisturbBase ==
    ASSUME NEW g, GameInv(g), Base(g)
    PROVE  LET m == Disturb(g)
           IN  /\ GameInv(m) /\ Base(m) /\ Steady(m) /\ ~m.queue.repeating
               /\ \A x : Has(m.queue, x) => Has(g.queue, x)
               /\ m.up.running = 0 /\ ~m.up.steps /\ m.up.resting = 0
               /\ m.history.twice = g.history.twice /\ m.history.behind = g.history.behind
               /\ \A i \in Slots : Doing(g, i) => Doing(m, i) /\ ~Loaded(m.queue, i)
<1> DEFINE m == Disturb(g)
           q == cmd_cancel_repeat(g.queue)
<1>1. /\ GameInv(m) /\ Stops(m.queue, g.queue)
      /\ m.up = Stopped(g.up)
      /\ m.history = QuietHistory(g.history, g.up.running > 0)
      /\ g.up.running > 0 => Held(m.queue) = {}
      /\ ~(g.up.running > 0) => m.queue = q
      /\ \A i \in Slots : Doing(g, i) => Doing(m, i) /\ Quiet(m.queue, i)
  BY DisturbParts
<1>2. /\ g.up \in Ups /\ g.history \in Histories /\ QueueInv(g.queue)
      /\ g.history.twice \in BOOLEAN /\ g.history.given \in BOOLEAN
      /\ g.up.running \in 0 .. Larger(MaxRun, MostRepeats)
  BY GameParts, HistoryTypes, UpTypes DEF GameInv
<1>3. /\ m.up.running = 0 /\ m.up.resting = 0
      /\ (m.up.steps <=> g.up.steps /\ g.up.running = 0)
      /\ (m.up.restDisturb <=> g.up.restDisturb \/ g.up.resting # 0)
  BY <1>1, <1>2, StoppedParts
<1>4. /\ m.history.cut /\ ~m.history.stuck
      /\ (m.history.given <=> g.history.given /\ ~(g.up.running > 0))
      /\ m.history.twice = g.history.twice /\ m.history.behind = g.history.behind
  <2> DEFINE ran == g.up.running > 0
  <2>1. ran \in BOOLEAN
    OBVIOUS
  <2>2. m.history = QuietHistory(g.history, ran)
    BY <1>1
  <2> HIDE DEF ran, m
  <2>3. /\ m.history.cut /\ ~m.history.stuck
        /\ (m.history.given <=> g.history.given /\ ~ran)
        /\ m.history.twice = g.history.twice /\ m.history.behind = g.history.behind
    BY <1>2, <2>1, <2>2, QuietHistoryParts
  <2> QED
    BY <2>3 DEF ran
<1>5. /\ Held(q) = Held(g.queue) /\ q.copy = g.queue.copy
      /\ \A j \in Held(g.queue) : q.slot[j] = g.queue.slot[j]
      /\ \A j \in Slots : /\ q.slot[j].code = g.queue.slot[j].code
                          /\ q.slot[j].arg = g.queue.slot[j].arg
                          /\ \/ q.slot[j].nrepeats = g.queue.slot[j].nrepeats
                             \/ q.slot[j].nrepeats = 0
  BY <1>2, CancelParts
<1>6. m.queue.slot = q.slot /\ m.queue.copy = q.copy
  <2>1. m.queue = QuietQueue(g)
    <3>1. g \in Games
      BY Zenon DEF GameInv
    <3>2. m = GameOf(Aged(g.board), OldTerm(g.term), QuietQueue(g), Stopped(g.up),
                     QuietHistory(g.history, g.up.running > 0))
      BY <3>1, DisturbIs
    <3> QED
      BY <3>2 DEF GameOf
  <2>2. q \in Queues
    BY <1>2, CancelStops DEF Stops, Kept, QueueInv
  <2> HIDE DEF q, m
  <2>3. cmdq_flush(q).slot = q.slot /\ cmdq_flush(q).copy = q.copy
    BY <2>2 DEF Queues, cmdq_flush
  <2>4. QuietQueue(g) = IF g.up.running > 0 THEN cmdq_flush(q) ELSE q
    BY DEF QuietQueue, q
  <2> QED
    BY <2>1, <2>3, <2>4
<1> HIDE DEF m, q
<1>7. Kinds(m.queue)
  BY <1>5, <1>6 DEF Kinds, Repeats, Base, Basis
<1>8. CASE g.up.running > 0
  <2>1. WaitOK(m.queue) /\ Pairs(m.queue, m.history.twice) /\ \A x : ~Has(m.queue, x)
    BY <1>1, <1>8, NothingWaits
  <2>2. ~m.queue.repeating
    BY <1>1, Zenon DEF Stops
  <2>3. ~m.history.given /\ ~m.up.steps
    BY <1>3, <1>4, <1>8 DEF Base, Basis
  <2>4. Base(m)
    BY <1>3, <1>4, <1>7, <2>1, <2>3, Zenon DEF Base, Basis
  <2>5. Steady(m)
    BY <1>3 DEF Steady
  <2>6. ASSUME NEW i \in Slots, Doing(g, i) PROVE Doing(m, i) /\ ~Loaded(m.queue, i)
    BY <1>1, <2>2, <2>6, Zenon DEF Loaded, Quiet
  <2> QED
    BY <1>1, <1>3, <1>4, <2>1, <2>2, <2>3, <2>4, <2>5, <2>6 DEF m
<1>9. CASE ~(g.up.running > 0)
  <2>1. m.queue = q /\ g.up.running = 0
    BY <1>1, <1>2, <1>9
  <2>2. ASSUME NEW x, Has(m.queue, x) PROVE Has(g.queue, x)
    BY <1>5, <2>1, <2>2, Zenon DEF Has
  <2>3. WaitOK(m.queue)
    BY <1>5, <2>1, Zenon DEF WaitOK, Base, Basis
  <2>4. Pairs(m.queue, m.history.twice)
    <3>1. Pairs(g.queue, g.history.twice)
      BY Zenon DEF Base, Basis
    <3> QED
      BY <1>4, <1>5, <2>1, <3>1 DEF Pairs
  <2>5. ~m.queue.repeating
    BY <1>1, Zenon DEF Stops
  <2>6. ~m.history.given /\ ~m.up.steps
    BY <1>3, <1>4, <1>9 DEF Base, Basis
  <2>7. Has(m.queue, "CMD_RUN") => m.history.twice
    BY <1>4, <2>1, <2>2, Zenon DEF Base, Basis
  <2>8. Has(m.queue, "CMD_REST") => m.up.restDisturb
    BY <1>3, <2>2, Zenon DEF Base, Basis
  <2>9. Has(m.queue, "CMD_PATHFIND") => m.history.behind
    BY <1>4, <2>2, Zenon DEF Base, Basis
  <2>10. Base(m)
    BY <1>3, <1>7, <2>3, <2>4, <2>6, <2>7, <2>8, <2>9, Zenon DEF Base, Basis
  <2>11. Steady(m)
    BY <1>3 DEF Steady
  <2>12. ASSUME NEW i \in Slots, Doing(g, i) PROVE Doing(m, i) /\ ~Loaded(m.queue, i)
    BY <1>1, <2>5, <2>12, Zenon DEF Loaded, Quiet
  <2> QED
    BY <1>1, <1>3, <1>4, <2>2, <2>5, <2>6, <2>10, <2>11, <2>12 DEF m
<1> QED
  BY <1>8, <1>9

\* What waits is flushed, after a disturbance.
LEMMA FlushBase ==
    ASSUME NEW g, GameInv(g), Base(g), g.up.running = 0, ~g.up.steps
    PROVE  LET m == Flush(g)
           IN  /\ GameInv(m) /\ Base(m) /\ Steady(m)
               /\ m.queue.repeating = g.queue.repeating /\ m.queue.slot = g.queue.slot
               /\ m.up = g.up /\ Bare(m)
<1> DEFINE m == Flush(g)
           h == [g.history EXCEPT !.given = FALSE]
<1>1. /\ GameInv(m) /\ m.queue = cmdq_flush(g.queue) /\ m.up = g.up /\ m.history = h
      /\ Held(m.queue) = {}
  BY FlushGame
<1>2. g.queue \in Queues /\ g.history \in Histories
  BY GameParts DEF GameInv
<1>3. /\ m.queue.slot = g.queue.slot /\ m.queue.copy = g.queue.copy
      /\ m.queue.repeating = g.queue.repeating
  BY <1>1, <1>2 DEF Queues, cmdq_flush
<1>4. h.cut = g.history.cut /\ ~h.given
  BY <1>2 DEF Histories
<1> HIDE DEF m, h
<1>5. WaitOK(m.queue) /\ Pairs(m.queue, m.history.twice) /\ \A x : ~Has(m.queue, x)
  BY <1>1, NothingWaits
<1>6. Kinds(m.queue)
  BY <1>3 DEF Kinds, Base, Basis
<1>7. Base(m)
  BY <1>1, <1>4, <1>5, <1>6 DEF Base, Basis
<1>8. Steady(m) /\ Bare(m)
  BY <1>1, <1>5 DEF Steady, Bare
<1> QED
  BY <1>1, <1>3, <1>7, <1>8 DEF m

\* Only what the player is, beside his run and his rest, is changed.
LEMMA SameCourse ==
    ASSUME NEW g, NEW m, m.queue = g.queue, m.history = g.history,
           m.up.running = g.up.running, m.up.steps = g.up.steps,
           m.up.resting = g.up.resting, m.up.restDisturb = g.up.restDisturb
    PROVE  /\ Base(g) => Base(m)
           /\ Steady(g) => Steady(m)
           /\ \A i : Load(g, i) => Load(m, i)
  BY Zenon DEF Base, Basis, Steady, Load, Fits

\* What is left after a disturbance goes on no more.
Ended(m, i) ==
    /\ Base(m) /\ Steady(m) /\ ~m.queue.repeating /\ ~Loaded(m.queue, i)
    /\ m.up.running = 0 /\ ~m.up.steps

LEMMA DisturbEnds ==
    ASSUME NEW i \in Slots, NEW g, Doing(g, i), Base(g)
    PROVE  /\ Doing(Disturb(g), i) /\ Ended(Disturb(g), i)
           /\ \A x : Has(Disturb(g).queue, x) => Has(g.queue, x)
           /\ Disturb(g).history.twice = g.history.twice
<1>1. GameInv(g)
  BY Zenon DEF Doing
<1> QED
  BY <1>1, DisturbBase, Zenon DEF Ended

LEMMA TrapEnds ==
    ASSUME NEW i \in Slots, NEW g, Doing(g, i), Base(g), NEW m \in TrapHits(g)
    PROVE  Doing(m, i) /\ Ended(m, i) /\ (Alone(g) => Alone(m))
<1> DEFINE d == Disturb(g)
<1>1. Doing(m, i)
  BY TrapDoes
<1>2. /\ Doing(d, i) /\ Ended(d, i) /\ (\A x : Has(d.queue, x) => Has(g.queue, x))
      /\ d.history.twice = g.history.twice
  BY DisturbEnds
<1>3. Alone(g) => Alone(d)
  BY <1>2, Zenon DEF Alone
<1>4. GameInv(g) /\ GameInv(d) /\ d.up.resting = 0
  BY <1>2, DisturbBase, Zenon DEF Doing
<1>5. m = d \/ m = Paralyze(g) \/ m = Flush(d)
  BY DEF TrapHits
<1> HIDE DEF d
<1>6. CASE m = d
  BY <1>1, <1>2, <1>3, <1>6, Zenon
<1>7. CASE m = Paralyze(g)
  <2>1. /\ m.queue = d.queue /\ m.history = d.history /\ m.up.running = 0
        /\ m.up.resting = 0 /\ m.up.steps = d.up.steps
        /\ m.up.restDisturb = d.up.restDisturb
    BY <1>4, <1>7, ParalyzeGame, Zenon DEF d
  <2>2. d.up.running = 0
    BY <1>2, Zenon DEF Ended
  <2>3. (Base(d) => Base(m)) /\ (Steady(d) => Steady(m))
    BY <1>4, <2>1, <2>2, SameCourse, Zenon
  <2>4. Ended(m, i)
    BY <1>2, <2>1, <2>3, Zenon DEF Ended
  <2>5. Alone(d) => Alone(m)
    BY <2>1, Zenon DEF Alone
  <2> QED
    BY <1>1, <1>3, <2>4, <2>5, Zenon
<1>8. CASE m = Flush(d)
  <2>1. Base(d) /\ d.up.running = 0 /\ ~d.up.steps
    BY <1>2, Zenon DEF Ended
  <2>2. /\ Base(m) /\ Steady(m) /\ m.queue.repeating = d.queue.repeating
        /\ m.queue.slot = d.queue.slot /\ m.up = d.up /\ Bare(m)
    BY <1>4, <1>8, <2>1, FlushBase, Zenon
  <2>3. Ended(m, i)
    BY <1>2, <2>2, Zenon DEF Ended, Loaded
  <2>4. Alone(m)
    BY <2>2, Zenon DEF Bare, Alone
  <2> QED
    BY <1>1, <2>3, <2>4, Zenon
<1> QED
  BY <1>5, <1>6, <1>7, <1>8

\* The course of the game after a part of a command: nothing is repeated that should
\* not be, and what was steady, or going on, is.
Sound(m, i) == Doing(m, i) /\ Base(m) /\ Load(m, i)
Follows(m, g, i) ==
    Sound(m, i) /\ (Steady(g) => Steady(m)) /\ (Going(g, i) => Going(m, i))

LEMMA EndedFollows ==
    ASSUME NEW i, NEW g, NEW m, Doing(m, i), Ended(m, i), Alone(g) => Alone(m)
    PROVE  Follows(m, g, i)
  BY Zenon DEF Ended, Follows, Sound, Load, Going

LEMMA FollowsAgain ==
    ASSUME NEW i, NEW g, NEW m, NEW k, Follows(k, g, i), Follows(m, k, i)
    PROVE  Follows(m, g, i)
  BY Zenon DEF Follows

LEMMA DisturbFollows ==
    ASSUME NEW i \in Slots, NEW g, Sound(g, i) PROVE Follows(Disturb(g), g, i)
<1>1. /\ Doing(Disturb(g), i) /\ Ended(Disturb(g), i)
      /\ \A x : Has(Disturb(g).queue, x) => Has(g.queue, x)
      /\ Disturb(g).history.twice = g.history.twice
  BY DisturbEnds DEF Sound
<1>2. Alone(g) => Alone(Disturb(g))
  BY <1>1, Zenon DEF Alone
<1> QED
  BY <1>1, <1>2, EndedFollows

\* A side effect is put in by what a step finds.
LEMMA PickUpFollows ==
    ASSUME NEW i \in Slots, NEW g, Sound(g, i)
    PROVE  Follows(SideEffect(Push(g, "CMD_AUTOPICKUP", 0), 2), g, i)
<1> DEFINE p == Push(g, "CMD_AUTOPICKUP", 0)
           m == SideEffect(p, 2)
<1>1. GameInv(g) /\ LastAside(g.queue) /\ Doing(g, i) /\ Base(g) /\ Load(g, i)
  BY Zenon DEF Sound, Doing
<1>2. "CMD_AUTOPICKUP" \in Codes /\ 0 \in Special .. MaxRest /\ 2 \in 0 .. 2
      /\ "CMD_AUTOPICKUP" \in Small
  BY Numbers DEF Codes, Small
<1>3. /\ GameInv(p) /\ Kept(p.queue, g.queue)
      /\ p.queue = cmdq_push_copy(g.queue, Command("CMD_AUTOPICKUP", 0, 0))
      /\ p.queue.head # p.queue.tail /\ p.up = g.up /\ p.history = g.history /\ Doing(p, i)
  BY <1>1, <1>2, PushGame
<1> HIDE DEF p
<1>4. LastAside(p.queue)
  BY <1>1, <1>3, Zenon DEF Kept
<1>5. /\ m.queue = Background(p.queue, 2) /\ m.up = p.up /\ m.history = p.history
      /\ Doing(m, i)
  BY <1>2, <1>3, <1>4, SideEffectGame
<1> HIDE DEF m
<1>6. QueueInv(g.queue) /\ WaitOK(g.queue)
  BY <1>1, Zenon DEF GameInv, Base, Basis
<1>7. Adds(m.queue, g.queue, "CMD_AUTOPICKUP")
  BY <1>1, <1>3, <1>5, <1>6, PickUpAdds
<1>8. m.up = g.up /\ m.history = g.history
  BY <1>3, <1>5
<1>9. /\ Base(m) /\ Load(m, i) /\ (Steady(g) => Steady(m))
      /\ Going(g, i) => Going(m, i)
  BY <1>1, <1>2, <1>7, <1>8, AddSmall
<1> QED
  BY <1>5, <1>9, Zenon DEF Follows, Sound, m, p

LEMMA StepsFollow ==
    ASSUME NEW i \in Slots, NEW g, Sound(g, i), NEW m \in Steps(g) PROVE Follows(m, g, i)
<1>1. PICK k \in {g} \cup TrapHits(g) : m = SideEffect(Push(k, "CMD_AUTOPICKUP", 0), 2)
  BY Zenon DEF Steps
<1>2. Follows(k, g, i)
  <2>1. CASE k = g
    BY <2>1, Zenon DEF Follows
  <2>2. CASE k \in TrapHits(g)
    <3>1. Doing(k, i) /\ Ended(k, i) /\ (Alone(g) => Alone(k))
      BY <2>2, TrapEnds, Zenon DEF Sound
    <3> QED
      BY <3>1, EndedFollows, Zenon
  <2> QED
    BY <1>1, <2>1, <2>2
<1>3. Follows(m, k, i)
  BY <1>1, <1>2, PickUpFollows DEF Follows
<1> QED
  BY <1>2, <1>3, FollowsAgain

LEMMA MoveFollows ==
    ASSUME NEW i \in Slots, NEW g, Sound(g, i), NEW r \in move_player(g)
    PROVE  Follows(r.game, g, i)
<1>1. CASE \E m \in Steps(g) : r = Turn(m)
  <2>1. PICK m \in Steps(g) : r = Turn(m)
    BY <1>1
  <2>2. r.game = m
    BY <2>1, ResultIs
  <2> QED
    BY <2>1, <2>2, StepsFollow
<1>2. CASE r = Turn(Disturb(g)) \/ r = Free(Disturb(g))
  <2>1. r.game = Disturb(g)
    BY <1>2, ResultIs, Zenon
  <2> QED
    BY <2>1, DisturbFollows
<1> QED
  BY <1>1, <1>2 DEF move_player

\* What waits is as it was.
LEMMA SameWaiting ==
    ASSUME NEW g, NEW m, m.up = g.up, m.history = g.history,
           Held(m.queue) = Held(g.queue),
           \A j \in Held(g.queue) : m.queue.slot[j] = g.queue.slot[j],
           Kinds(g.queue) => Kinds(m.queue)
    PROVE  /\ \A x : Has(m.queue, x) <=> Has(g.queue, x)
           /\ Base(g) => Base(m)
           /\ Steady(g) => Steady(m)
           /\ Alone(g) => Alone(m)
           /\ \A c : Fits(g, c) => Fits(m, c)
<1>1. \A x : Has(m.queue, x) <=> Has(g.queue, x)
  BY Zenon DEF Has
<1>2. WaitOK(g.queue) => WaitOK(m.queue)
  BY Zenon DEF WaitOK
<1>3. Pairs(g.queue, g.history.twice) => Pairs(m.queue, m.history.twice)
  BY DEF Pairs
<1> QED
  BY <1>1, <1>2, <1>3, Zenon DEF Base, Basis, Steady, Alone, Fits

LEMMA SetRepeatLeaves ==
    ASSUME NEW q, QueueInv(q), NEW n \in 0 .. MostRepeats
    PROVE  LET r == cmd_set_repeat(q, n)
               i == Behind(q.tail)
           IN  /\ r.head = q.head /\ r.tail = q.tail /\ Held(r) = Held(q) /\ r.copy = q.copy
               /\ (r.repeating <=> n # 0) /\ i \in Slots
               /\ \A j \in Slots \ {i} : r.slot[j] = q.slot[j]
               /\ \A j \in Held(q) : r.slot[j] = q.slot[j]
               /\ r.slot[i].code = q.slot[i].code /\ r.slot[i].arg = q.slot[i].arg
               /\ r.slot[i].nrepeats = n
<1> DEFINE r == cmd_set_repeat(q, n)
           i == Behind(q.tail)
           c == [Current(q) EXCEPT !.nrepeats = n]
           s == [q.slot EXCEPT ![i] = c]
           again == n # 0
<1>1. /\ q \in Queues /\ q.slot \in [Slots -> Commands] /\ Pointers(q) /\ i \in Slots
      /\ Current(q) \in Commands /\ Current(q) = q.slot[i]
  BY QueueTypes, Zenon DEF QueueInv, Current
<1>2. i \notin Held(q) /\ \A j \in Held(q) : j \in Slots
  BY <1>1, HeldSlots DEF Held
<1>3. r = Record(s, q.head, q.tail, q.last, q.copy, q.allowed, again)
  BY <1>1, SetRepeatIs, Zenon DEF Changed
<1>4. c.code = q.slot[i].code /\ c.arg = q.slot[i].arg /\ c.nrepeats = n
  BY <1>1, NumberTypes
<1> HIDE DEF c, r
<1>5. s[i] = c /\ \A j \in Slots \ {i} : s[j] = q.slot[j]
  BY <1>1
<1>6. /\ r.slot = s /\ r.head = q.head /\ r.tail = q.tail /\ r.copy = q.copy
      /\ r.repeating = again
  <2> HIDE DEF s, again
  <2> QED
    BY <1>3, Zenon DEF Record
<1> HIDE DEF s
<1>7. Held(r) = Held(q)
  BY <1>6 DEF Held
<1>8. r.repeating <=> n # 0
  BY <1>6
<1> QED
  BY <1>1, <1>2, <1>4, <1>5, <1>6, <1>7, <1>8 DEF r

\* The command in slot i may be repeated.
Repeatable(g, i) ==
    /\ ~g.history.cut /\ Behind(g.queue.tail) = i
    /\ Repeats(g.queue.slot[i]) /\ Fits(g, g.queue.slot[i])

LEMMA SetRepeatSound ==
    ASSUME NEW i \in Slots, NEW g, Doing(g, i), Base(g), Repeatable(g, i),
           NEW n \in 0 .. MostRepeats
    PROVE  LET m == SetRepeat(g, n)
           IN  /\ Sound(m, i) /\ Repeatable(m, i)
               /\ Steady(g) => Steady(m)
               /\ Alone(g) => Alone(m)
               /\ m.queue.slot[i].code = g.queue.slot[i].code
               /\ m.up = g.up /\ m.history = g.history
<1> DEFINE m == SetRepeat(g, n)
<1>1. GameInv(g) /\ Busy(g.queue) /\ LastAside(g.queue) /\ QueueInv(g.queue)
  BY Zenon DEF Doing, GameInv
<1>2. /\ m.queue = cmd_set_repeat(g.queue, n) /\ m.up = g.up /\ m.history = g.history
      /\ Doing(m, i)
  BY <1>1, SetRepeatGame
<1>3. Behind(g.queue.tail) = i
  BY Zenon DEF Repeatable
<1>4. /\ m.queue.tail = g.queue.tail /\ Held(m.queue) = Held(g.queue)
      /\ m.queue.copy = g.queue.copy
      /\ \A j \in Slots \ {i} : m.queue.slot[j] = g.queue.slot[j]
      /\ \A j \in Held(g.queue) : m.queue.slot[j] = g.queue.slot[j]
      /\ m.queue.slot[i].code = g.queue.slot[i].code
      /\ m.queue.slot[i].arg = g.queue.slot[i].arg
  BY <1>1, <1>2, <1>3, SetRepeatLeaves
<1> HIDE DEF m
<1>5. Repeats(m.queue.slot[i])
  BY <1>4 DEF Repeatable, Repeats
<1>6. Kinds(g.queue) => Kinds(m.queue)
  BY <1>4, <1>5, Zenon DEF Kinds
<1>7. /\ Base(m) /\ (Steady(g) => Steady(m)) /\ (Alone(g) => Alone(m))
      /\ \A c : Fits(g, c) => Fits(m, c)
  BY <1>2, <1>4, <1>6, SameWaiting, Zenon
<1>8. Fits(m, m.queue.slot[i])
  <2>1. Fits(m, g.queue.slot[i])
    BY <1>7, Zenon DEF Repeatable
  <2> QED
    BY <1>4, <2>1, Zenon DEF Fits
<1>9. Repeatable(m, i)
  BY <1>2, <1>3, <1>4, <1>5, <1>8, Zenon DEF Repeatable
<1>10. Load(m, i)
  BY <1>9, Zenon DEF Load, Repeatable
<1> QED
  BY <1>2, <1>4, <1>7, <1>9, <1>10 DEF Sound, m

\* A step that goes on: it takes with it what it was.
LEMMA AlterSound ==
    ASSUME NEW i \in Slots, NEW g, Sound(g, i), Repeatable(g, i), NEW r \in Alter(g)
    PROVE  /\ Sound(r.game, i)
           /\ Steady(g) => Steady(r.game)
           /\ Alone(g) /\ g.queue.slot[i].code = "CMD_RUN" /\ g.history.twice =>
                  Going(r.game, i)
<1> DEFINE k == IF cmd_get_nrepeats(g.queue) = 0 THEN SetRepeat(g, AutoRepeat) ELSE g
<1>1. AutoRepeat \in 0 .. MostRepeats
  BY Numbers
<1>2. /\ Sound(k, i) /\ (Steady(g) => Steady(k)) /\ (Alone(g) => Alone(k))
      /\ k.queue.slot[i].code = g.queue.slot[i].code
      /\ k.history = g.history
  <2>1. CASE k = g
    BY <2>1, Zenon
  <2>2. CASE k = SetRepeat(g, AutoRepeat)
    BY <1>1, <2>2, SetRepeatSound, Zenon DEF Sound
  <2> QED
    BY <2>1, <2>2
<1>3. r = Turn(k) \/ r = Turn(Disturb(k))
  BY DEF Alter
<1> HIDE DEF k
<1>4. Alone(g) /\ g.queue.slot[i].code = "CMD_RUN" /\ g.history.twice => Going(k, i)
  BY <1>2, Zenon DEF Going
<1>5. Follows(r.game, k, i)
  <2>1. CASE r = Turn(k)
    BY <1>2, <2>1, ResultIs, Zenon DEF Follows
  <2>2. CASE r = Turn(Disturb(k))
    BY <1>2, <2>2, ResultIs, DisturbFollows, Zenon
  <2> QED
    BY <1>3, <2>1, <2>2
<1> QED
  BY <1>2, <1>4, <1>5, Zenon DEF Follows

\* What a command may leave behind: it goes on, or nothing does.
Left(m, i) == Sound(m, i) /\ Steady(m)

LEMMA WalkLeaves ==
    ASSUME NEW i \in Slots, NEW g, Left(g, i), Repeatable(g, i), NEW r \in Walk(g)
    PROVE  Left(r.game, i)
<1>1. CASE r = Free(g) \/ r = Turn(g)
  BY <1>1, ResultIs, Zenon
<1>2. CASE r \in move_player(g)
  BY <1>2, MoveFollows, Zenon DEF Left, Follows
<1>3. CASE r \in Alter(g)
  BY <1>3, AlterSound, Zenon DEF Left
<1> QED
  BY <1>1, <1>2, <1>3 DEF Walk

LEMMA WorkLeaves ==
    ASSUME NEW i \in Slots, NEW g, Left(g, i), NEW r \in Work(g) PROVE Left(r.game, i)
<1>1. r.game = g \/ r.game = Disturb(g)
  BY ResultIs DEF Work
<1> QED
  BY <1>1, DisturbFollows, Zenon DEF Left, Follows

\* The end of a run's step: the next one waits, or the run is over.
LEMMA OnwardLeaves ==
    ASSUME NEW i \in Slots, NEW g, Doing(g, i), Basis(g), Load(g, i), Going(g, i)
    PROVE  Left(Onward(g), i)
<1> DEFINE m == Onward(g)
<1>1. GameInv(g) /\ LastAside(g.queue) /\ QueueInv(g.queue) /\ WaitOK(g.queue)
  BY Zenon DEF Doing, GameInv, Basis
<1>2. /\ g.up \in Ups /\ g.history \in Histories /\ g.history.twice \in BOOLEAN
      /\ g.up.running \in 0 .. Larger(MaxRun, MostRepeats) /\ g.up.steps \in BOOLEAN
      /\ Larger(MaxRun, MostRepeats) \in Nat
  BY GameParts, HistoryTypes, UpTypes, Numbers, <1>1, Zenon DEF GameInv
<1>3. /\ Doing(m, i)
      /\ IF g.up.running = 0 /\ ~g.up.steps THEN m = g
         ELSE IF g.up.running > 1
         THEN /\ m.up = [g.up EXCEPT !.running = g.up.running - 1]
              /\ m.queue = StepQueue(g)
              /\ m.history = [g.history EXCEPT !.stuck = @ \/ Full(g.queue)]
         ELSE /\ m.up.running = 0 /\ ~m.up.steps /\ m.up.resting = g.up.resting
              /\ m.up.restDisturb = g.up.restDisturb
              /\ m.queue = g.queue /\ m.history = g.history
  BY <1>1, OnwardParts
<1> HIDE DEF m
<1>4. CASE g.up.running = 0 /\ ~g.up.steps
  <2>1. m = g
    BY <1>3, <1>4
  <2>2. Base(g) /\ Steady(g)
    BY <1>4 DEF Base, Steady
  <2> QED
    BY <1>3, <2>1, <2>2 DEF Left, Sound, m
<1>5. CASE ~(g.up.running = 0 /\ ~g.up.steps) /\ ~(g.up.running > 1)
  <2>1. /\ m.up.running = 0 /\ ~m.up.steps /\ m.up.resting = g.up.resting
        /\ m.up.restDisturb = g.up.restDisturb
        /\ m.queue = g.queue /\ m.history = g.history
    BY <1>3, <1>5
  <2>2. Has(g.queue, "CMD_RUN") => g.history.twice
    BY DEF Going, Alone, Small
  <2>3. Base(m)
    BY <2>1, <2>2, Zenon DEF Base, Basis
  <2>4. Steady(m) /\ Load(m, i)
    BY <2>1 DEF Steady, Load, Fits
  <2> QED
    BY <1>3, <2>3, <2>4 DEF Left, Sound, m
<1>6. CASE g.up.running > 1
  <2> DEFINE n == g.up.running - 1
             w == g.history.stuck \/ Full(g.queue)
  <2>1. /\ m.up = [g.up EXCEPT !.running = n] /\ m.queue = StepQueue(g)
        /\ m.history = [g.history EXCEPT !.stuck = w]
    <3>1. /\ m.up = [g.up EXCEPT !.running = n] /\ m.queue = StepQueue(g)
          /\ m.history = [g.history EXCEPT !.stuck = @ \/ Full(g.queue)]
      BY <1>3, <1>6
    <3> QED
      BY <3>1, Zenon
  <2>2. n > 0 /\ n \in 0 .. Larger(MaxRun, MostRepeats)
    BY <1>2, <1>6
  <2> HIDE DEF n, w
  <2>3. /\ m.up.running = n /\ m.up.resting = g.up.resting
        /\ m.up.restDisturb = g.up.restDisturb
    BY <1>2, <2>1, <2>2 DEF Ups
  <2>4. /\ m.history.stuck = w /\ m.history.twice = g.history.twice
        /\ m.history.given = g.history.given /\ m.history.cut = g.history.cut
        /\ m.history.behind = g.history.behind
    BY <1>2, <2>1, Zenon DEF Histories
  <2>5. /\ Adds(m.queue, g.queue, "CMD_RUN")
        /\ ~Full(g.queue) => Has(m.queue, "CMD_RUN")
    BY <1>1, <2>1, StepQueueAdds
  <2>6. "CMD_RUN" \in Goers /\ "CMD_REST" \in Goers /\ "CMD_PATHFIND" \in Goers
        /\ "CMD_REST" # "CMD_RUN" /\ "CMD_PATHFIND" # "CMD_RUN"
        /\ \A x \in Goers : x \notin Small
    BY DEF Goers, Small
  <2>7. \A x \in Goers : Has(g.queue, x) => x = "CMD_RUN" /\ g.history.twice
    BY <2>6, Zenon DEF Going, Alone
  <2>8. /\ WaitOK(m.queue)
        /\ \A x : Has(m.queue, x) => Has(g.queue, x) \/ x = "CMD_RUN"
    BY <1>1, <2>5, <2>6, MoreKeeps DEF Adds
  <2>9. Pairs(m.queue, m.history.twice)
    <3>1. More(m.queue, g.queue, "CMD_RUN") /\ Pairs(g.queue, g.history.twice)
      BY <2>5, Zenon DEF Adds, Basis
    <3>2. Pairs(m.queue, g.history.twice)
      BY <1>2, <2>7, <3>1, MorePairs
    <3> QED
      BY <2>4, <3>2
  <2>10. \A x \in Goers : Has(m.queue, x) => x = "CMD_RUN"
    BY <2>7, <2>8, Zenon
  <2>11. ~g.history.cut
    BY <1>6 DEF Basis
  <2>12. Kinds(m.queue)
    BY <2>5, Zenon DEF Adds, Basis
  <2>13. ~g.history.given
    BY Zenon DEF Basis
  <2>14. m.up.running # 0 /\ m.up.running > 0
    BY <2>2, <2>3
  <2>15. Base(m)
    BY <2>4, <2>6, <2>8, <2>9, <2>10, <2>11, <2>12, <2>13, <2>14, Zenon DEF Base, Basis
  <2>16. Steady(m)
    BY <2>4, <2>5 DEF Steady, w
  <2>17. Load(m, i)
    <3>1. SUFFICES ASSUME Loaded(m.queue, i)
                   PROVE  /\ ~m.history.cut /\ Behind(m.queue.tail) = i
                          /\ Repeats(m.queue.slot[i]) /\ Fits(m, m.queue.slot[i])
      BY Zenon DEF Load
    <3>2. /\ Loaded(g.queue, i) /\ m.queue.tail = g.queue.tail
          /\ m.queue.slot[i].code = g.queue.slot[i].code
          /\ m.queue.slot[i].arg = g.queue.slot[i].arg
      BY <2>5, <3>1, Zenon DEF Adds, StillLoaded, Load, LoadedFirst
    <3>3. /\ Behind(g.queue.tail) = i /\ Repeats(g.queue.slot[i])
      BY <3>2, Zenon DEF Load
    <3>4. g.queue.slot[i].code = "CMD_RUN" /\ g.history.twice
      BY <3>2, Zenon DEF Going
    <3>5. Fits(m, m.queue.slot[i])
      BY <2>4, <2>10, <3>2, <3>4, Zenon DEF Fits
    <3>6. Repeats(m.queue.slot[i])
      BY <3>2, <3>3 DEF Repeats
    <3> QED
      BY <2>4, <2>11, <3>2, <3>3, <3>5, <3>6
  <2> QED
    BY <1>3, <2>15, <2>16, <2>17 DEF Left, Sound, m
<1> QED
  BY <1>4, <1>5, <1>6

LEMMA RunMoveLeaves ==
    ASSUME NEW i \in Slots, NEW g, Sound(g, i), Going(g, i), NEW moves,
           \A r \in moves : Sound(r.game, i) /\ Going(r.game, i),
           NEW r \in RunMove(g, moves)
    PROVE  Left(r.game, i)
<1> DEFINE u == [g.up EXCEPT !.running = 0]
           h == [g EXCEPT !.up = u]
           halt == Free([g EXCEPT !.up.running = 0])
<1>1. GameInv(g) /\ g.up \in Ups
  BY GameParts DEF Sound, Doing, GameInv
<1>2. u \in Ups /\ u.running = 0 /\ u.resting = g.up.resting
      /\ u.restDisturb = g.up.restDisturb
  BY <1>1, Numbers DEF Ups
<1>3. halt.game = h
  BY ResultIs, Zenon
<1> HIDE DEF u
<1>4. h.queue = g.queue /\ h.up = u /\ h.history = g.history /\ Doing(h, i)
  BY <1>1, <1>2, WithUp DEF Sound
<1> HIDE DEF h
<1>5. Has(g.queue, "CMD_RUN") => g.history.twice
  BY DEF Going, Alone, Small
<1>6. Basis(h)
  BY <1>2, <1>4, <1>5, Zenon DEF Basis, Base, Sound
<1>7. Load(h, i) /\ Going(h, i)
  BY <1>4, Zenon DEF Sound, Load, Fits, Going, Alone
<1> HIDE DEF halt
<1>8. PICK k \in moves \cup {halt} : r = [k EXCEPT !.game = Onward(k.game)]
  BY Zenon DEF RunMove, halt
<1>9. Doing(k.game, i) /\ Basis(k.game) /\ Load(k.game, i) /\ Going(k.game, i)
  BY <1>3, <1>4, <1>6, <1>7, Zenon DEF Sound, Base
<1>10. r.game = Onward(k.game)
  BY <1>8
<1> QED
  BY <1>9, <1>10, OnwardLeaves

-----------------------------------------------------------------------------
(* A door or rubble in the way of a path.                                  *)

\* What is in the way is worked at first, and the path begins anew behind it.
DugQueue(q) ==
    /\ q.head # q.tail /\ q.slot[q.tail].code = "CMD_TUNNEL"
    /\ \A j \in Held(q) \ {q.tail} :
          /\ BySelf(q.slot[j])
          /\ \/ q.slot[j].code \in Small
             \/ q.slot[j].code = "CMD_PATHFIND" /\ j = Ahead(q.tail)

Dug(g) ==
    /\ ~g.history.given /\ ~g.history.cut /\ g.history.behind
    /\ ~g.queue.repeating /\ g.up.running = 0 /\ ~g.up.steps
    /\ Kinds(g.queue) /\ DugQueue(g.queue)

LEMMA PushDug ==
    ASSUME NEW q, QueueInv(q), Held(q) = {}, LastAside(q)
    PROVE  LET p == cmdq_push_copy(q, Command("CMD_TUNNEL", 0, 0))
               o == Background(p, 1)
               w == cmdq_push_copy(o, Command("CMD_PATHFIND", 0, 0))
           IN  /\ DugQueue(w) /\ (Kinds(q) => Kinds(w)) /\ w.repeating = q.repeating
               /\ \A i \in Slots : ~Loaded(q, i) => ~Loaded(w, i)
<1> DEFINE T == Command("CMD_TUNNEL", 0, 0)
           P == Command("CMD_PATHFIND", 0, 0)
           p == cmdq_push_copy(q, T)
           o == Background(p, 1)
           w == cmdq_push_copy(o, P)
<1>1. /\ "CMD_TUNNEL" \in Codes /\ "CMD_PATHFIND" \in Codes /\ 0 \in Special .. MaxRest
      /\ 0 \in 0 .. MostRepeats /\ 1 \in 0 .. 2
  BY Numbers DEF Codes
<1>2. /\ T \in Commands /\ T.code = "CMD_TUNNEL" /\ T.nrepeats = 0 /\ T.code # CMD_NULL
      /\ P \in Commands /\ P.code = "CMD_PATHFIND" /\ P.nrepeats = 0 /\ P.code # CMD_NULL
      /\ P.arg = 0
  BY <1>1, CommandTypes
<1>3. q \in Queues /\ Pointers(q) /\ q.repeating \in BOOLEAN /\ q.head \in Slots
      /\ q.slot \in [Slots -> Commands]
  BY QueueTypes DEF QueueInv
<1>4. q.head = q.tail /\ ~Full(q)
  BY <1>3, HeldSlots
<1>5. Adds(p, q, "CMD_TUNNEL")
  BY <1>1, PushAdds
<1>6. Kept(p, q) /\ p.head # p.tail
  BY <1>2, PushKeeps
<1>7. /\ p.slot = [q.slot EXCEPT ![q.head] = T] /\ p.head = Ahead(q.head)
      /\ p.tail = q.tail /\ (p.repeating <=> q.repeating) /\ Held(p) = {q.head}
  BY <1>2, <1>3, <1>4, PushParts
<1> HIDE DEF T, P, p
<1>8. QueueInv(p) /\ p \in Queues /\ Pointers(p) /\ LastAside(p) /\ p.repeating \in BOOLEAN
  BY <1>6, QueueTypes DEF Kept, QueueInv
<1> DEFINE n == Behind(p.head)
           c == [p.slot[n] EXCEPT !.background = 1]
<1>9. n = q.head /\ p.slot[n] = T
  BY <1>3, <1>6, <1>7, <1>8, HeldSlots
<1>10. /\ o = Changed(p, n, c, p.repeating) /\ c \in Commands /\ Alike(c, p.slot[n])
  BY <1>1, <1>8, BackgroundIs
<1> HIDE DEF c, o
<1>11. c.code = "CMD_TUNNEL" /\ c.nrepeats = 0
  BY <1>2, <1>9, <1>10, Zenon DEF Alike
<1> DEFINE s == [p.slot EXCEPT ![n] = c]
<1>12. /\ o.slot = s /\ o.head = p.head /\ o.tail = p.tail /\ o.copy = p.copy
       /\ o.repeating = p.repeating
  BY <1>10, Zenon DEF Changed, Record
<1>13. s[n] = c /\ n \in Slots
  BY <1>3, <1>8, <1>9, QueueTypes
<1> HIDE DEF s, n
<1>14. Adds(o, q, "CMD_TUNNEL")
  <2>1. QueueInv(p) /\ Alike(c, p.slot[Behind(p.head)]) /\ c.nrepeats = 0
        /\ o = Changed(p, Behind(p.head), c, p.repeating)
    BY <1>8, <1>10, <1>11 DEF n
  <2> QED
    BY <1>5, <1>6, <1>10, <2>1, NewestAdds
<1>15. /\ QueueInv(o) /\ o \in Queues /\ Pointers(o) /\ o.slot \in [Slots -> Commands]
  <2>1. Kept(o, p)
    <3>1. /\ c.code = p.slot[Behind(p.head)].code
          /\ c.nrepeats = p.slot[Behind(p.head)].nrepeats
          /\ o = Changed(p, Behind(p.head), c, p.repeating)
      BY <1>10, Zenon DEF Alike, n
    <3> QED
      BY <1>6, <1>8, <1>10, <3>1, NewestKeeps
  <2> QED
    BY <2>1, QueueTypes DEF Kept, QueueInv
<1>16. Held(o) = {o.tail} /\ o.slot[o.tail].code = "CMD_TUNNEL" /\ o.head = Ahead(o.tail)
       /\ o.head # o.tail
  <2>1. Held(o) = Held(p)
    BY <1>12 DEF Held
  <2> QED
    BY <1>4, <1>6, <1>7, <1>9, <1>11, <1>12, <1>13, <2>1
<1>17. Adds(w, o, "CMD_PATHFIND")
  BY <1>1, <1>15, PushAdds DEF P
<1>18. DugQueue(w) /\ w.repeating = o.repeating
  <2>1. CASE Full(o)
    <3>1. w = o
      BY <2>1 DEF cmdq_push_copy
    <3> QED
      BY <1>16, <3>1 DEF DugQueue
  <2>2. CASE ~Full(o)
    <3>1. /\ w.slot = [o.slot EXCEPT ![o.head] = P] /\ w.tail = o.tail
          /\ (w.repeating <=> o.repeating) /\ Held(w) = Held(o) \cup {o.head}
          /\ w.head # w.tail /\ w \in Queues
      BY <1>2, <1>15, <2>2, PushParts
    <3>2. w.repeating \in BOOLEAN /\ o.repeating \in BOOLEAN
      BY <1>15, <3>1, QueueTypes
    <3> HIDE DEF w
    <3>3. w.slot[o.head] = P /\ w.slot[o.tail] = o.slot[o.tail]
      BY <1>15, <1>16, <3>1 DEF Pointers
    <3>4. BySelf(P)
      BY <1>2 DEF BySelf, Goers
    <3>5. DugQueue(w)
      BY <1>2, <1>16, <3>1, <3>3, <3>4 DEF DugQueue
    <3> QED
      BY <3>1, <3>2, <3>5
  <2> QED
    BY <2>1, <2>2
<1>19. w.repeating = q.repeating
  BY <1>3, <1>7, <1>8, <1>12, <1>18
<1>20. Kinds(q) => Kinds(w)
  BY <1>14, <1>17, Zenon DEF Adds
<1>21. ASSUME NEW i \in Slots, ~Loaded(q, i) PROVE ~Loaded(w, i)
  <2>1. ~Loaded(o, i)
    BY <1>14, <1>21, Zenon DEF Adds, StillLoaded, LoadedFirst
  <2> QED
    BY <1>17, <2>1, Zenon DEF Adds, StillLoaded, LoadedFirst
<1> HIDE DEF w
<1>22. DugQueue(w) /\ (Kinds(q) => Kinds(w)) /\ w.repeating = q.repeating
       /\ \A i \in Slots : ~Loaded(q, i) => ~Loaded(w, i)
  BY <1>18, <1>19, <1>20, <1>21
<1> QED
  BY <1>22 DEF w, o, p, T, P

LEMMA ClearDug ==
    ASSUME NEW i \in Slots, NEW g, Doing(g, i), Base(g), g.up.running > 0
    PROVE  Doing(Clear(g), i) /\ Dug(Clear(g)) /\ ~Loaded(Clear(g).queue, i)
<1> DEFINE d == Disturb(g)
           p == Push(d, "CMD_TUNNEL", 0)
           open == SideEffect(p, 1)
           w == Push(open, "CMD_PATHFIND", 0)
           h == [w.history EXCEPT !.behind = TRUE, !.cut = FALSE]
           m == [w EXCEPT !.history = h]
<1>1. /\ "CMD_TUNNEL" \in Codes /\ "CMD_PATHFIND" \in Codes /\ 0 \in Special .. MaxRest
      /\ 1 \in 0 .. 2
  BY Numbers DEF Codes
<1>2. /\ Doing(d, i) /\ GameInv(d) /\ Ended(d, i) /\ LastAside(d.queue) /\ QueueInv(d.queue)
  BY DisturbEnds, Zenon DEF Doing, GameInv
<1>3. Held(d.queue) = {}
  BY DisturbParts DEF Doing
<1> HIDE DEF d
<1>4. /\ Doing(p, i) /\ GameInv(p) /\ p.queue.head # p.queue.tail /\ LastAside(p.queue)
      /\ p.queue = cmdq_push_copy(d.queue, Command("CMD_TUNNEL", 0, 0))
      /\ p.up = d.up /\ p.history = d.history
  BY <1>1, <1>2, PushGame DEF Doing
<1> HIDE DEF p
<1>5. /\ Doing(open, i) /\ GameInv(open) /\ open.queue = Background(p.queue, 1)
      /\ open.up = p.up /\ open.history = p.history
  BY <1>1, <1>4, SideEffectGame DEF Doing
<1> HIDE DEF open
<1>6. /\ Doing(w, i) /\ GameInv(w) /\ w.up = open.up /\ w.history = open.history
      /\ w.queue = cmdq_push_copy(open.queue, Command("CMD_PATHFIND", 0, 0))
  BY <1>1, <1>5, PushGame DEF Doing
<1>7. Clear(g) = m
  BY Zenon DEF Clear, open, p, d
<1> HIDE DEF w
<1>8. w.history \in Histories
  BY <1>6, GameParts DEF GameInv
<1>9. h \in Histories /\ h.last = w.history.last
  BY <1>8 DEF Histories
<1>10. h.behind /\ ~h.cut /\ h.given = w.history.given
  BY <1>8 DEF Histories
<1> HIDE DEF h
<1>11. Doing(m, i) /\ m.queue = w.queue /\ m.up = w.up /\ m.history = h
  BY <1>6, <1>9, WithHistory
<1> HIDE DEF m
<1>12. /\ DugQueue(m.queue) /\ (Kinds(d.queue) => Kinds(m.queue))
       /\ m.queue.repeating = d.queue.repeating
       /\ ~Loaded(d.queue, i) => ~Loaded(m.queue, i)
  BY <1>2, <1>3, <1>4, <1>5, <1>6, <1>11, PushDug
<1>13. /\ m.up.running = 0 /\ ~m.up.steps /\ ~m.history.given
       /\ Kinds(m.queue) /\ ~m.queue.repeating /\ ~Loaded(m.queue, i)
  <2>1. m.up = d.up /\ ~d.history.given /\ Kinds(d.queue)
    BY <1>2, <1>4, <1>5, <1>6, <1>11, Zenon DEF Ended, Base, Basis
  <2> QED
    BY <1>2, <1>4, <1>5, <1>6, <1>10, <1>11, <1>12, <2>1, Zenon DEF Ended
<1>14. Dug(m)
  BY <1>10, <1>11, <1>12, <1>13, Zenon DEF Dug
<1> QED
  BY <1>7, <1>11, <1>13, <1>14

\* What a command may lead to: it goes on, or nothing does; or, without a turn, what is
\* in the way of the path is to be worked at.
After(r, i) ==
    \/ Left(r.game, i)
    \/ ~r.energy /\ Doing(r.game, i) /\ Dug(r.game) /\ ~Loaded(r.game.queue, i)

LEMMA LeavesAfter == ASSUME NEW i, NEW r, Left(r.game, i) PROVE After(r, i)
  BY DEF After

LEMMA DisturbLeaves ==
    ASSUME NEW i \in Slots, NEW g, Sound(g, i) PROVE Left(Disturb(g), i)
<1>1. Doing(Disturb(g), i) /\ Ended(Disturb(g), i)
  BY DisturbEnds DEF Sound
<1> QED
  BY <1>1, Zenon DEF Left, Sound, Ended, Load

\* A path is found, and begun.
LEMMA SetsOut ==
    ASSUME NEW i \in Slots, NEW g, Sound(g, i), ~g.history.cut
    PROVE  LET m == [g EXCEPT !.up.steps = TRUE, !.up.running = MaxRun]
           IN  Sound(m, i) /\ (Going(g, i) => Going(m, i))
<1> DEFINE u == [[g.up EXCEPT !.steps = TRUE] EXCEPT !.running = MaxRun]
           m == [g EXCEPT !.up = u]
<1>8. m = [g EXCEPT !.up.steps = TRUE, !.up.running = MaxRun]
  BY Zenon
<1>1. GameInv(g) /\ g.up \in Ups
  BY GameParts DEF Sound, Doing, GameInv
<1>2. MaxRun \in 0 .. Larger(MaxRun, MostRepeats) /\ MaxRun > 0 /\ MaxRun # 0
  BY Numbers
<1>3. u \in Ups /\ u.running = MaxRun /\ u.resting = g.up.resting
  BY <1>1, <1>2 DEF Ups
<1>4. u.restDisturb = g.up.restDisturb
  BY <1>1, Zenon DEF Ups
<1> HIDE DEF u
<1>5. m.queue = g.queue /\ m.up = u /\ m.history = g.history /\ Doing(m, i)
  BY <1>1, <1>3, WithUp DEF Sound
<1> HIDE DEF m
<1>6. Base(m)
  BY <1>2, <1>3, <1>4, <1>5 DEF Sound, Base, Basis
<1>7. Load(m, i) /\ (Going(g, i) => Going(m, i))
  BY <1>5, Zenon DEF Sound, Load, Fits, Going, Alone
<1> QED
  BY <1>5, <1>6, <1>7, <1>8, Zenon DEF Sound

LEMMA RunOnAfter ==
    ASSUME NEW i \in Slots, NEW g, Sound(g, i), Going(g, i), NEW r \in RunOn(g)
    PROVE  After(r, i)
<1> DEFINE u == [g.up EXCEPT !.steps = FALSE]
           straight == [g EXCEPT !.up = u]
<1>1. GameInv(g) /\ g.up \in Ups
  BY GameParts DEF Sound, Doing, GameInv
<1>2. u \in Ups /\ u.running = g.up.running /\ u.resting = g.up.resting
  BY <1>1 DEF Ups
<1>3. ~u.steps /\ u.restDisturb = g.up.restDisturb
  BY <1>1, Zenon DEF Ups
<1>4. straight = [g EXCEPT !.up.steps = FALSE]
  BY Zenon
<1> HIDE DEF u
<1>5. /\ straight.queue = g.queue /\ straight.up = u /\ straight.history = g.history
      /\ Doing(straight, i)
  BY <1>1, <1>2, WithUp DEF Sound
<1> HIDE DEF straight
<1>6. Sound(straight, i) /\ Going(straight, i)
  BY <1>2, <1>3, <1>5, Zenon DEF Sound, Base, Basis, Load, Fits, Going, Alone
<1>7. ASSUME NEW k, Sound(k, i), Going(k, i), NEW x \in RunMove(k, move_player(k))
      PROVE  Left(x.game, i)
  <2>1. \A y \in move_player(k) : Sound(y.game, i) /\ Going(y.game, i)
    BY <1>7, MoveFollows DEF Follows
  <2> QED
    BY <1>7, <2>1, RunMoveLeaves
<1>8. CASE r = Free(Disturb(g))
  BY <1>8, DisturbLeaves, ResultIs, LeavesAfter
<1>9. CASE r \in RunMove(g, move_player(g))
  BY <1>7, <1>9, LeavesAfter
<1>10. CASE g.up.steps /\ r \in RunMove(straight, move_player(straight))
  BY <1>6, <1>7, <1>10, LeavesAfter
<1>11. CASE g.up.steps /\ r = Free(Clear(g))
  <2>1. Doing(g, i) /\ Base(g) /\ g.up.running > 0
    BY <1>11, Zenon DEF Sound, Base
  <2>2. Doing(Clear(g), i) /\ Dug(Clear(g)) /\ ~Loaded(Clear(g).queue, i)
    BY <2>1, ClearDug
  <2>3. r.game = Clear(g) /\ ~r.energy
    BY <1>11, Zenon DEF Free, Result
  <2> QED
    BY <2>2, <2>3 DEF After
<1> QED
  BY <1>4, <1>8, <1>9, <1>10, <1>11, Zenon DEF RunOn

\* A step in a web is not put in.
LEMMA WebLeaves ==
    ASSUME NEW i \in Slots, NEW g, Sound(g, i)
    PROVE  Left([g EXCEPT !.history.stuck = g.up.running > 0], i)
<1> DEFINE w == g.up.running > 0
           h == [g.history EXCEPT !.stuck = w]
           m == [g EXCEPT !.history = h]
<1>1. GameInv(g) /\ g.history \in Histories
  BY GameParts DEF Sound, Doing, GameInv
<1>2. w \in BOOLEAN
  OBVIOUS
<1>3. m = [g EXCEPT !.history.stuck = g.up.running > 0]
  BY Zenon
<1> HIDE DEF w
<1>4. /\ h \in Histories /\ h.last = g.history.last
      /\ h.stuck = w /\ h.given = g.history.given /\ h.cut = g.history.cut
      /\ h.twice = g.history.twice /\ h.behind = g.history.behind
  <2>1. h.stuck = w
    BY <1>1, Zenon DEF Histories
  <2>2. h.given = g.history.given /\ h.cut = g.history.cut /\ h.twice = g.history.twice
        /\ h.behind = g.history.behind
    BY <1>1, Zenon DEF Histories
  <2>3. h \in Histories /\ h.last = g.history.last
    BY <1>1, <1>2 DEF Histories
  <2> QED
    BY <2>1, <2>2, <2>3
<1> HIDE DEF h
<1>5. /\ Doing(m, i) /\ m.queue = g.queue /\ m.up = g.up /\ m.history = h
  BY <1>1, <1>4, WithHistory DEF Sound
<1> HIDE DEF m
<1>6. Base(m) /\ Load(m, i)
  BY <1>4, <1>5, Zenon DEF Sound, Base, Basis, Load, Fits
<1>7. Steady(m)
  BY <1>4, <1>5, Zenon DEF Steady, w
<1> QED
  BY <1>3, <1>5, <1>6, <1>7, Zenon DEF Left, Sound

\* The count of a run is taken for its length.
LEMMA TakeCountLeaves ==
    ASSUME NEW q, QueueInv(q)
    PROVE  LET i == Behind(q.tail)
               r == [q EXCEPT !.slot[i].nrepeats = 0]
           IN  /\ r.tail = q.tail /\ Held(r) = Held(q) /\ r.copy = q.copy
               /\ r.repeating = q.repeating
               /\ \A j \in Slots \ {i} : r.slot[j] = q.slot[j]
               /\ \A j \in Held(q) : r.slot[j] = q.slot[j]
               /\ r.slot[i].code = q.slot[i].code /\ r.slot[i].arg = q.slot[i].arg
               /\ r.slot[i].nrepeats = 0
<1> DEFINE i == Behind(q.tail)
           r == [q EXCEPT !.slot[i].nrepeats = 0]
           c == [q.slot[i] EXCEPT !.nrepeats = 0]
           s == [q.slot EXCEPT ![i] = c]
<1>1. /\ q \in Queues /\ q.slot \in [Slots -> Commands] /\ Pointers(q) /\ i \in Slots
      /\ q.slot[i] \in Commands
  BY QueueTypes, Zenon DEF QueueInv
<1>2. i \notin Held(q) /\ \A j \in Held(q) : j \in Slots
  BY <1>1, HeldSlots DEF Held
<1>3. r = [q EXCEPT !.slot = s]
  BY Zenon
<1>4. 0 \in 0 .. MostRepeats
  BY Numbers
<1>5. c.code = q.slot[i].code /\ c.arg = q.slot[i].arg /\ c.nrepeats = 0
  BY <1>1, <1>4, NumberTypes
<1> HIDE DEF c
<1>6. s[i] = c /\ \A j \in Slots \ {i} : s[j] = q.slot[j]
  BY <1>1
<1> HIDE DEF s, r
<1>7. r = Record(s, q.head, q.tail, q.last, q.copy, q.allowed, q.repeating)
  BY <1>1, <1>3, SlotIs
<1>8. /\ r.slot = s /\ r.head = q.head /\ r.tail = q.tail /\ r.copy = q.copy
      /\ r.repeating = q.repeating
  BY <1>7, Zenon DEF Record
<1>9. Held(r) = Held(q)
  BY <1>8 DEF Held
<1> QED
  BY <1>2, <1>5, <1>6, <1>8, <1>9 DEF r

\* So may steps of a run that is begun twice wait.
LEMMA TwicePairs ==
    ASSUME NEW q, NEW r, Held(r) = Held(q), \A j \in Held(q) : r.slot[j] = q.slot[j],
           NEW twice, NEW more, Pairs(q, twice), twice => more
    PROVE  Pairs(r, more)
  BY DEF Pairs

LEMMA RunFromAfter ==
    ASSUME NEW i \in Slots, NEW g, Left(g, i), Repeatable(g, i), Alone(g),
           g.queue.slot[i].code = "CMD_RUN", NEW r \in RunFrom(g)
    PROVE  After(r, i)
<1> DEFINE j == Behind(g.queue.tail)
           n == g.queue.slot[j].nrepeats
           k == IF n > 0 THEN n ELSE MaxRun
           q == [g.queue EXCEPT !.slot[j].nrepeats = 0]
           w == g.history.twice \/ g.queue.repeating
           h == [g.history EXCEPT !.twice = @ \/ g.queue.repeating]
           u == [g.up EXCEPT !.running = k]
           s1 == [g EXCEPT !.queue = q]
           s2 == [s1 EXCEPT !.history = h]
           s3 == [s2 EXCEPT !.up = u]
           h2 == [h EXCEPT !.twice = TRUE]
           s4 == [s3 EXCEPT !.history = h2]
           start == [g EXCEPT !.queue.slot[j].nrepeats = 0,
                              !.history.twice = @ \/ g.queue.repeating,
                              !.up.running = k]
<1>1. /\ Doing(g, i) /\ GameInv(g) /\ g.up \in Ups /\ g.history \in Histories
      /\ QueueInv(g.queue) /\ Base(g)
  BY GameParts, Zenon DEF Left, Sound, Doing, GameInv
<1>2. Kept(q, g.queue) /\ n \in 0 .. MostRepeats
  BY <1>1, TakeCountKeeps
<1>3. start = s3
  BY Zenon
<1>4. RunFrom(g) = {Free(g), Free(Disturb(g))}
            \cup RunMove(start, move_player(start)
                                    \cup Alter([start EXCEPT !.history.twice = TRUE]))
  BY Zenon DEF RunFrom
<1>5. k \in 0 .. Larger(MaxRun, MostRepeats) /\ k > 0
  BY <1>2, Numbers
<1>6. j = i
  BY Zenon DEF Repeatable
<1>7. /\ q.tail = g.queue.tail /\ Held(q) = Held(g.queue) /\ q.copy = g.queue.copy
      /\ q.repeating = g.queue.repeating
      /\ \A x \in Slots \ {i} : q.slot[x] = g.queue.slot[x]
      /\ \A x \in Held(g.queue) : q.slot[x] = g.queue.slot[x]
      /\ q.slot[i].code = g.queue.slot[i].code /\ q.slot[i].arg = g.queue.slot[i].arg
      /\ q.slot[i].nrepeats = 0
  BY <1>1, <1>6, TakeCountLeaves
<1> HIDE DEF k, q, start
<1>8. /\ u \in Ups /\ u.running = k
  BY <1>1, <1>5, RunningTypes
<1>9. /\ h \in Histories /\ h.last = g.history.last
      /\ (h.twice <=> w) /\ h.given = g.history.given /\ h.cut = g.history.cut
      /\ h.behind = g.history.behind
  <2>1. h = [g.history EXCEPT !.twice = w]
    BY Zenon
  <2>2. w \in BOOLEAN
    OBVIOUS
  <2> HIDE DEF w, h
  <2>3. h \in Histories /\ h.last = g.history.last
    BY <1>1, <2>1, <2>2 DEF Histories
  <2>4. h.given = g.history.given /\ h.cut = g.history.cut /\ h.behind = g.history.behind
        /\ h.twice = w
    BY <1>1, <2>1, Zenon DEF Histories
  <2> QED
    BY <2>3, <2>4
<1>10. /\ h2 \in Histories /\ h2.last = h.last /\ h2.twice
       /\ h2.given = g.history.given /\ h2.cut = g.history.cut
       /\ h2.behind = g.history.behind
  <2> HIDE DEF h
  <2> QED
    BY <1>9 DEF Histories
<1> HIDE DEF u, h, h2
<1>11. Doing(s1, i) /\ GameInv(s1) /\ s1.history = g.history /\ s1.queue = q
  <2>1. s1 = OnQueue(g, q)
    BY Zenon DEF OnQueue
  <2> QED
    BY <1>1, <1>2, <2>1, OnQueueParts
<1> HIDE DEF s1
<1>12. Doing(s2, i) /\ GameInv(s2) /\ s2.history = h /\ s2.queue = q
  BY <1>9, <1>11, WithHistory
<1> HIDE DEF s2
<1>13. Doing(s3, i) /\ GameInv(s3) /\ s3.history = h /\ s3.queue = q /\ s3.up = u
  BY <1>8, <1>12, WithUp
<1> HIDE DEF s3
<1>14. Doing(s4, i) /\ s4.history = h2 /\ s4.queue = q /\ s4.up = u
  BY <1>9, <1>10, <1>13, WithHistory
<1>15. [start EXCEPT !.history.twice = TRUE] = s4
  BY <1>3, <1>13, Zenon DEF h2
<1> HIDE DEF s4
<1>16. ASSUME NEW m, Doing(m, i), m.queue = q, m.up = u, m.history = h \/ m.history = h2
       PROVE  /\ Sound(m, i) /\ Repeatable(m, i) /\ Alone(m)
              /\ w => m.history.twice
  <2>1. /\ w => m.history.twice
        /\ g.history.twice => m.history.twice
        /\ m.history.given = g.history.given /\ m.history.cut = g.history.cut
        /\ m.history.behind = g.history.behind
    BY <1>9, <1>10, <1>16 DEF w
  <2>2. \A x : Has(q, x) <=> Has(g.queue, x)
    BY <1>7, Zenon DEF Has
  <2>3. WaitOK(q) /\ Pairs(q, m.history.twice)
    <3>1. WaitOK(g.queue) /\ Pairs(g.queue, g.history.twice)
      BY <1>1, Zenon DEF Base, Basis
    <3>2. WaitOK(q)
      BY <1>7, <3>1, Zenon DEF WaitOK
    <3> QED
      BY <1>7, <2>1, <3>1, <3>2, TwicePairs
  <2>4. Kinds(q)
    <3>1. Kinds(g.queue)
      BY <1>1, Zenon DEF Base, Basis
    <3> QED
      BY <1>7, <3>1 DEF Kinds
  <2>5. ~g.history.cut /\ u.running > 0 /\ u.running # 0
    BY <1>5, <1>8 DEF Repeatable
  <2>6. Has(q, "CMD_REST") => FALSE
    BY <2>2 DEF Alone, Small
  <2>7. Has(q, "CMD_PATHFIND") => FALSE
    BY <2>2 DEF Alone, Small
  <2>8. ~m.history.given
    BY <1>1, <2>1 DEF Base, Basis
  <2>9. Base(m)
    BY <1>16, <2>1, <2>3, <2>4, <2>5, <2>6, <2>7, <2>8, Zenon DEF Base, Basis
  <2>10. Alone(m)
    BY <1>16, <2>1, <2>2, Zenon DEF Alone
  <2>11. Repeatable(m, i)
    <3>1. Fits(g, g.queue.slot[i]) /\ Repeats(g.queue.slot[i])
          /\ Behind(g.queue.tail) = i
      BY Zenon DEF Repeatable
    <3>2. Fits(m, m.queue.slot[i])
      BY <1>7, <1>16, <2>1, <2>2, <3>1, Zenon DEF Fits
    <3>3. Repeats(m.queue.slot[i])
      BY <1>7, <1>16, <3>1 DEF Repeats
    <3> QED
      BY <1>7, <1>16, <2>1, <2>5, <3>1, <3>2, <3>3, Zenon DEF Repeatable
  <2>12. Load(m, i)
    BY <2>11, Zenon DEF Load, Repeatable
  <2> QED
    BY <1>16, <2>1, <2>9, <2>10, <2>11, <2>12 DEF Sound
<1>17. Sound(start, i) /\ Alone(start) /\ (w => start.history.twice) /\ start.queue = q
  BY <1>3, <1>13, <1>16
<1>18. Sound(s4, i) /\ Repeatable(s4, i) /\ Alone(s4)
  BY <1>14, <1>16
<1>19. Going(start, i)
  <2>1. Loaded(q, i) => w
    BY <1>7 DEF Loaded, w
  <2> QED
    BY <1>7, <1>17, <2>1, Zenon DEF Going
<1> DEFINE moves == move_player(start) \cup Alter(s4)
<1>20. ASSUME NEW x \in moves PROVE Sound(x.game, i) /\ Going(x.game, i)
  <2>1. CASE x \in move_player(start)
    BY <1>17, <1>19, <2>1, MoveFollows, Zenon DEF Follows
  <2>2. CASE x \in Alter(s4)
    <3>1. s4.queue.slot[i].code = "CMD_RUN" /\ s4.history.twice
      BY <1>7, <1>10, <1>14
    <3> QED
      BY <1>18, <2>2, <3>1, AlterSound, Zenon
  <2> QED
    BY <1>20, <2>1, <2>2
<1> HIDE DEF moves
<1>21. CASE r \in RunMove(start, moves)
  BY <1>17, <1>19, <1>20, <1>21, RunMoveLeaves, LeavesAfter
<1>22. CASE r = Free(g) \/ r = Free(Disturb(g))
  <2>1. r.game = g \/ r.game = Disturb(g)
    BY <1>22, ResultIs, Zenon
  <2>2. Left(r.game, i)
    BY <2>1, DisturbLeaves DEF Left
  <2> QED
    BY <2>2, LeavesAfter
<1> QED
  BY <1>4, <1>15, <1>21, <1>22, Zenon DEF moves

LEMMA PathfindAfter ==
    ASSUME NEW i \in Slots, NEW g, Left(g, i), Bare(g), ~g.history.cut,
           ~Loaded(g.queue, i), NEW r \in Pathfind(g)
    PROVE  After(r, i)
<1> DEFINE none == [g.up EXCEPT !.steps = FALSE]
           quits == [g EXCEPT !.up = none]
           goes == [g EXCEPT !.up.steps = TRUE, !.up.running = MaxRun]
<1>1. /\ Sound(g, i) /\ Steady(g) /\ GameInv(g) /\ g.up \in Ups
  BY GameParts, Zenon DEF Left, Sound, Doing, GameInv
<1>2. Pathfind(g) = {Free(g), Free(quits)} \cup RunOn(goes)
  BY Zenon DEF Pathfind
<1>3. Going(g, i)
  BY Zenon DEF Going, Alone, Bare
<1>4. CASE r = Free(g)
  BY <1>4, ResultIs, LeavesAfter, Zenon
<1>5. CASE r \in RunOn(goes)
  <2>1. Sound(goes, i) /\ (Going(g, i) => Going(goes, i))
    BY <1>1, SetsOut
  <2> HIDE DEF goes
  <2> QED
    BY <1>3, <1>5, <2>1, RunOnAfter
<1>6. CASE r = Free(quits)
  <2>1. none \in Ups /\ none.running = g.up.running /\ none.resting = g.up.resting
    BY <1>1 DEF Ups
  <2>2. ~none.steps /\ none.restDisturb = g.up.restDisturb
    BY <1>1, Zenon DEF Ups
  <2> HIDE DEF none
  <2>3. quits.queue = g.queue /\ quits.up = none /\ quits.history = g.history
        /\ Doing(quits, i)
    BY <1>1, <2>1, WithUp DEF Sound
  <2> HIDE DEF quits
  <2>4. Base(quits) /\ Load(quits, i)
    BY <1>1, <2>1, <2>2, <2>3, Zenon DEF Sound, Base, Basis, Load, Fits
  <2>5. Steady(quits)
    BY <1>1, <2>1, <2>3 DEF Steady
  <2>6. r.game = quits
    BY <1>6, ResultIs, Zenon
  <2> QED
    BY <2>3, <2>4, <2>5, <2>6, LeavesAfter DEF Left, Sound
<1> QED
  BY <1>2, <1>4, <1>5, <1>6

LEMMA RestLeaves ==
    ASSUME NEW i \in Slots, NEW g, Left(g, i), Bare(g),
           g.history.cut => g.up.restDisturb, ~Loaded(g.queue, i),
           NEW n \in Special .. MaxRest, NEW r \in Rest(g, n)
    PROVE  Left(r.game, i)
<1> DEFINE m == r.game
<1>1. /\ Doing(g, i) /\ GameInv(g) /\ LastAside(g.queue) /\ QueueInv(g.queue)
      /\ Base(g) /\ Steady(g) /\ WaitOK(g.queue) /\ g.history.twice \in BOOLEAN
      /\ Pairs(g.queue, g.history.twice)
  BY GameParts, HistoryTypes, Zenon DEF Left, Sound, Doing, GameInv, Base, Basis
<1>2. /\ Doing(m, i) /\ m.history = g.history
      /\ m.up.running = g.up.running /\ m.up.steps = g.up.steps
      /\ g.up.restDisturb => m.up.resting = 0
      /\ \/ m.queue = g.queue
         \/ /\ m.up.resting # 0
            /\ \E a \in Special .. MaxRest :
                  m.queue = Argument(cmdq_push_copy(g.queue, Command("CMD_REST", 0, 0)), a)
  BY <1>1, RestParts
<1> HIDE DEF m
<1>3. "CMD_REST" \in Goers /\ "CMD_RUN" \notin Small /\ "CMD_REST" \notin Small
      /\ "CMD_PATHFIND" \notin Small /\ \A x \in Goers : x \notin Small
  BY DEF Goers, Small
<1>4. /\ ~Has(g.queue, "CMD_RUN") /\ ~Has(g.queue, "CMD_REST")
      /\ ~Has(g.queue, "CMD_PATHFIND") /\ \A x \in Goers : ~Has(g.queue, x)
  BY <1>3 DEF Bare
<1>5. g.history.cut => g.up.running = 0 /\ m.up.resting = 0
  BY <1>1, <1>2 DEF Base, Basis
<1>6. /\ WaitOK(m.queue) /\ Pairs(m.queue, m.history.twice) /\ Kinds(m.queue)
      /\ ~Has(m.queue, "CMD_RUN") /\ ~Has(m.queue, "CMD_PATHFIND")
      /\ Has(m.queue, "CMD_REST") => m.up.resting # 0
      /\ ~Loaded(m.queue, i)
  <2>1. CASE m.queue = g.queue
    BY <1>1, <1>2, <1>4, <2>1, Zenon DEF Base, Basis
  <2>2. CASE ~(m.queue = g.queue)
    <3>1. PICK a \in Special .. MaxRest :
             m.queue = Argument(cmdq_push_copy(g.queue, Command("CMD_REST", 0, 0)), a)
      BY <1>2, <2>2
    <3>2. NoRun(g.queue, "CMD_REST", a)
      BY <1>4 DEF NoRun
    <3>3. Adds(m.queue, g.queue, "CMD_REST") /\ WaitOK(m.queue)
      BY <1>1, <1>3, <3>1, <3>2, PushWithAdds
    <3>4. More(m.queue, g.queue, "CMD_REST") /\ Kinds(m.queue)
      BY <1>1, <3>3, Zenon DEF Adds, Base, Basis
    <3>5. \A x : Has(m.queue, x) => Has(g.queue, x) \/ x = "CMD_REST"
      BY <3>4, MoreKeeps
    <3>6. Pairs(m.queue, g.history.twice)
      BY <1>1, <1>4, <3>4, MorePairs
    <3>7. ~Loaded(m.queue, i)
      BY <3>3, Zenon DEF Adds, StillLoaded, LoadedFirst
    <3>8. ~Has(m.queue, "CMD_RUN") /\ ~Has(m.queue, "CMD_PATHFIND")
      BY <1>4, <3>5
    <3> QED
      BY <1>2, <2>2, <3>3, <3>4, <3>6, <3>7, <3>8
  <2> QED
    BY <2>1, <2>2
<1>7. Base(m)
  BY <1>1, <1>2, <1>5, <1>6, Zenon DEF Base, Basis
<1>8. Steady(m)
  BY <1>1, <1>2, <1>4 DEF Steady
<1>9. Load(m, i)
  BY <1>6, Zenon DEF Load
<1> QED
  BY <1>2, <1>7, <1>8, <1>9 DEF Left, Sound, m

\* How a command is begun, in the slot it was taken from.
Begins(g, i, c) ==
    /\ Sound(g, i) /\ g.queue.slot[i].code = c.code
    /\ Repeats(c) => Repeatable(g, i)
    /\ c.code = "CMD_RUN" /\ c.arg = 0 => Alone(g) /\ ~Loaded(g.queue, i)
    /\ ~(c.code = "CMD_RUN" /\ c.arg = 0) => Steady(g)
    /\ c.code \in {"CMD_PATHFIND", "CMD_REST"} => Bare(g) /\ ~Loaded(g.queue, i)
    /\ c.code = "CMD_PATHFIND" => ~g.history.cut
    /\ c.code = "CMD_REST" => (g.history.cut => g.up.restDisturb)

LEMMA RunAfter ==
    ASSUME NEW i \in Slots, NEW g, NEW c, Begins(g, i, c), c.code = "CMD_RUN",
           NEW r \in Run(g, c.arg)
    PROVE  After(r, i)
<1>1. Sound(g, i) /\ g.queue.slot[i].code = "CMD_RUN"
  BY Zenon DEF Begins
<1>2. CASE r = Turn([g EXCEPT !.history.stuck = g.up.running > 0])
  BY <1>1, <1>2, WebLeaves, ResultIs, LeavesAfter
<1>3. CASE c.arg = 0 /\ r \in RunOn(g)
  <2>1. Going(g, i)
    BY <1>3, Zenon DEF Begins, Going
  <2> QED
    BY <1>1, <1>3, <2>1, RunOnAfter
<1>4. CASE c.arg # 0 /\ r \in RunFrom(g)
  <2>1. Steady(g) /\ Repeatable(g, i)
    BY <1>4 DEF Begins, Repeats
  <2>2. Alone(g)
    <3>1. WaitOK(g.queue)
      BY <1>1, Zenon DEF Sound, Base, Basis
    <3>2. \A x : Has(g.queue, x) => x \in Small \cup Goers
      BY <3>1, Zenon DEF Has, WaitOK, BySelf
    <3>3. \A x \in Goers : Has(g.queue, x) => x = "CMD_RUN" /\ g.history.twice
      BY <1>1, <2>1 DEF Repeatable, Fits
    <3> QED
      BY <3>2, <3>3 DEF Alone
  <2> QED
    BY <1>1, <1>4, <2>1, <2>2, RunFromAfter DEF Left
<1> QED
  BY <1>2, <1>3, <1>4 DEF Run

LEMMA DoesAfter ==
    ASSUME NEW i \in Slots, NEW g, NEW c \in Commands, c.code \in Codes, Begins(g, i, c),
           NEW r \in Does(g, c)
    PROVE  After(r, i)
<1>1. Sound(g, i)
  BY Zenon DEF Begins
<1>2. ASSUME c.code # "CMD_RUN" PROVE Left(g, i)
  BY <1>1, <1>2, Zenon DEF Begins, Left
<1>3. CASE c.code = "CMD_WALK"
  <2>1. r \in Walk(g) /\ Repeatable(g, i)
    BY <1>3 DEF Does, Begins, Repeats
  <2> QED
    BY <1>2, <1>3, <2>1, WalkLeaves, LeavesAfter
<1>4. CASE c.code = "CMD_RUN"
  <2>1. r \in Run(g, c.arg)
    BY <1>4 DEF Does
  <2> QED
    BY <1>4, <2>1, RunAfter
<1>5. CASE c.code = "CMD_TUNNEL"
  <2>1. r \in Work(g)
    BY <1>5 DEF Does
  <2> QED
    BY <1>2, <1>5, <2>1, WorkLeaves, LeavesAfter
<1>6. CASE c.code = "CMD_PATHFIND"
  <2>1. r \in Pathfind(g) /\ Bare(g) /\ ~g.history.cut /\ ~Loaded(g.queue, i)
    BY <1>6 DEF Does, Begins
  <2> QED
    BY <1>2, <1>6, <2>1, PathfindAfter
<1>7. CASE c.code = "CMD_REST"
  <2>1. r \in Rest(g, c.arg) /\ Bare(g) /\ (g.history.cut => g.up.restDisturb)
        /\ ~Loaded(g.queue, i)
    BY <1>7 DEF Does, Begins
  <2>2. c.arg \in Special .. MaxRest
    BY CommandTypes
  <2> QED
    BY <1>2, <1>7, <2>1, <2>2, RestLeaves, LeavesAfter
<1>8. CASE c.code = "CMD_AUTOPICKUP"
  <2>1. r.game = g
    BY <1>8, ResultIs DEF Does
  <2> QED
    BY <1>2, <1>8, <2>1, LeavesAfter
<1>9. CASE c.code = "CMD_SLEEP"
  <2>1. r.game = g
    BY <1>9, ResultIs DEF Does
  <2> QED
    BY <1>2, <1>9, <2>1, LeavesAfter
<1> QED
  BY <1>3, <1>4, <1>5, <1>6, <1>7, <1>8, <1>9 DEF Codes

-----------------------------------------------------------------------------
(* The states between the commands.                                        *)

\* Nothing that the player has ordered waits: what is repeated was not disturbed.
Level(g) ==
    /\ Base(g) /\ Steady(g)
    /\ g.queue.repeating => /\ ~g.history.cut /\ Repeats(Current(g.queue))
                            /\ Fits(g, Current(g.queue))

\* The player's order comes next.
OrderQueue(q) ==
    /\ q.head # q.tail
    /\ \A j \in Held(q) \ {q.tail} : BySelf(q.slot[j]) /\ q.slot[j].code \in Small

Ordered(g) ==
    /\ g.history.given /\ ~g.queue.repeating /\ OrderQueue(g.queue) /\ Kinds(g.queue)
    /\ g.up.steps => g.up.running > 0
    /\ g.up.running > 0 /\ ~g.history.stuck => g.history.twice

LEMMA PushStays ==
    ASSUME NEW q, QueueInv(q), NEW code \in Codes
    PROVE  LET r == cmdq_push_copy(q, Command(code, 0, 0))
           IN  /\ r.tail = q.tail /\ r.repeating = q.repeating /\ Current(r) = Current(q)
               /\ r.head # r.tail /\ Adds(r, q, code)
<1> DEFINE c == Command(code, 0, 0)
           r == cmdq_push_copy(q, c)
<1>1. 0 \in 0 .. MostRepeats /\ 0 \in Special .. MaxRest
  BY Numbers
<1>2. c \in Commands /\ c.code # CMD_NULL /\ c.nrepeats = 0
  BY <1>1, CommandTypes
<1>3. Adds(r, q, code)
  BY <1>1, PushAdds
<1>4. r.head # r.tail
  BY <1>2, PushKeeps
<1>5. q \in Queues /\ q.repeating \in BOOLEAN
  BY QueueTypes DEF QueueInv
<1> HIDE DEF c
<1>6. CASE Full(q)
  <2>1. r = q
    BY <1>6 DEF cmdq_push_copy
  <2> QED
    BY <1>3, <1>4, <2>1 DEF c
<1>7. CASE ~Full(q)
  <2>1. /\ r.tail = q.tail /\ (r.repeating <=> q.repeating) /\ Current(r) = Current(q)
        /\ r \in Queues
    BY <1>2, <1>5, <1>7, PushParts
  <2>2. r.repeating \in BOOLEAN
    BY <2>1, QueueTypes
  <2>3. r.repeating = q.repeating
    BY <1>5, <2>1, <2>2
  <2> HIDE DEF r
  <2> QED
    BY <1>3, <1>4, <2>1, <2>3 DEF r, c
<1> QED
  BY <1>6, <1>7

\* What waits behind the first is only added to.
LEMMA MoreBehind ==
    ASSUME NEW q, Pointers(q), q.head # q.tail, NEW r, NEW code \in Small,
           Adds(r, q, code), r.tail = q.tail, NEW j \in Held(r) \ {r.tail}
    PROVE  \/ j \in Held(q) \ {q.tail} /\ r.slot[j].code = q.slot[j].code
              /\ (BySelf(q.slot[j]) => BySelf(r.slot[j]))
           \/ r.slot[j].code \in Small /\ BySelf(r.slot[j])
<1>1. More(r, q, code)
  BY Zenon DEF Adds
<1>2. CASE j \in Held(q) /\ Alike(r.slot[j], q.slot[j])
  BY <1>2 DEF Alike, BySelf
<1>3. CASE j = q.head /\ Brought(r.slot[j], code)
  BY <1>3 DEF Brought, BySelf, Small
<1> QED
  BY <1>1, <1>2, <1>3 DEF More

\* A sleep is put in, or nothing.
LEMMA ReadyCourse ==
    ASSUME Inv
    PROVE  /\ Level(Game) => Level(Ready)
           /\ Ordered(Game) => Ordered(Ready)
           /\ Dug(Game) => Dug(Ready)
<1>1. /\ GameInv(Game) /\ QueueInv(queue) /\ queue \in Queues /\ Pointers(queue)
      /\ Game.queue = queue /\ Game.up = up /\ Game.history = history
  BY Parts, QueueTypes, GameFields
<1>2. Ready.up = up /\ Ready.history = history
  BY ReadyParts
<1>3. CASE ~(up.paralyzed > 0)
  <2>1. Ready = Game
    BY <1>3 DEF Ready
  <2> QED
    BY <2>1
<1>4. CASE up.paralyzed > 0
  <2> DEFINE r == Ready.queue
  <2>1. r = cmdq_push_copy(queue, Command("CMD_SLEEP", 0, 0))
    BY <1>4, ReadyParts
  <2>2. "CMD_SLEEP" \in Codes /\ "CMD_SLEEP" \in Small
    BY DEF Codes, Small
  <2>3. /\ r.tail = queue.tail /\ r.repeating = queue.repeating
        /\ Current(r) = Current(queue)
        /\ r.head # r.tail /\ Adds(r, queue, "CMD_SLEEP")
    BY <1>1, <2>1, <2>2, PushStays
  <2> HIDE DEF r
  <2>4. Kinds(queue) => Kinds(r)
    BY <2>3, Zenon DEF Adds
  <2>5. ASSUME Level(Game) PROVE Level(Ready)
    <3>1. Base(Game) /\ Steady(Game)
      BY <2>5, Zenon DEF Level
    <3>2. /\ Base(Ready) /\ Steady(Ready)
          /\ \A x \in Goers : Has(Ready.queue, x) => Has(Game.queue, x)
      <4>1. Adds(Ready.queue, Game.queue, "CMD_SLEEP") /\ Ready.up = Game.up
            /\ Ready.history = Game.history
        BY <1>1, <1>2, <2>3 DEF r
      <4> QED
        BY <1>1, <2>2, <3>1, <4>1, SmallKeeps
    <3>3. ASSUME Ready.queue.repeating
          PROVE  /\ ~Ready.history.cut /\ Repeats(Current(Ready.queue))
                 /\ Fits(Ready, Current(Ready.queue))
      <4>1. Game.queue.repeating /\ Current(Ready.queue) = Current(Game.queue)
        BY <1>1, <2>3, <3>3 DEF r
      <4>2. /\ ~Game.history.cut /\ Repeats(Current(Game.queue))
            /\ Fits(Game, Current(Game.queue))
        BY <2>5, <4>1, Zenon DEF Level
      <4>3. Fits(Ready, Current(Game.queue))
        BY <1>1, <1>2, <3>2, <4>2, Zenon DEF Fits
      <4>4. ~Ready.history.cut
        BY <1>1, <1>2, <4>2
      <4>5. Repeats(Current(Ready.queue)) /\ Fits(Ready, Current(Ready.queue))
        BY <4>1, <4>2, <4>3, Zenon
      <4> QED
        BY <4>4, <4>5
    <3> QED
      BY <3>2, <3>3, Zenon DEF Level
  <2>6. ASSUME Ordered(Game) PROVE Ordered(Ready)
    <3>1. OrderQueue(queue) /\ queue.head # queue.tail
      BY <1>1, <2>6, Zenon DEF Ordered, OrderQueue
    <3>2. OrderQueue(r)
      BY <1>1, <2>2, <2>3, <3>1, MoreBehind DEF OrderQueue
    <3> QED
      BY <1>1, <1>2, <2>3, <2>4, <2>6, <3>2 DEF Ordered, r
  <2>7. ASSUME Dug(Game) PROVE Dug(Ready)
    <3>1. DugQueue(queue) /\ queue.head # queue.tail
      BY <1>1, <2>7, Zenon DEF Dug, DugQueue
    <3>2. r.slot[r.tail].code = queue.slot[queue.tail].code
      <4>1. queue.tail \in Held(queue)
        BY <1>1, <3>1, HeldSlots
      <4> QED
        BY <2>3, <4>1 DEF Adds, All
    <3>3. ASSUME NEW j \in Held(r) \ {r.tail}
          PROVE  /\ BySelf(r.slot[j])
                 /\ \/ r.slot[j].code \in Small
                    \/ r.slot[j].code = "CMD_PATHFIND" /\ j = Ahead(r.tail)
      <4>1. \/ j \in Held(queue) \ {queue.tail} /\ r.slot[j].code = queue.slot[j].code
               /\ (BySelf(queue.slot[j]) => BySelf(r.slot[j]))
            \/ r.slot[j].code \in Small /\ BySelf(r.slot[j])
        BY <1>1, <2>2, <2>3, <3>1, MoreBehind
      <4> QED
        BY <2>3, <3>1, <4>1 DEF DugQueue
    <3>4. DugQueue(r)
      BY <2>3, <3>1, <3>2, <3>3 DEF DugQueue
    <3> QED
      BY <1>1, <1>2, <2>3, <2>4, <2>7, <3>4 DEF Dug, r
  <2> QED
    BY <2>5, <2>6, <2>7
<1> QED
  BY <1>3, <1>4

\* The command that is taken: again, or the first that waits.
LEMMA TakenLeaves ==
    ASSUME NEW q, QueueInv(q), Pending(q)
    PROVE  LET r == Taken(q)
           IN  /\ r.slot = q.slot /\ r.copy = q.copy /\ r.repeating = q.repeating
               /\ q.repeating => Held(r) = Held(q) /\ Behind(r.tail) = Behind(q.tail)
               /\ ~q.repeating => /\ Held(r) = Held(q) \ {q.tail} /\ Behind(r.tail) = q.tail
                                  /\ q.head # q.tail
<1> DEFINE t == IF q.repeating THEN q ELSE [q EXCEPT !.tail = Ahead(@)]
           r == Taken(q)
<1>1. /\ q \in Queues /\ Pointers(q) /\ q.head \in Slots /\ q.tail \in Slots
      /\ Ahead(q.tail) \in Slots
  BY QueueTypes, Neighbours DEF QueueInv
<1>2. r = IF Current(t).background # 0 THEN t ELSE [t EXCEPT !.last = Behind(t.tail)]
  BY Zenon DEF Taken
<1>3. /\ t \in Queues /\ t.slot = q.slot /\ t.copy = q.copy /\ t.repeating = q.repeating
      /\ q.repeating => Held(t) = Held(q) /\ Behind(t.tail) = Behind(q.tail)
      /\ ~q.repeating => /\ Held(t) = Held(q) \ {q.tail} /\ Behind(t.tail) = q.tail
                         /\ q.head # q.tail
  <2>1. CASE q.repeating
    <3>1. t = q
      BY <2>1
    <3> QED
      BY <1>1, <2>1, <3>1
  <2>2. CASE ~q.repeating
    <3>1. q.head # q.tail
      BY <2>2 DEF Pending
    <3>2. t = [q EXCEPT !.tail = Ahead(q.tail)]
      BY <2>2
    <3>3. t = Record(q.slot, q.head, Ahead(q.tail), q.last, q.copy, q.allowed, q.repeating)
      BY <1>1, <3>2 DEF Queues, Record
    <3> HIDE DEF t
    <3>4. t \in Queues
      BY <1>1, <3>3, QueueTypes, RecordTypes
    <3>5. /\ t.slot = q.slot /\ t.head = q.head /\ t.tail = Ahead(q.tail)
          /\ t.copy = q.copy /\ t.repeating = q.repeating
      BY <3>3, Zenon DEF Record
    <3>6. Held(t) = Held(q) \ {q.tail} /\ Behind(t.tail) = q.tail
      BY <1>1, <3>1, <3>5, OneLessHeld
    <3> QED
      BY <2>2, <3>1, <3>4, <3>5, <3>6
  <2> QED
    BY <2>1, <2>2
<1> HIDE DEF t, r
<1>4. CASE r = t
  BY <1>3, <1>4 DEF r
<1>5. CASE r = [t EXCEPT !.last = Behind(t.tail)]
  <2>1. r = Record(t.slot, t.head, t.tail, Behind(t.tail), t.copy, t.allowed, t.repeating)
    BY <1>3, <1>5 DEF Queues, Record
  <2>2. /\ r.slot = t.slot /\ r.head = t.head /\ r.tail = t.tail /\ r.copy = t.copy
        /\ r.repeating = t.repeating
    BY <2>1, Zenon DEF Record
  <2>3. Held(r) = Held(t)
    BY <2>2 DEF Held
  <2> QED
    BY <1>3, <2>2, <2>3, Zenon DEF r
<1> QED
  BY <1>2, <1>4, <1>5

\* A command is begun: it keeps its count, or has none, or the one for work.
LEMMA StartedLeaves ==
    ASSUME NEW q, QueueInv(q)
    PROVE  LET r == Started(q)
               i == Behind(q.tail)
           IN  /\ r.tail = q.tail /\ Held(r) = Held(q) /\ r.copy = q.copy
               /\ \A j \in Slots \ {i} : r.slot[j] = q.slot[j]
               /\ \A j \in Held(q) : r.slot[j] = q.slot[j]
               /\ r.slot[i].code = q.slot[i].code /\ r.slot[i].arg = q.slot[i].arg
               /\ Loaded(r, i) => /\ repeat_allowed(q.slot[i].code)
                                  /\ Loaded(q, i) \/ q.slot[i].code = "CMD_TUNNEL"
<1> DEFINE c == Current(q)
           i == Behind(q.tail)
           r == IF ~repeat_allowed(c.code) THEN cmd_set_repeat(q, 0)
                ELSE IF auto_repeat_n(c.code) > 0 /\ c.nrepeats = 0
                THEN cmd_set_repeat(q, auto_repeat_n(c.code)) ELSE q
           p == Started(q)
<1>1. p = [r EXCEPT !.allowed = TRUE]
  BY Zenon DEF Started
<1>2. 0 \in 0 .. MostRepeats /\ auto_repeat_n(c.code) \in 0 .. MostRepeats
  BY Numbers DEF auto_repeat_n
<1>3. q \in Queues /\ i \in Slots /\ c = q.slot[i]
  BY QueueTypes, Zenon DEF QueueInv, Current
<1>4. /\ r \in Queues /\ r.tail = q.tail /\ Held(r) = Held(q) /\ r.copy = q.copy
      /\ \A j \in Slots \ {i} : r.slot[j] = q.slot[j]
      /\ \A j \in Held(q) : r.slot[j] = q.slot[j]
      /\ r.slot[i].code = q.slot[i].code /\ r.slot[i].arg = q.slot[i].arg
      /\ Loaded(r, i) => /\ repeat_allowed(q.slot[i].code)
                         /\ Loaded(q, i) \/ q.slot[i].code = "CMD_TUNNEL"
  <2>1. CASE ~repeat_allowed(c.code)
    <3>1. r = cmd_set_repeat(q, 0)
      BY <2>1
    <3> HIDE DEF r
    <3>2. r \in Queues
      BY <1>2, <3>1, SetRepeatKeeps DEF Kept, QueueInv
    <3>3. /\ r.tail = q.tail /\ Held(r) = Held(q) /\ r.copy = q.copy
          /\ (r.repeating <=> 0 # 0)
          /\ \A j \in Slots \ {i} : r.slot[j] = q.slot[j]
          /\ \A j \in Held(q) : r.slot[j] = q.slot[j]
          /\ r.slot[i].code = q.slot[i].code /\ r.slot[i].arg = q.slot[i].arg
          /\ r.slot[i].nrepeats = 0
      BY <1>2, <3>1, SetRepeatLeaves
    <3> QED
      BY <3>2, <3>3 DEF Loaded
  <2>2. CASE repeat_allowed(c.code) /\ auto_repeat_n(c.code) > 0 /\ c.nrepeats = 0
    <3> DEFINE n == auto_repeat_n(c.code)
    <3>1. r = cmd_set_repeat(q, n) /\ n # 0
      BY <1>2, <2>2
    <3>2. c.code = "CMD_TUNNEL"
      BY <2>2 DEF auto_repeat_n
    <3>3. n \in 0 .. MostRepeats
      BY <1>2
    <3> HIDE DEF r, n
    <3>4. /\ r.tail = q.tail /\ Held(r) = Held(q) /\ r.copy = q.copy
          /\ \A j \in Slots \ {i} : r.slot[j] = q.slot[j]
          /\ \A j \in Held(q) : r.slot[j] = q.slot[j]
          /\ r.slot[i].code = q.slot[i].code /\ r.slot[i].arg = q.slot[i].arg
      BY <3>1, <3>3, SetRepeatLeaves
    <3>5. r \in Queues
      <4> DEFINE d == [Current(q) EXCEPT !.nrepeats = n]
                 s == [q.slot EXCEPT ![i] = d]
                 again == n # 0
      <4>1. r = Changed(q, i, d, again)
        BY <1>3, <3>1, <3>3, SetRepeatIs
      <4>2. Current(q) \in Commands /\ q.slot \in [Slots -> Commands]
        BY <1>3, QueueTypes
      <4>3. d \in Commands
        BY <3>3, <4>2, NumberTypes
      <4> HIDE DEF d
      <4>4. s \in [Slots -> Commands] /\ again \in BOOLEAN
        BY <4>2, <4>3
      <4>5. r = Record(s, q.head, q.tail, q.last, q.copy, q.allowed, again)
        BY <4>1, Zenon DEF Changed
      <4> HIDE DEF s, again
      <4> QED
        BY <1>3, <4>4, <4>5, QueueTypes, RecordTypes
    <3> QED
      BY <1>3, <2>2, <3>2, <3>4, <3>5
  <2>3. CASE repeat_allowed(c.code) /\ ~(auto_repeat_n(c.code) > 0 /\ c.nrepeats = 0)
    <3>1. r = q
      BY <2>3
    <3> QED
      BY <1>3, <2>3, <3>1
  <2> QED
    BY <2>1, <2>2, <2>3
<1> HIDE DEF r, p
<1>5. p = Record(r.slot, r.head, r.tail, r.last, r.copy, TRUE, r.repeating)
  BY <1>1, <1>4 DEF Queues, Record
<1>6. /\ p.slot = r.slot /\ p.head = r.head /\ p.tail = r.tail
      /\ p.copy = r.copy /\ p.repeating = r.repeating
  BY <1>5, Zenon DEF Record
<1>7. Held(p) = Held(r)
  BY <1>6 DEF Held
<1>8. Loaded(p, i) => Loaded(r, i)
  BY <1>6 DEF Loaded
<1> QED
  BY <1>4, <1>6, <1>7, <1>8 DEF p

\* What is left waiting when command c is begun, in slot i.
Takes(m, g, i, c) ==
    /\ m.up = g.up /\ Behind(m.queue.tail) = i
    /\ m.queue.slot[i].code = c.code /\ m.queue.slot[i].arg = c.arg
    /\ \A j \in Held(m.queue) : j \in Held(g.queue) /\ m.queue.slot[j] = g.queue.slot[j]
    /\ Kinds(g.queue) => Kinds(m.queue) /\ (c.nrepeats # 0 => Repeats(c))
    /\ Loaded(m.queue, i) => /\ repeat_allowed(c.code)
                             /\ \/ g.queue.repeating \/ c.nrepeats # 0
                                \/ c.code = "CMD_TUNNEL"
    /\ ~m.history.given
    /\ m.history.twice = g.history.twice /\ m.history.stuck = g.history.stuck
    /\ m.history.behind <=> g.history.behind /\ ~(c.code = "CMD_PATHFIND" /\ g.history.behind)
    /\ m.history.cut <=> /\ g.history.cut /\ ~g.history.given
                         /\ ~(c.code = "CMD_PATHFIND" /\ g.history.behind)
TakesAgain(m, g, c) ==
    c = Current(g.queue) /\ Held(m.queue) = Held(g.queue)
TakesFirst(m, g, c) ==
    /\ g.queue.tail \in Held(g.queue) /\ c = g.queue.slot[g.queue.tail]
    /\ Held(m.queue) = Held(g.queue) \ {g.queue.tail}

LEMMA BeganTakes ==
    ASSUME Inv, Pending(Ready.queue)
    PROVE  LET q == Taken(Ready.queue)
               i == Behind(q.tail)
               c == q.slot[i]
           IN  /\ Takes(Began, Ready, i, c)
               /\ Ready.queue.repeating => TakesAgain(Began, Ready, c)
               /\ ~Ready.queue.repeating => TakesFirst(Began, Ready, c)
<1> DEFINE q == Taken(Ready.queue)
           i == Behind(q.tail)
           c == q.slot[i]
           m == Began
           k == Ready.queue
<1>1. /\ i \in Slots /\ c \in Commands /\ QueueInv(q) /\ m.queue = Started(q) /\ m.up = up
      /\ m.history = Begun(history, c)
  BY BeganParts
<1>2. GameInv(Ready) /\ Ready.up = up /\ Ready.history = history
  BY ReadyParts
<1>3. QueueInv(k) /\ k \in Queues /\ Pointers(k) /\ history \in Histories
  BY <1>2, Parts, QueueTypes DEF GameInv, QueueInv
<1>4. /\ q.slot = k.slot /\ q.copy = k.copy /\ q.repeating = k.repeating
      /\ k.repeating => Held(q) = Held(k) /\ Behind(q.tail) = Behind(k.tail)
      /\ ~k.repeating => /\ Held(q) = Held(k) \ {k.tail} /\ Behind(q.tail) = k.tail
                         /\ k.head # k.tail
  BY <1>3, TakenLeaves
<1>5. /\ m.queue.tail = q.tail /\ Held(m.queue) = Held(q) /\ m.queue.copy = q.copy
      /\ \A j \in Slots \ {i} : m.queue.slot[j] = q.slot[j]
      /\ \A j \in Held(q) : m.queue.slot[j] = q.slot[j]
      /\ m.queue.slot[i].code = c.code /\ m.queue.slot[i].arg = c.arg
      /\ Loaded(m.queue, i) => /\ repeat_allowed(c.code)
                               /\ Loaded(q, i) \/ c.code = "CMD_TUNNEL"
  BY <1>1, StartedLeaves
<1>6. /\ ~m.history.given
      /\ m.history.twice = history.twice /\ m.history.stuck = history.stuck
      /\ m.history.behind <=> history.behind /\ ~(c.code = "CMD_PATHFIND" /\ history.behind)
      /\ m.history.cut <=> /\ history.cut /\ ~history.given
                           /\ ~(c.code = "CMD_PATHFIND" /\ history.behind)
  <2> HIDE DEF m, c
  <2> DEFINE h == Begun(history, c)
  <2>1. /\ ~h.given /\ h.twice = history.twice /\ h.stuck = history.stuck
        /\ h.behind <=> history.behind /\ ~(c.code = "CMD_PATHFIND" /\ history.behind)
        /\ h.cut <=> /\ history.cut /\ ~(c.code = "CMD_PATHFIND" /\ history.behind)
                     /\ ~history.given
    BY <1>1, <1>3, BegunParts
  <2>2. m.history = h
    BY <1>1
  <2> HIDE DEF h
  <2> QED
    BY <2>1, <2>2
<1>7. c = k.slot[i]
  BY <1>4
<1> HIDE DEF q, m, c, i
<1>8. ASSUME Kinds(k) PROVE Kinds(m.queue) /\ (c.nrepeats # 0 => Repeats(c))
  <2>1. c.nrepeats # 0 => Repeats(c)
    BY <1>1, <1>7, <1>8, Zenon DEF Kinds
  <2>2. m.queue.slot[i].nrepeats # 0 => Repeats(m.queue.slot[i])
    <3>1. SUFFICES ASSUME m.queue.slot[i].nrepeats # 0 PROVE Repeats(c)
      BY <1>5 DEF Repeats
    <3>2. \/ q.repeating \/ c.nrepeats # 0 \/ c.code = "CMD_TUNNEL"
      BY <1>4, <1>5, <1>7, <3>1, Zenon DEF Loaded
    <3>3. CASE c.code = "CMD_TUNNEL"
      BY <3>3 DEF Repeats
    <3>4. CASE c.nrepeats # 0
      BY <2>1, <3>4
    <3>5. CASE c.nrepeats = 0 /\ c.code # "CMD_TUNNEL"
      <4>1. m.queue.slot[i].nrepeats = 0
        <5>1. c = Current(q) /\ q.repeating \in BOOLEAN /\ q \in Queues
          BY <1>1, QueueTypes DEF QueueInv, Current, c, i
        <5>2. 0 \in 0 .. MostRepeats
          BY Numbers
        <5>3. CASE ~repeat_allowed(c.code)
          <6>1. m.queue = [cmd_set_repeat(q, 0) EXCEPT !.allowed = TRUE]
            BY <1>1, <5>1, <5>3, Zenon DEF Started
          <6>2. cmd_set_repeat(q, 0).slot[i].nrepeats = 0
            BY <1>1, <5>2, SetRepeatLeaves DEF i
          <6>3. cmd_set_repeat(q, 0) \in Queues
            BY <1>1, <5>2, SetRepeatKeeps DEF Kept, QueueInv
          <6> HIDE DEF cmd_set_repeat
          <6>4. m.queue.slot = cmd_set_repeat(q, 0).slot
            BY <6>1, <6>3 DEF Queues
          <6> QED
            BY <6>2, <6>4
        <5>4. CASE repeat_allowed(c.code)
          <6>1. ~(auto_repeat_n(c.code) > 0)
            BY <3>5 DEF auto_repeat_n
          <6>2. m.queue = [q EXCEPT !.allowed = TRUE]
            BY <1>1, <5>1, <5>4, <6>1 DEF Started
          <6>3. m.queue.slot = q.slot
            BY <5>1, <6>2 DEF Queues
          <6> QED
            BY <1>4, <1>7, <3>5, <6>3
        <5> QED
          BY <5>3, <5>4
      <4> QED
        BY <3>1, <4>1
    <3> QED
      BY <3>2, <3>3, <3>4, <3>5
  <2>3. \A j \in Slots : m.queue.slot[j].nrepeats # 0 => Repeats(m.queue.slot[j])
    BY <1>4, <1>5, <1>8, <2>2 DEF Kinds
  <2>4. m.queue.copy.nrepeats # 0 => Repeats(m.queue.copy)
    BY <1>4, <1>5, <1>8 DEF Kinds
  <2> QED
    BY <2>1, <2>3, <2>4, Zenon DEF Kinds
<1>9. Loaded(m.queue, i) => /\ repeat_allowed(c.code)
                            /\ k.repeating \/ c.nrepeats # 0 \/ c.code = "CMD_TUNNEL"
  BY <1>4, <1>5, <1>7, Zenon DEF Loaded
<1>10. \A j \in Held(m.queue) : j \in Held(k) /\ m.queue.slot[j] = k.slot[j]
  BY <1>4, <1>5
<1>11. Behind(m.queue.tail) = i
  BY <1>5 DEF i
<1>12. Takes(m, Ready, i, c)
  BY <1>1, <1>2, <1>5, <1>6, <1>8, <1>9, <1>10, <1>11, Zenon DEF Takes
<1>13. k.repeating => TakesAgain(m, Ready, c)
  BY <1>4, <1>5, <1>7, Zenon DEF TakesAgain, Current, i
<1>14. ~k.repeating => TakesFirst(m, Ready, c)
  <2>1. SUFFICES ASSUME ~k.repeating PROVE TakesFirst(m, Ready, c)
    OBVIOUS
  <2>2. k.tail \in Held(k)
    BY <1>3, <1>4, <2>1, HeldSlots
  <2> QED
    BY <1>4, <1>5, <1>7, <2>1, <2>2, Zenon DEF TakesFirst, i
<1> QED
  BY <1>12, <1>13, <1>14 DEF m, q, i, c

\* What the player did not order goes on, with the command that is taken.
LEMMA FewerWait ==
    ASSUME NEW g, NEW m, NEW i, NEW c, Takes(m, g, i, c), Base(g),
           Has(m.queue, "CMD_PATHFIND") => m.history.behind
    PROVE  /\ Base(m)
           /\ \A x : Has(m.queue, x) => Has(g.queue, x)
<1>1. \A x : Has(m.queue, x) => Has(g.queue, x)
  BY Zenon DEF Has, Takes
<1>2. WaitOK(m.queue)
  BY Zenon DEF WaitOK, Takes, Base, Basis
<1>3. Pairs(m.queue, m.history.twice)
  <2>1. Pairs(g.queue, g.history.twice)
    BY Zenon DEF Base, Basis
  <2> QED
    BY <2>1 DEF Pairs, Takes
<1>4. /\ Kinds(m.queue) /\ ~m.history.given /\ m.up = g.up
      /\ m.history.twice = g.history.twice /\ (m.history.cut => g.history.cut)
  BY Zenon DEF Takes, Base, Basis
<1>5. Base(m)
  BY <1>1, <1>2, <1>3, <1>4, Zenon DEF Base, Basis
<1> QED
  BY <1>1, <1>5

\* It is repeated.
LEMMA BeginsAgain ==
    ASSUME NEW g, NEW m, NEW i \in Slots, NEW c, Doing(m, i), Takes(m, g, i, c),
           TakesAgain(m, g, c), Level(g), g.queue.repeating
    PROVE  Begins(m, i, c)
<1>1. /\ Base(g) /\ Steady(g) /\ ~g.history.cut /\ Repeats(c) /\ Fits(g, c)
  BY Zenon DEF Level, TakesAgain
<1>2. /\ c.code \notin {"CMD_PATHFIND", "CMD_REST"}
      /\ ~(c.code = "CMD_RUN" /\ c.arg = 0)
  BY <1>1 DEF Repeats
<1>3. /\ m.up = g.up /\ Behind(m.queue.tail) = i /\ Held(m.queue) = Held(g.queue)
      /\ m.queue.slot[i].code = c.code /\ m.queue.slot[i].arg = c.arg
      /\ \A j \in Held(m.queue) : m.queue.slot[j] = g.queue.slot[j]
      /\ m.history.twice = g.history.twice /\ m.history.stuck = g.history.stuck
      /\ m.history.behind = g.history.behind \/ (m.history.behind <=> g.history.behind)
      /\ ~m.history.cut
  BY <1>1, <1>2 DEF Takes, TakesAgain
<1>4. \A x : Has(m.queue, x) <=> Has(g.queue, x)
  BY <1>3, Zenon DEF Has
<1>5. Has(m.queue, "CMD_PATHFIND") => m.history.behind
  BY <1>1, <1>3, <1>4, Zenon DEF Base, Basis
<1>6. Base(m)
  BY <1>1, <1>5, FewerWait
<1>7. Repeatable(m, i)
  <2>1. Fits(m, m.queue.slot[i])
    BY <1>1, <1>3, <1>4, Zenon DEF Fits
  <2>2. Repeats(m.queue.slot[i])
    BY <1>1, <1>3 DEF Repeats
  <2> QED
    BY <1>3, <2>1, <2>2, Zenon DEF Repeatable
<1>8. Load(m, i)
  BY <1>7, Zenon DEF Load, Repeatable
<1>9. Steady(m)
  BY <1>1, <1>3, <1>4, Zenon DEF Steady
<1> QED
  BY <1>2, <1>3, <1>6, <1>7, <1>8, <1>9, Zenon DEF Begins, Sound

\* It is the first that waits, and comes by itself.
LEMMA BeginsNext ==
    ASSUME NEW g, NEW m, NEW i \in Slots, NEW c, Doing(m, i), Takes(m, g, i, c),
           TakesFirst(m, g, c), Level(g), ~g.queue.repeating
    PROVE  Begins(m, i, c)
<1> DEFINE t == g.queue.tail
<1>1. /\ Base(g) /\ Steady(g) /\ WaitOK(g.queue) /\ Pairs(g.queue, g.history.twice)
  BY Zenon DEF Level, Base, Basis
<1>2. t \in Held(g.queue) /\ c = g.queue.slot[t] /\ Held(m.queue) = Held(g.queue) \ {t}
  BY Zenon DEF TakesFirst
<1>3. /\ m.up = g.up /\ m.queue.slot[i].code = c.code
      /\ \A j \in Held(m.queue) : m.queue.slot[j] = g.queue.slot[j]
      /\ m.history.twice = g.history.twice /\ m.history.stuck = g.history.stuck
  BY Zenon DEF Takes
<1>4. /\ c.code \in Small \cup Goers /\ c.nrepeats = 0 /\ (c.code = "CMD_RUN" => c.arg = 0)
  BY <1>1, <1>2, Zenon DEF WaitOK, BySelf
<1>5. ~Repeats(c)
  BY <1>4 DEF Repeats, Small, Goers
<1>6. ~Loaded(m.queue, i)
  BY <1>4 DEF Takes, Small, Goers
<1>7. Has(g.queue, c.code)
  BY <1>2, Zenon DEF Has
<1> HIDE DEF t
<1>8. ASSUME NEW x \in Goers, Has(m.queue, x), c.code \in Goers
      PROVE  x = "CMD_RUN" /\ c.code = "CMD_RUN" /\ g.history.twice
  <2>1. PICK j \in Held(m.queue) : m.queue.slot[j].code = x
    BY <1>8, Zenon DEF Has
  <2>2. j \in Held(g.queue) /\ j # t /\ g.queue.slot[j].code = x
    BY <1>2, <1>3, <2>1
  <2> QED
    BY <1>1, <1>2, <1>8, <2>2, Zenon DEF Pairs
<1>9. \A x : Has(m.queue, x) => x \in Small \cup Goers
  <2>1. ASSUME NEW j \in Held(m.queue) PROVE m.queue.slot[j].code \in Small \cup Goers
    BY <1>1, <1>2, <1>3 DEF WaitOK, BySelf
  <2> QED
    BY <2>1, Zenon DEF Has
<1>10. /\ c.code \in Goers => Alone(m)
       /\ c.code \in {"CMD_PATHFIND", "CMD_REST"} => Bare(m)
  <2>1. ASSUME c.code \in Goers PROVE Alone(m)
    BY <1>3, <1>8, <1>9, <2>1 DEF Alone
  <2>2. ASSUME c.code \in {"CMD_PATHFIND", "CMD_REST"} PROVE Bare(m)
    <3>1. c.code \in Goers /\ c.code # "CMD_RUN"
      BY <2>2 DEF Goers
    <3> QED
      BY <1>8, <1>9, <3>1 DEF Bare
  <2> QED
    BY <2>1, <2>2
<1>11. Has(m.queue, "CMD_PATHFIND") => m.history.behind
  <2>1. SUFFICES ASSUME Has(m.queue, "CMD_PATHFIND") PROVE m.history.behind
    OBVIOUS
  <2>2. "CMD_PATHFIND" \in Goers
    BY DEF Goers
  <2>3. c.code # "CMD_PATHFIND"
    BY <1>8, <2>1, <2>2
  <2>4. Has(g.queue, "CMD_PATHFIND")
    BY <2>1 DEF Has, Takes
  <2>5. g.history.behind
    BY <1>1, <2>4, Zenon DEF Base, Basis
  <2> QED
    BY <2>3, <2>5, Zenon DEF Takes
<1>12. Base(m)
  BY <1>1, <1>11, FewerWait
<1>13. Load(m, i)
  BY <1>6, Zenon DEF Load
<1>14. ASSUME c.code = "CMD_PATHFIND" PROVE ~m.history.cut
  <2>1. g.history.behind
    BY <1>1, <1>7, <1>14 DEF Base, Basis
  <2> QED
    BY <1>14, <2>1 DEF Takes
<1>15. ASSUME c.code = "CMD_REST", m.history.cut PROVE m.up.restDisturb
  <2>1. g.history.cut
    BY <1>15, Zenon DEF Takes
  <2>2. g.up.resting = 0 /\ Has(g.queue, "CMD_REST")
    BY <1>1, <1>7, <1>15, <2>1 DEF Base, Basis
  <2> QED
    BY <1>1, <1>3, <2>2 DEF Base, Basis
<1>16. ASSUME ~(c.code = "CMD_RUN" /\ c.arg = 0) PROVE Steady(m)
  <2>1. c.code # "CMD_RUN"
    BY <1>4, <1>16
  <2>2. Has(g.queue, "CMD_RUN") => Has(m.queue, "CMD_RUN")
    <3>1. SUFFICES ASSUME Has(g.queue, "CMD_RUN") PROVE Has(m.queue, "CMD_RUN")
      OBVIOUS
    <3>2. PICK j \in Held(g.queue) : g.queue.slot[j].code = "CMD_RUN"
      BY <3>1, Zenon DEF Has
    <3>3. j # t
      BY <1>2, <2>1, <3>2
    <3>4. j \in Held(m.queue) /\ m.queue.slot[j].code = "CMD_RUN"
      BY <1>2, <1>3, <3>2, <3>3
    <3> QED
      BY <3>4, Zenon DEF Has
  <2> QED
    BY <1>1, <1>3, <2>2, Zenon DEF Steady
<1>17. c.code = "CMD_RUN" /\ c.arg = 0 => Alone(m) /\ ~Loaded(m.queue, i)
  BY <1>6, <1>10 DEF Goers
<1> QED
  BY <1>3, <1>5, <1>6, <1>10, <1>12, <1>13, <1>14, <1>15, <1>16, <1>17, Zenon
     DEF Begins, Sound

\* It is the work on what is in the way of the path.
LEMMA BeginsDug ==
    ASSUME NEW g, NEW m, NEW i \in Slots, NEW c, Doing(m, i), Takes(m, g, i, c),
           TakesFirst(m, g, c), Dug(g)
    PROVE  Begins(m, i, c)
<1> DEFINE t == g.queue.tail
<1>1. /\ ~g.history.given /\ ~g.history.cut /\ g.history.behind
      /\ ~g.queue.repeating /\ g.up.running = 0 /\ ~g.up.steps
      /\ Kinds(g.queue) /\ DugQueue(g.queue)
  BY Zenon DEF Dug
<1>2. t \in Held(g.queue) /\ c = g.queue.slot[t] /\ Held(m.queue) = Held(g.queue) \ {t}
  BY Zenon DEF TakesFirst
<1>3. /\ m.up = g.up /\ Behind(m.queue.tail) = i
      /\ m.queue.slot[i].code = c.code
      /\ \A j \in Held(m.queue) : m.queue.slot[j] = g.queue.slot[j]
      /\ Kinds(m.queue) /\ ~m.history.given
  BY <1>1, Zenon DEF Takes
<1>4. c.code = "CMD_TUNNEL"
  BY <1>1, <1>2, Zenon DEF DugQueue
<1>5. m.history.behind /\ ~m.history.cut
  BY <1>1, <1>4 DEF Takes
<1>6. ASSUME NEW j \in Held(m.queue)
      PROVE  /\ BySelf(m.queue.slot[j])
             /\ \/ m.queue.slot[j].code \in Small
                \/ m.queue.slot[j].code = "CMD_PATHFIND" /\ j = Ahead(t)
  BY <1>1, <1>2, <1>3 DEF DugQueue
<1> HIDE DEF t
<1>7. WaitOK(m.queue)
  BY <1>6, Zenon DEF WaitOK
<1>8. \A x \in Goers : x \notin Small
  BY DEF Goers, Small
<1>9. Pairs(m.queue, m.history.twice)
  BY <1>6, <1>8 DEF Pairs
<1>10. \A x \in Goers : Has(m.queue, x) => x = "CMD_PATHFIND"
  BY <1>6, <1>8, Zenon DEF Has
<1>11. "CMD_RUN" \in Goers /\ "CMD_REST" \in Goers /\ "CMD_RUN" # "CMD_PATHFIND"
       /\ "CMD_REST" # "CMD_PATHFIND"
  BY DEF Goers
<1>12. Base(m)
  BY <1>1, <1>3, <1>5, <1>7, <1>9, <1>10, <1>11, Zenon DEF Base, Basis
<1>13. Repeatable(m, i)
  <2>1. Repeats(m.queue.slot[i])
    BY <1>3, <1>4 DEF Repeats
  <2>2. Fits(m, m.queue.slot[i])
    BY <1>3, <1>4, <1>10, Zenon DEF Fits
  <2> QED
    BY <1>3, <1>5, <2>1, <2>2, Zenon DEF Repeatable
<1>14. Load(m, i) /\ Steady(m)
  BY <1>1, <1>3, <1>13 DEF Load, Repeatable, Steady
<1>15. /\ c.code # "CMD_RUN" /\ c.code \notin {"CMD_PATHFIND", "CMD_REST"}
       /\ c.code # "CMD_PATHFIND" /\ c.code # "CMD_REST"
  BY <1>4
<1> QED
  BY <1>3, <1>12, <1>13, <1>14, <1>15, Zenon DEF Begins, Sound

\* It is what the player has ordered.
LEMMA BeginsOrder ==
    ASSUME NEW g, NEW m, NEW i \in Slots, NEW c, Doing(m, i), Takes(m, g, i, c),
           TakesFirst(m, g, c), Ordered(g)
    PROVE  Begins(m, i, c)
<1> DEFINE t == g.queue.tail
<1>1. /\ g.history.given /\ ~g.queue.repeating
      /\ Kinds(g.queue) /\ OrderQueue(g.queue)
      /\ g.up.steps => g.up.running > 0
      /\ g.up.running > 0 /\ ~g.history.stuck => g.history.twice
  BY Zenon DEF Ordered
<1>2. t \in Held(g.queue) /\ c = g.queue.slot[t] /\ Held(m.queue) = Held(g.queue) \ {t}
  BY Zenon DEF TakesFirst
<1>3. /\ m.up = g.up /\ Behind(m.queue.tail) = i
      /\ m.queue.slot[i].code = c.code /\ m.queue.slot[i].arg = c.arg
      /\ \A j \in Held(m.queue) : m.queue.slot[j] = g.queue.slot[j]
      /\ Kinds(m.queue) /\ ~m.history.given /\ ~m.history.cut
      /\ c.nrepeats # 0 => Repeats(c)
      /\ m.history.twice = g.history.twice /\ m.history.stuck = g.history.stuck
  BY <1>1, Zenon DEF Takes
<1>4. ASSUME NEW j \in Held(m.queue)
      PROVE  BySelf(m.queue.slot[j]) /\ m.queue.slot[j].code \in Small
  BY <1>1, <1>2, <1>3 DEF OrderQueue
<1> HIDE DEF t
<1>5. Bare(m)
  BY <1>4, Zenon DEF Bare, Has
<1>6. \A x \in Goers : x \notin Small
  BY DEF Goers, Small
<1>7. \A x \in Goers : ~Has(m.queue, x)
  BY <1>5, <1>6, Zenon DEF Bare
<1>8. WaitOK(m.queue) /\ Pairs(m.queue, m.history.twice)
  <2>1. WaitOK(m.queue)
    BY <1>4, Zenon DEF WaitOK
  <2>2. Pairs(m.queue, m.history.twice)
    BY <1>4, <1>6 DEF Pairs
  <2> QED
    BY <2>1, <2>2
<1>9. "CMD_RUN" \in Goers /\ "CMD_REST" \in Goers /\ "CMD_PATHFIND" \in Goers
  BY DEF Goers
<1>10. Base(m)
  BY <1>1, <1>3, <1>7, <1>8, <1>9, Zenon DEF Base, Basis
<1>11. Steady(m)
  BY <1>1, <1>3, Zenon DEF Steady
<1>12. ASSUME Repeats(c) PROVE Repeatable(m, i)
  <2>1. Repeats(m.queue.slot[i])
    BY <1>3, <1>12 DEF Repeats
  <2>2. Fits(m, m.queue.slot[i])
    BY <1>7, Zenon DEF Fits
  <2> QED
    BY <1>3, <2>1, <2>2, Zenon DEF Repeatable
<1>13. ASSUME Loaded(m.queue, i) PROVE Repeats(c)
  <2>1. c.nrepeats # 0 \/ c.code = "CMD_TUNNEL"
    BY <1>1, <1>13, Zenon DEF Takes
  <2> QED
    BY <1>3, <2>1 DEF Repeats
<1>14. Load(m, i)
  BY <1>12, <1>13, Zenon DEF Load, Repeatable
<1>15. /\ c.code = "CMD_RUN" /\ c.arg = 0 => ~Repeats(c)
       /\ c.code \in {"CMD_PATHFIND", "CMD_REST"} => ~Repeats(c)
  BY DEF Repeats
<1>16. Alone(m)
  BY <1>5, Zenon DEF Alone, Bare
<1> QED
  BY <1>3, <1>5, <1>10, <1>11, <1>12, <1>13, <1>14, <1>15, <1>16, Zenon DEF Begins, Sound

-----------------------------------------------------------------------------
(* Every step keeps the course.                                            *)

\* What the player did not order goes on as it should; or he has ordered something;
\* or, before the next command is taken, what is in the way of the path waits.
Course ==
    \/ Level(Game)
    \/ Ordered(Game) /\ pc \in {"turn", "pop"}
    \/ Dug(Game) /\ pc = "pop"

LEMMA PerformBegins ==
    ASSUME Inv, Course, Pending(Ready.queue)
    PROVE  LET q == Taken(Ready.queue)
               i == Behind(q.tail)
               c == q.slot[i]
           IN  Begins(Began, i, c) /\ i \in Slots /\ c \in Commands /\ c.code \in Codes
<1> DEFINE q == Taken(Ready.queue)
           i == Behind(q.tail)
           c == q.slot[i]
<1>1. i \in Slots /\ c \in Commands /\ c.code \in Codes /\ Doing(Began, i)
  BY BeganParts
<1>2. /\ Takes(Began, Ready, i, c)
      /\ Ready.queue.repeating => TakesAgain(Began, Ready, c)
      /\ ~Ready.queue.repeating => TakesFirst(Began, Ready, c)
  BY BeganTakes
<1> HIDE DEF q, i, c
<1>3. Level(Ready) \/ Ordered(Ready) \/ Dug(Ready)
  BY ReadyCourse DEF Course
<1>4. CASE Level(Ready) /\ Ready.queue.repeating
  BY <1>1, <1>2, <1>4, BeginsAgain DEF q, i, c
<1>5. CASE Level(Ready) /\ ~Ready.queue.repeating
  BY <1>1, <1>2, <1>5, BeginsNext DEF q, i, c
<1>6. CASE Ordered(Ready)
  <2>1. ~Ready.queue.repeating
    BY <1>6, Zenon DEF Ordered
  <2> QED
    BY <1>1, <1>2, <1>6, <2>1, BeginsOrder DEF q, i, c
<1>7. CASE Dug(Ready)
  <2>1. ~Ready.queue.repeating
    BY <1>7, Zenon DEF Dug
  <2> QED
    BY <1>1, <1>2, <1>7, <2>1, BeginsDug DEF q, i, c
<1> QED
  BY <1>3, <1>4, <1>5, <1>6, <1>7

\* A command that was carried out is counted.
LEMMA CountLevel ==
    ASSUME NEW i \in Slots, NEW g, Left(g, i), NEW n \in 0 .. MostRepeats
    PROVE  Level(OnQueue(g, Counted(g.queue, i, n)))
<1> DEFINE m == OnQueue(g, Counted(g.queue, i, n))
<1>1. Doing(g, i) /\ Base(g) /\ Load(g, i) /\ Steady(g) /\ GameInv(g) /\ QueueInv(g.queue)
  BY Zenon DEF Left, Sound, Doing, GameInv
<1>2. CASE g.queue.slot[i].nrepeats > 0 /\ cmd_get_nrepeats(g.queue) = n
  <2>1. Loaded(g.queue, i)
    BY <1>2 DEF Loaded
  <2>2. Repeatable(g, i)
    BY <1>1, <2>1, Zenon DEF Load, Repeatable
  <2>3. Behind(g.queue.tail) = i
    BY <2>2, Zenon DEF Repeatable
  <2>4. n > 0
    BY <1>2, <2>3 DEF cmd_get_nrepeats, Current
  <2>5. n - 1 \in 0 .. MostRepeats
    BY <2>4, Numbers
  <2>6. m = SetRepeat(g, n - 1)
    BY <1>2 DEF Counted, SetRepeat
  <2> HIDE DEF m
  <2>7. Sound(m, i) /\ Repeatable(m, i) /\ (Steady(g) => Steady(m))
    BY <1>1, <2>2, <2>5, <2>6, SetRepeatSound
  <2>8. Current(m.queue) = m.queue.slot[i]
    BY <2>7, Zenon DEF Current, Repeatable
  <2> QED
    BY <1>1, <2>7, <2>8, Zenon DEF Level, Sound, Repeatable, m
<1>3. CASE ~(g.queue.slot[i].nrepeats > 0 /\ cmd_get_nrepeats(g.queue) = n)
  <2>1. Counted(g.queue, i, n) = g.queue
    BY <1>3 DEF Counted
  <2>2. m.queue = g.queue /\ m.up = g.up /\ m.history = g.history
    <3>1. m = OnQueue(g, g.queue)
      BY <2>1
    <3> HIDE DEF m
    <3> QED
      BY <1>1, <3>1, KeptSame, OnQueueParts
  <2> HIDE DEF m
  <2>3. Base(m) /\ Steady(m)
    BY <1>1, <2>2, SameCourse
  <2>4. ASSUME m.queue.repeating
        PROVE  /\ ~m.history.cut /\ Repeats(Current(m.queue)) /\ Fits(m, Current(m.queue))
    <3>1. Repeatable(g, i)
      BY <1>1, <2>2, <2>4, Zenon DEF Load, Loaded, Repeatable
    <3> QED
      BY <2>2, <3>1, Zenon DEF Repeatable, Current, Fits
  <2> QED
    BY <2>3, <2>4, Zenon DEF Level, m
<1> QED
  BY <1>2, <1>3

LEMMA CountDug ==
    ASSUME NEW i \in Slots, NEW g, Doing(g, i), Dug(g), ~Loaded(g.queue, i), NEW n
    PROVE  Dug(OnQueue(g, Counted(g.queue, i, n)))
<1> DEFINE m == OnQueue(g, Counted(g.queue, i, n))
<1>1. GameInv(g) /\ QueueInv(g.queue)
  BY Zenon DEF Doing, GameInv
<1>2. Counted(g.queue, i, n) = g.queue
  BY DEF Counted, Loaded
<1>3. m.queue = g.queue /\ m.up = g.up /\ m.history = g.history
  <2>1. m = OnQueue(g, g.queue)
    BY <1>2
  <2> HIDE DEF m
  <2> QED
    BY <1>1, <2>1, KeptSame, OnQueueParts
<1> HIDE DEF m
<1> QED
  BY <1>3, Zenon DEF Dug, m

LEMMA DisturbLevel ==
    ASSUME NEW g, GameInv(g), Base(g) PROVE GameInv(Disturb(g)) /\ Level(Disturb(g))
<1>1. /\ GameInv(Disturb(g)) /\ Base(Disturb(g)) /\ Steady(Disturb(g))
      /\ ~Disturb(g).queue.repeating
  BY DisturbBase
<1> QED
  BY <1>1, Zenon DEF Level

LEMMA FlushLevel ==
    ASSUME NEW g, GameInv(g), Base(g)
    PROVE  GameInv(Flush(Disturb(g))) /\ Level(Flush(Disturb(g)))
<1> DEFINE d == Disturb(g)
<1>1. /\ GameInv(d) /\ Base(d) /\ ~d.queue.repeating /\ d.up.running = 0 /\ ~d.up.steps
  BY DisturbBase
<1> HIDE DEF d
<1>2. /\ GameInv(Flush(d)) /\ Base(Flush(d)) /\ Steady(Flush(d))
      /\ Flush(d).queue.repeating = d.queue.repeating
  BY <1>1, FlushBase
<1> QED
  BY <1>1, <1>2, Zenon DEF Level, d

LEMMA ParalyzeLevel ==
    ASSUME NEW g, GameInv(g), Base(g)
    PROVE  GameInv(Paralyze(g)) /\ Level(Paralyze(g))
<1> DEFINE d == Disturb(g)
           m == Paralyze(g)
<1>1. /\ Base(d) /\ Steady(d) /\ ~d.queue.repeating /\ d.up.running = 0 /\ d.up.resting = 0
  BY DisturbBase
<1>2. /\ GameInv(m) /\ m.queue = d.queue /\ m.history = d.history /\ m.up.running = 0
      /\ m.up.resting = 0 /\ m.up.steps = d.up.steps
      /\ m.up.restDisturb = d.up.restDisturb
  BY ParalyzeGame
<1> HIDE DEF m, d
<1>3. Base(m) /\ Steady(m)
  BY <1>1, <1>2, SameCourse
<1> QED
  BY <1>1, <1>2, <1>3, Zenon DEF Level, m

\* The slots of a queue that is quieted.
LEMMA QuietSlots ==
    ASSUME NEW g, GameInv(g)
    PROVE  LET m == Disturb(g)
           IN  /\ Kinds(g.queue) => Kinds(m.queue)
               /\ ~m.queue.repeating
               /\ IF g.up.running > 0 THEN Held(m.queue) = {}
                  ELSE /\ m.queue.head = g.queue.head /\ m.queue.tail = g.queue.tail
                       /\ Held(m.queue) = Held(g.queue)
                       /\ \A j \in Held(g.queue) : m.queue.slot[j] = g.queue.slot[j]
<1> DEFINE m == Disturb(g)
           q == cmd_cancel_repeat(g.queue)
<1>1. g \in Games /\ QueueInv(g.queue)
  BY Zenon DEF GameInv
<1>2. /\ q.head = g.queue.head /\ q.tail = g.queue.tail /\ Held(q) = Held(g.queue)
      /\ q.copy = g.queue.copy
      /\ \A j \in Held(g.queue) : q.slot[j] = g.queue.slot[j]
      /\ \A j \in Slots : /\ q.slot[j].code = g.queue.slot[j].code
                          /\ q.slot[j].arg = g.queue.slot[j].arg
                          /\ \/ q.slot[j].nrepeats = g.queue.slot[j].nrepeats
                             \/ q.slot[j].nrepeats = 0
  BY <1>1, CancelParts
<1>3. q \in Queues
  BY <1>1, CancelStops DEF Stops, Kept, QueueInv
<1>4. m.queue = IF g.up.running > 0 THEN cmdq_flush(q) ELSE q
  <2>1. m = GameOf(Aged(g.board), OldTerm(g.term), QuietQueue(g), Stopped(g.up),
                   QuietHistory(g.history, g.up.running > 0))
    BY <1>1, DisturbIs
  <2> HIDE DEF m
  <2>2. m.queue = QuietQueue(g)
    BY <2>1 DEF GameOf
  <2> QED
    BY <2>2 DEF QuietQueue
<1>5. ~m.queue.repeating /\ (g.up.running > 0 => Held(m.queue) = {})
  BY DisturbParts DEF Stops
<1> HIDE DEF q, m
<1>6. m.queue.slot = q.slot /\ m.queue.copy = q.copy
  <2>1. cmdq_flush(q).slot = q.slot /\ cmdq_flush(q).copy = q.copy
    BY <1>3 DEF Queues, cmdq_flush
  <2> QED
    BY <1>4, <2>1
<1>7. Kinds(g.queue) => Kinds(m.queue)
  BY <1>2, <1>6 DEF Kinds, Repeats
<1> QED
  BY <1>2, <1>4, <1>5, <1>7 DEF m

\* A disturbance calls an order off only if the player runs.
LEMMA DisturbOrder ==
    ASSUME NEW g, GameInv(g), Ordered(g)
    PROVE  GameInv(Disturb(g)) /\ (Level(Disturb(g)) \/ Ordered(Disturb(g)))
<1> DEFINE m == Disturb(g)
           ran == g.up.running > 0
<1>1. /\ GameInv(m) /\ m.up = Stopped(g.up) /\ m.history = QuietHistory(g.history, ran)
  BY DisturbParts
<1>2. /\ Kinds(m.queue) /\ ~m.queue.repeating
      /\ IF ran THEN Held(m.queue) = {}
         ELSE /\ m.queue.head = g.queue.head /\ m.queue.tail = g.queue.tail
              /\ Held(m.queue) = Held(g.queue)
              /\ \A j \in Held(g.queue) : m.queue.slot[j] = g.queue.slot[j]
  BY QuietSlots DEF Ordered
<1>3. g.up \in Ups /\ g.history \in Histories /\ g.up.running \in Nat
  <2>1. g.up \in Ups /\ g.history \in Histories
    BY GameParts DEF GameInv
  <2> QED
    BY <2>1, UpTypes, Numbers
<1> HIDE DEF m
<1>4. /\ m.up.running = 0 /\ m.up.resting = 0
      /\ (m.up.steps <=> g.up.steps /\ g.up.running = 0)
  BY <1>1, <1>3, StoppedParts
<1>5. /\ m.history.cut /\ ~m.history.stuck /\ (m.history.given <=> g.history.given /\ ~ran)
      /\ m.history.twice = g.history.twice
  <2>1. ran \in BOOLEAN
    OBVIOUS
  <2> HIDE DEF ran
  <2> QED
    BY <1>1, <1>3, <2>1, QuietHistoryParts
<1>6. g.history.given /\ (g.up.steps => ran) /\ OrderQueue(g.queue)
  BY Zenon DEF Ordered
<1>7. ~m.up.steps
  BY <1>3, <1>4, <1>6
<1>8. CASE ran
  <2>1. Held(m.queue) = {}
    BY <1>2, <1>8
  <2>2. WaitOK(m.queue) /\ Pairs(m.queue, m.history.twice) /\ \A x : ~Has(m.queue, x)
    BY <2>1, NothingWaits
  <2>3. Base(m)
    BY <1>2, <1>4, <1>5, <1>7, <1>8, <2>2, Zenon DEF Base, Basis
  <2>4. Steady(m)
    BY <1>4 DEF Steady
  <2> QED
    BY <1>1, <1>2, <2>3, <2>4, Zenon DEF Level, m
<1>9. CASE ~ran
  <2>1. OrderQueue(m.queue)
    <3>1. /\ m.queue.head = g.queue.head /\ m.queue.tail = g.queue.tail
          /\ Held(m.queue) = Held(g.queue)
          /\ \A j \in Held(g.queue) : m.queue.slot[j] = g.queue.slot[j]
      BY <1>2, <1>9
    <3> QED
      BY <1>6, <3>1 DEF OrderQueue
  <2>2. ~(m.up.running > 0)
    BY <1>4
  <2> QED
    BY <1>1, <1>2, <1>5, <1>6, <1>7, <1>9, <2>1, <2>2, Zenon DEF Ordered, m
<1> QED
  BY <1>8, <1>9

\* What the keys and the clock change is of no matter.
LEMMA CourseLike ==
    ASSUME NEW g, NEW m, m.queue = g.queue, m.up = g.up,
           m.history.given <=> g.history.given, m.history.cut <=> g.history.cut,
           m.history.behind <=> g.history.behind, m.history.stuck <=> g.history.stuck,
           m.history.twice = g.history.twice
    PROVE  /\ Level(g) => Level(m)
           /\ Ordered(g) => Ordered(m)
           /\ Dug(g) => Dug(m)
<1>1. ASSUME Level(g) PROVE Level(m)
  BY <1>1, Zenon DEF Level, Base, Basis, Steady, Fits
<1>2. ASSUME Ordered(g) PROVE Ordered(m)
  BY <1>2, Zenon DEF Ordered
<1>3. ASSUME Dug(g) PROVE Dug(m)
  BY <1>3, Zenon DEF Dug
<1> QED
  BY <1>1, <1>2, <1>3

\* A step to a game that is on course.
LEMMA CourseTo ==
    ASSUME NEW g, Game' = g,
           \/ Level(g)
           \/ Ordered(g) /\ pc' \in {"turn", "pop"}
           \/ Dug(g) /\ pc' = "pop"
    PROVE  Course'
<1>1. /\ Level(Game') <=> Level(Game)'
      /\ Ordered(Game') <=> Ordered(Game)'
      /\ Dug(Game') <=> Dug(Game)'
  BY DEF Level, Ordered, Dug
<1> QED
  BY <1>1, Zenon DEF Course

LEMMA CourseSame ==
    ASSUME Course, NEW g, Game' = g, g.queue = queue, g.up = up,
           g.history.given <=> history.given, g.history.cut <=> history.cut,
           g.history.behind <=> history.behind, g.history.stuck <=> history.stuck,
           g.history.twice = history.twice, pc' = pc \/ (pc = "turn" /\ pc' = "pop")
    PROVE  Course'
<1>1. /\ Level(Game) => Level(g)
      /\ Ordered(Game) => Ordered(g)
      /\ Dug(Game) => Dug(g)
  BY CourseLike, GameFields
<1>2. /\ pc \in {"turn", "pop"} => pc' \in {"turn", "pop"}
      /\ pc = "pop" => pc' = "pop"
  OBVIOUS
<1> QED
  BY <1>1, <1>2, CourseTo, Zenon DEF Course

LEMMA InitCourse == Init => Course
<1> SUFFICES ASSUME Init PROVE Course
  OBVIOUS
<1>1. queue = EmptyQueue /\ up = Idle /\ history = NoHistory
  BY Zenon DEF Init
<1>2. Held(queue) = {} /\ ~queue.repeating /\ Kinds(queue)
  <2>1. queue.head = 0 /\ queue.tail = 0 /\ ~queue.repeating
    BY <1>1 DEF EmptyQueue
  <2>2. queue.copy.nrepeats = 0 /\ \A i \in Slots : queue.slot[i].nrepeats = 0
    BY <1>1 DEF EmptyQueue, NoCommand, Command
  <2>3. Held(queue) = {}
    BY <2>1 DEF Held, Slots
  <2> QED
    BY <2>1, <2>2, <2>3, Zenon DEF Kinds
<1>3. /\ up.running = 0 /\ ~up.steps /\ up.resting = 0 /\ ~history.given /\ ~history.cut
      /\ history.twice = FALSE
  BY <1>1 DEF Idle, NoHistory
<1>4. WaitOK(queue) /\ Pairs(queue, history.twice) /\ \A x : ~Has(queue, x)
  BY <1>2, NothingWaits
<1>5. Base(Game)
  BY <1>2, <1>3, <1>4, GameFields, Zenon DEF Base, Basis
<1>6. Steady(Game)
  BY <1>3, GameFields DEF Steady
<1> QED
  BY <1>2, <1>5, <1>6, GameFields, Zenon DEF Level, Course

LEMMA FingersCourse == ASSUME Course, Fingers PROVE Course'
<1>1. UNCHANGED <<term, queue, up, pc, history>>
  BY Zenon DEF Fingers
<1>2. Game'.queue = queue /\ Game'.up = up /\ Game'.history = history
  BY <1>1 DEF Game
<1> QED
  BY <1>1, <1>2, CourseSame

LEMMA NoCheckCourse == ASSUME Course, NoCheck PROVE Course'
<1>1. UNCHANGED <<board, term, queue, up, left, history>> /\ pc = "turn" /\ pc' = "pop"
  BY Zenon DEF NoCheck
<1>2. Game'.queue = queue /\ Game'.up = up /\ Game'.history = history
  BY <1>1 DEF Game
<1> QED
  BY <1>1, <1>2, CourseSame

LEMMA StutterCourse == ASSUME Course, UNCHANGED vars PROVE Course'
<1>1. UNCHANGED <<board, term, queue, up, pc, history>>
  BY Zenon DEF vars
<1>2. Game'.queue = queue /\ Game'.up = up /\ Game'.history = history
  BY <1>1 DEF Game
<1> QED
  BY <1>1, <1>2, CourseSame

LEMMA FlushInputCourse == ASSUME Inv, Course, FlushInput PROVE Course'
<1>1. PICK b \in AfterPoll : Becomes(Term_flush(Game, b))
  BY Zenon DEF FlushInput
<1> DEFINE m == Term_flush(Game, b)
<1>2. pc' = pc
  BY Zenon DEF FlushInput
<1>3. GameInv(m) /\ m.queue = queue /\ m.up = up /\ m.history = history
  BY <1>1, Parts, FlushKeys, GameFields DEF AfterPoll
<1>4. Game' = m
  BY <1>1, <1>3, BecomesGame
<1> HIDE DEF m
<1> QED
  BY <1>2, <1>3, <1>4, CourseSame

LEMMA AskCourse == ASSUME Inv, Course, Ask PROVE Course'
<1>1. PICK b \in AfterPoll : Becomes(check_events(Game, b))
  BY Zenon DEF Ask
<1> DEFINE m == check_events(Game, b)
<1>2. pc' = pc
  BY Zenon DEF Ask
<1>3. GameInv(m) /\ m.queue = queue /\ m.up = up /\ m.history = history
  <2>1. b \in {keyboard_poll(Game.board)} \cup PollsThatFail(Game.board) /\ GameInv(Game)
    BY <1>1, Parts, GameFields DEF AfterPoll
  <2>2. GameInv(m) /\ m.queue = Game.queue /\ m.up = Game.up /\ m.history = Game.history
    BY <2>1, CheckParts
  <2> QED
    BY <2>2, GameFields
<1>4. Game' = m
  BY <1>1, <1>3, BecomesGame
<1> HIDE DEF m
<1> QED
  BY <1>2, <1>3, <1>4, CourseSame

\* With nothing that waits, nothing was ordered and nothing is in the way.
LEMMA NothingIsLevel ==
    ASSUME Inv, Course, ~Pending(queue)
    PROVE  Level(Game)
  BY GameFields, Zenon DEF Course, Ordered, OrderQueue, Dug, DugQueue, Pending

LEMMA ExhaustedCourse == ASSUME Inv, Course, Exhausted PROVE Course'
<1>1. ~Pending(Ready.queue) /\ UNCHANGED <<board, term, queue, up, history>>
  BY Zenon DEF Exhausted
<1>2. ~Pending(queue)
  BY <1>1, ReadyParts
<1>3. Level(Game)
  BY <1>2, NothingIsLevel
<1>4. Game' = Game
  BY <1>1 DEF Game
<1> QED
  BY <1>3, <1>4, CourseTo

\* A disturbance while the player has the turn.
LEMMA DisturbCourse ==
    ASSUME NEW g, GameInv(g), Level(g) \/ Ordered(g), Becomes(Disturb(g)),
           pc' \in {"turn", "pop"}
    PROVE  Course'
<1>1. GameInv(Disturb(g)) /\ (Level(Disturb(g)) \/ Ordered(Disturb(g)))
  BY DisturbLevel, DisturbOrder, Zenon DEF Level
<1>2. Game' = Disturb(g)
  BY <1>1, BecomesGame
<1> QED
  BY <1>1, <1>2, CourseTo

LEMMA RestCompleteCourse == ASSUME Inv, Course, RestComplete PROVE Course'
<1>1. Becomes(Disturb(Game)) /\ pc = "turn" /\ pc' = pc
  BY Zenon DEF RestComplete
<1>2. Level(Game) \/ Ordered(Game)
  BY <1>1 DEF Course
<1> QED
  BY <1>1, <1>2, Parts, DisturbCourse

LEMMA InterruptCourse == ASSUME Inv, Course, Interrupt PROVE Course'
<1>1. PICK b \in AfterPoll :
          LET g == check_events(Game, b)
          IN  Becomes(IF g.term.keys = <<>> THEN g
                      ELSE Disturb([g EXCEPT !.term.keys = Tail(@)]))
  BY Zenon DEF Interrupt
<1> DEFINE g == check_events(Game, b)
           t == [g EXCEPT !.term.keys = Tail(@)]
<1>2. pc = "turn" /\ pc' = "pop"
  BY Zenon DEF Interrupt
<1>3. GameInv(g) /\ g.queue = Game.queue /\ g.up = Game.up /\ g.history = Game.history
  <2>1. b \in {keyboard_poll(Game.board)} \cup PollsThatFail(Game.board) /\ GameInv(Game)
    BY <1>1, Parts, GameFields DEF AfterPoll
  <2> QED
    BY <2>1, CheckParts
<1>4. Becomes(IF g.term.keys = <<>> THEN g ELSE Disturb(t))
  BY <1>1
<1>5. g.term.keys # <<>> => GameInv(t) /\ t.queue = g.queue /\ t.up = g.up
                            /\ t.history = g.history
  BY <1>3, TakeKey
<1> HIDE DEF t, g
<1>6. Level(Game) \/ Ordered(Game)
  BY <1>2 DEF Course
<1>7. CASE g.term.keys = <<>>
  <2>1. Game' = g
    BY <1>3, <1>4, <1>7, BecomesGame
  <2> QED
    BY <1>2, <1>3, <2>1, CourseSame, GameFields
<1>8. CASE g.term.keys # <<>>
  <2>1. t.queue = Game.queue /\ t.up = Game.up /\ t.history = Game.history /\ GameInv(t)
    BY <1>3, <1>5, <1>8
  <2>2. Level(t) \/ Ordered(t)
    BY <1>6, <2>1, CourseLike
  <2>3. Becomes(Disturb(t))
    BY <1>4, <1>8
  <2> QED
    BY <1>2, <2>1, <2>2, <2>3, DisturbCourse
<1> QED
  BY <1>7, <1>8

LEMMA MonsterCourse == ASSUME Inv, Course, Monster PROVE Course'
<1>1. pc = "world" /\ (\/ Becomes(Disturb(Game)) \/ Becomes(Flush(Disturb(Game)))
                       \/ Becomes(Paralyze(Game)))
  BY Zenon DEF Monster
<1>2. Base(Game) /\ GameInv(Game)
  BY <1>1, Parts DEF Course, Level
<1>3. ASSUME NEW m, GameInv(m), Level(m), Becomes(m) PROVE Course'
  BY <1>3, BecomesGame, CourseTo
<1> QED
  BY <1>1, <1>2, <1>3, DisturbLevel, FlushLevel, ParalyzeLevel

LEMMA TimeCourse == ASSUME Inv, Course, Time PROVE Course'
<1> DEFINE p == up.paralyzed - 1
           u == [up EXCEPT !.paralyzed = p]
           g == [Game EXCEPT !.up = u]
<1>1. g = [Game EXCEPT !.up.paralyzed = @ - 1]
  BY GameFields, Zenon
<1>2. Level(Game)
  BY DEF Course, Time
<1>3. CASE UNCHANGED <<board, term, queue, up, history>>
  <2>1. Game' = Game
    BY <1>3 DEF Game
  <2> QED
    BY <1>2, <2>1, CourseTo
<1>4. CASE up.paralyzed > 0 /\ Becomes(IF g.up.paralyzed = 0 THEN Disturb(g) ELSE g)
  <2>1. up \in Ups /\ p \in 0 .. MaxSleep
    <3>1. up \in Ups /\ up.paralyzed \in 0 .. MaxSleep
      BY Parts, UpTypes
    <3> QED
      BY <1>4, <3>1, Numbers
  <2> HIDE DEF p
  <2>2. /\ u \in Ups /\ u.running = up.running /\ u.steps = up.steps
        /\ u.resting = up.resting /\ u.restDisturb = up.restDisturb
    BY <2>1 DEF Ups
  <2> HIDE DEF u
  <2>3. GameInv(g) /\ g.queue = queue /\ g.history = history /\ g.up = u
    BY <2>2, Parts, WithUp, GameFields
  <2> HIDE DEF g
  <2>4. Base(g) /\ Steady(g)
    BY <1>2, <2>2, <2>3, SameCourse, GameFields DEF Level
  <2>5. Level(g)
    BY <1>2, <2>3, <2>4, GameFields, Zenon DEF Level, Fits
  <2>6. GameInv(Disturb(g)) /\ Level(Disturb(g))
    BY <2>3, <2>4, DisturbLevel
  <2>7. CASE g.up.paralyzed = 0
    <3>1. Game' = Disturb(g)
      BY <1>4, <2>6, <2>7, BecomesGame
    <3> QED
      BY <2>6, <3>1, CourseTo
  <2>8. CASE g.up.paralyzed # 0
    <3>1. Game' = g
      BY <1>4, <2>3, <2>8, BecomesGame
    <3> QED
      BY <2>5, <3>1, CourseTo
  <2> QED
    BY <2>7, <2>8
<1> HIDE DEF p, u, g
<1>5. \/ UNCHANGED <<board, term, queue, up, history>>
      \/ up.paralyzed > 0 /\ Becomes(IF g.up.paralyzed = 0 THEN Disturb(g) ELSE g)
  BY <1>1, Zenon DEF Time
<1> QED
  BY <1>3, <1>4, <1>5

LEMMA PerformCourse == ASSUME Inv, Course, Perform PROVE Course'
<1> DEFINE q == Taken(Ready.queue)
           i == Behind(q.tail)
           c == q.slot[i]
<1>1. /\ Pending(Ready.queue)
      /\ \/ \E r \in Does(Began, c) :
               /\ Becomes(OnQueue(r.game, Counted(r.game.queue, i, c.nrepeats)))
               /\ pc' = IF r.energy THEN "world" ELSE "pop"
         \/ Becomes(Disturb(Began)) /\ pc' = "world"
  BY Zenon DEF Perform, Began
<1>2. i \in Slots /\ c \in Commands /\ c.code \in Codes /\ Begins(Began, i, c)
  BY <1>1, PerformBegins
<1> HIDE DEF q, i, c
<1>3. c.nrepeats \in 0 .. MostRepeats
  BY <1>2, CommandTypes
<1>4. Sound(Began, i) /\ Doing(Began, i)
  BY <1>2, Zenon DEF Begins, Sound
<1>5. ASSUME NEW r \in Does(Began, c),
             Becomes(OnQueue(r.game, Counted(r.game.queue, i, c.nrepeats))),
             pc' = IF r.energy THEN "world" ELSE "pop"
      PROVE  Course'
  <2> DEFINE m == OnQueue(r.game, Counted(r.game.queue, i, c.nrepeats))
  <2>1. Doing(r.game, i)
    BY <1>2, <1>4, DoesDo DEF AllDo
  <2>2. GameInv(m)
    BY <1>2, <1>3, <2>1, CountedGame
  <2>3. Game' = m
    BY <1>5, <2>2, BecomesGame
  <2>4. After(r, i)
    BY <1>2, DoesAfter
  <2>5. CASE Left(r.game, i)
    <3>1. Level(m)
      BY <1>2, <1>3, <2>5, CountLevel
    <3> QED
      BY <2>3, <3>1, CourseTo
  <2>6. CASE ~r.energy /\ Dug(r.game) /\ ~Loaded(r.game.queue, i)
    <3>1. Dug(m)
      BY <1>2, <2>1, <2>6, CountDug
    <3> QED
      BY <1>5, <2>3, <2>6, <3>1, CourseTo
  <2> QED
    BY <2>4, <2>5, <2>6 DEF After
<1>6. CASE Becomes(Disturb(Began)) /\ pc' = "world"
  <2>1. GameInv(Began) /\ Base(Began)
    BY <1>4, Zenon DEF Sound, Doing
  <2>2. GameInv(Disturb(Began)) /\ Level(Disturb(Began))
    BY <2>1, DisturbLevel
  <2>3. Game' = Disturb(Began)
    BY <1>6, <2>2, BecomesGame
  <2> QED
    BY <2>2, <2>3, CourseTo
<1> QED
  BY <1>1, <1>5, <1>6

-----------------------------------------------------------------------------
(* An order.                                                               *)

LEMMA PlayerCommandKinds ==
    ASSUME NEW c \in PlayerCommands
    PROVE  c.nrepeats # 0 => Repeats(c)
<1>1. CASE \E code \in {"CMD_WALK", "CMD_RUN"}, n \in {0, MaxCount} : c = Command(code, n, 1)
  BY <1>1 DEF Command, Repeats
<1>2. CASE c \in {Command("CMD_TUNNEL", 0, 0), Command("CMD_PATHFIND", 0, 0)}
  BY <1>2 DEF Command
<1>3. CASE \E n \in {Special, MaxRest} : c = Command("CMD_REST", 0, n)
  BY <1>3 DEF Command
<1> QED
  BY <1>1, <1>2, <1>3 DEF PlayerCommands

\* It is all that waits.
LEMMA OrderAlone ==
    ASSUME NEW q, QueueInv(q), ~Pending(q), Kinds(q), NEW c, c.nrepeats # 0 => Repeats(c),
           NEW r, r.slot[q.head] = c, \A j \in Slots \ {q.head} : r.slot[j] = q.slot[j],
           r.copy = q.copy \/ r.copy = q.slot[q.head], r.head = Ahead(q.head),
           r.tail = q.tail, r.repeating <=> q.repeating
    PROVE  OrderQueue(r) /\ Kinds(r) /\ ~r.repeating /\ Pending(r)
<1>1. Pointers(q) /\ q.head = q.tail /\ ~q.repeating /\ q.head \in Slots
  BY QueueTypes, Zenon DEF QueueInv, Pending
<1>2. ~Full(q) /\ Held(q) = {}
  BY <1>1, HeldSlots
<1>3. Held(r) = Held(q) \cup {q.head}
  BY <1>1, <1>2, OneMoreHeld
<1>4. Held(r) \ {r.tail} = {}
  BY <1>1, <1>2, <1>3
<1>5. r.head # r.tail
  BY <1>1, Neighbours
<1>6. \A i \in Slots : r.slot[i].nrepeats # 0 => Repeats(r.slot[i])
  BY Zenon DEF Kinds
<1>7. r.copy.nrepeats # 0 => Repeats(r.copy)
  BY <1>1, Zenon DEF Kinds
<1> QED
  BY <1>1, <1>4, <1>5, <1>6, <1>7 DEF OrderQueue, Kinds, Pending

LEMMA AnswerIsOrder ==
    ASSUME Inv, pc = "prompt", Kinds(queue),
           NEW q, \/ \E c \in PlayerCommands : q = cmdq_push_copy(queue, c)
                  \/ q = cmdq_push_again(queue) /\ CanRepeat(queue)
    PROVE  OrderQueue(q) /\ Kinds(q) /\ ~q.repeating /\ Pending(q)
<1>1. QueueInv(queue) /\ ~Pending(queue) /\ queue \in Queues /\ queue.head \in Slots
  BY Parts, QueueTypes, Zenon DEF Inv
<1>2. ~Full(queue) /\ queue.slot \in [Slots -> Commands]
  <2>1. Pointers(queue) /\ queue.head = queue.tail
    BY <1>1, QueueTypes, Zenon DEF Pending
  <2> QED
    BY <1>1, <2>1, HeldSlots, QueueTypes
<1>3. CASE \E c \in PlayerCommands : q = cmdq_push_copy(queue, c)
  <2>1. PICK c \in PlayerCommands : q = cmdq_push_copy(queue, c)
    BY <1>3
  <2>2. c \in Commands /\ (c.nrepeats # 0 => Repeats(c))
    BY PlayerCommandTypes, PlayerCommandKinds
  <2>3. /\ q.slot = [queue.slot EXCEPT ![queue.head] = c] /\ q.head = Ahead(queue.head)
        /\ q.tail = queue.tail /\ (q.repeating <=> queue.repeating)
    BY <1>1, <1>2, <2>1, <2>2, PushParts
  <2>4. q.copy = queue.copy \/ q.copy = queue.slot[queue.head]
    BY <1>1, <1>2, <2>1, <2>2, PushCopy
  <2>5. q.slot[queue.head] = c /\ \A j \in Slots \ {queue.head} : q.slot[j] = queue.slot[j]
    BY <1>1, <1>2, <2>3
  <2> QED
    BY <1>1, <2>2, <2>3, <2>4, <2>5, OrderAlone
<1>4. CASE q = cmdq_push_again(queue) /\ CanRepeat(queue)
  <2> DEFINE c == LastCommand(queue)
  <2>1. /\ q.slot[queue.head] = c /\ q.copy = queue.copy
        /\ \A i \in Slots \ {queue.head} : q.slot[i] = queue.slot[i]
        /\ q.head = Ahead(queue.head) /\ q.tail = queue.tail
        /\ (q.repeating <=> queue.repeating)
    BY <1>1, <1>4, AgainParts
  <2>2. c.nrepeats # 0 => Repeats(c)
    <3>1. queue.last \in Slots \/ ~(queue.last >= 0)
      BY <1>1, QueueTypes
    <3> QED
      BY <3>1 DEF LastCommand, Kinds
  <2> HIDE DEF c
  <2> QED
    BY <1>1, <2>1, <2>2, OrderAlone
<1> QED
  BY <1>3, <1>4

LEMMA AnswerCourse == ASSUME Inv, Course, Answer PROVE Course'
<1>1. PICK q : /\ \/ \E c \in PlayerCommands : q = cmdq_push_copy(queue, c)
                  \/ q = cmdq_push_again(queue)
               /\ Becomes(Given(q))
  BY DEF Answer, Given
<1>2. pc = "prompt" /\ term.keys # <<>> /\ pc' = "turn"
  BY Zenon DEF Answer
<1>3. QueueInv(q) /\ LastMeans(q, history.last) /\ Pending(q) \in BOOLEAN
  <2>1. QueueInv(q) /\ LastMeans(q, history.last)
    BY <1>1, <1>2, AnswerQueue
  <2> QED
    BY <2>1, QueueTypes DEF Pending, QueueInv
<1> DEFINE g == Given(q)
<1>4. /\ GameInv(g) /\ g.queue = q /\ g.up = up /\ ~g.history.cut /\ ~g.history.behind
      /\ (g.history.given <=> Pending(q))
      /\ (g.history.twice <=> history.twice /\ up.running > 0)
      /\ g.history.stuck = history.stuck
  BY <1>2, <1>3, GivenParts
<1> HIDE DEF g
<1>5. Game' = g
  BY <1>1, <1>4, BecomesGame DEF g
<1>6. ~Pending(queue) /\ Level(Game)
  BY <1>2, NothingIsLevel, Zenon DEF Inv
<1>7. Held(queue) = {}
  BY <1>6, Parts, QueueTypes, HeldSlots DEF Pending
<1>8. \A x : ~Has(queue, x)
  BY <1>7, NothingWaits
<1>9. /\ Kinds(queue) /\ (up.steps => up.running > 0)
      /\ up.running > 0 /\ ~history.stuck => history.twice
  BY <1>6, <1>8, GameFields, Zenon DEF Level, Base, Basis, Steady
<1>10. CASE \/ \E c \in PlayerCommands : q = cmdq_push_copy(queue, c)
            \/ q = cmdq_push_again(queue) /\ CanRepeat(queue)
  <2>1. OrderQueue(q) /\ Kinds(q) /\ ~q.repeating /\ Pending(q)
    BY <1>2, <1>9, <1>10, AnswerIsOrder
  <2>2. Ordered(g)
    BY <1>4, <1>9, <2>1, Zenon DEF Ordered
  <2> QED
    BY <1>2, <1>5, <2>2, CourseTo
<1>11. CASE q = cmdq_push_again(queue) /\ ~CanRepeat(queue)
  <2>1. q = queue
    BY <1>11 DEF cmdq_push_again
  <2>2. ~g.history.given /\ ~g.queue.repeating
    BY <1>4, <1>6, <2>1 DEF Pending
  <2>3. WaitOK(queue) /\ Pairs(queue, g.history.twice)
    BY <1>7, NothingWaits
  <2>4. Base(g)
    BY <1>4, <1>8, <1>9, <2>1, <2>2, <2>3, Zenon DEF Base, Basis
  <2>5. Steady(g)
    BY <1>4, <1>9, Zenon DEF Steady
  <2>6. Level(g)
    BY <2>2, <2>4, <2>5, Zenon DEF Level
  <2> QED
    BY <1>5, <2>6, CourseTo
<1> QED
  BY <1>1, <1>10, <1>11

LEMMA NextCourse == ASSUME Inv, Course, [Next]_vars PROVE Course'
<1>1. CASE UNCHANGED vars
  BY <1>1, StutterCourse
<1>2. CASE Next
  BY <1>2, FingersCourse, FlushInputCourse, RestCompleteCourse, InterruptCourse,
     NoCheckCourse, PerformCourse, ExhaustedCourse, AskCourse, AnswerCourse, MonsterCourse,
     TimeCourse, Zenon DEF Next
<1> QED
  BY <1>1, <1>2

LEMMA CourseAlways == Spec => []Course
<1>1. Init => Course
  BY InitCourse
<1>2. Inv /\ Course /\ [Next]_vars => Course'
  BY NextCourse
<1> QED
  BY <1>1, <1>2, InvAlways, PTL DEF Spec

-----------------------------------------------------------------------------
(* What follows from it.                                                   *)

LEMMA WaitsHas ==
    ASSUME Inv, NEW code
    PROVE  Waits(code) # {} <=> Has(queue, code)
<1>1. ToSet(AsList(queue)) = {queue.slot[i] : i \in Held(queue)}
  BY Parts, ListTypes
<1> QED
  BY <1>1 DEF Waits, Has

LEMMA CourseEnds == Inv /\ Course => DisturbanceEndsAll
<1> SUFFICES ASSUME Inv, Course, history.cut, ~history.given
             PROVE  /\ ~queue.repeating
                    /\ up.running = 0 /\ (Waits("CMD_RUN") # {} => history.twice)
                    /\ up.resting = 0 /\ (Waits("CMD_REST") # {} => up.restDisturb)
  BY Zenon DEF DisturbanceEndsAll
<1>1. Level(Game)
  BY GameFields, Zenon DEF Course, Ordered, Dug
<1>2. ~queue.repeating
  BY <1>1, GameFields, Zenon DEF Level
<1>3. /\ up.running = 0 /\ up.resting = 0
      /\ Has(queue, "CMD_RUN") => history.twice
      /\ Has(queue, "CMD_REST") => up.restDisturb
  BY <1>1, GameFields, Zenon DEF Level, Base, Basis
<1> QED
  BY <1>2, <1>3, WaitsHas

\* disturb() ends all that goes on by itself, however many commands and runs came
\* before, and whatever has been put into the ring in what order: until the player's
\* next command nothing repeats, runs or rests, what waits of a run is a step of one
\* that was begun twice, and what waits of a rest will be refused.
THEOREM DisturbanceAlwaysEndsAll == Spec => []DisturbanceEndsAll
<1>1. Inv /\ Course => DisturbanceEndsAll
  BY CourseEnds
<1> QED
  BY <1>1, InvAlways, CourseAlways, PTL

LEMMA CourseSteps == Inv /\ Course => RunHasItsNextStep
<1> SUFFICES ASSUME Inv, Course, ~history.stuck, ~history.twice
             PROVE  /\ up.running > 0 => Waits("CMD_RUN") # {}
                    /\ pc = "world" /\ (\E c \in Waits("CMD_RUN") : c.arg = 0) => up.running > 0
                    /\ up.steps => up.running > 0
  BY Zenon DEF RunHasItsNextStep
<1>1. up.running > 0 => Has(queue, "CMD_RUN")
  <2>1. CASE Level(Game)
    BY <2>1, GameFields, Zenon DEF Level, Steady
  <2>2. CASE Ordered(Game)
    BY <2>2, GameFields, Zenon DEF Ordered
  <2>3. CASE Dug(Game)
    BY <2>3, GameFields DEF Dug
  <2> QED
    BY <2>1, <2>2, <2>3 DEF Course
<1>2. up.steps => up.running > 0
  BY GameFields, Zenon DEF Course, Level, Base, Ordered, Dug
<1>3. ASSUME pc = "world", NEW c \in Waits("CMD_RUN") PROVE up.running > 0
  <2>1. Level(Game)
    BY <1>3 DEF Course
  <2>2. Has(queue, "CMD_RUN")
    BY <1>3, WaitsHas
  <2>3. up.running # 0
    BY <2>1, <2>2, GameFields, Zenon DEF Level, Base, Basis
  <2>4. up.running \in Nat
    BY Parts, UpTypes, Numbers
  <2> QED
    BY <2>3, <2>4
<1> QED
  BY <1>1, <1>2, <1>3, WaitsHas

\* A run or a path that is under way has its next step in the queue, and there is no
\* path without a run, in every state of every play, whatever the player does between;
\* only a web, a full queue or a run that is begun twice breaks it.
THEOREM RunAlwaysHasItsNextStep == Spec => []RunHasItsNextStep
<1>1. Inv /\ Course => RunHasItsNextStep
  BY CourseSteps
<1> QED
  BY <1>1, InvAlways, CourseAlways, PTL
=============================================================================
