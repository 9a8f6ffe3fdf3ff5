---------------------------- MODULE GameLoopProofs ----------------------------
(***************************************************************************)
(* Proofs about GameLoop, for every number of monsters, every rate at      *)
(* which they gain energy and every period of the world.                   *)
(***************************************************************************)
EXTENDS GameLoop, TLAPS

-----------------------------------------------------------------------------
(* Types, and how much energy the player has where.                        *)

MonstersOK ==
    /\ here \subseteq Slots /\ handled \subseteq here /\ since \subseteq here
    /\ menergy \in [Slots -> 0 .. Top] /\ fed \in [Slots -> 0 .. 2]

LoopOK ==
    /\ pc \in Points /\ round \in {"first", "again", "loaded"}
    /\ minimum \in 0 .. Top + 1 /\ cursor \in 0 .. MaxMonsters
    /\ turn \in 0 .. WorldEvery - 1 /\ life \in {"playing", "left", "dead"}

PlaceOK ==
    /\ depth \in Depths /\ level \in Depths \cup {"arena"}
    /\ upkeep \subseteq {"generate_level", "arena_level", "autosave"}
    /\ chunks \subseteq Depths /\ deep_descent \in 0 .. MaxDescent

BatteryOK ==
    /\ raw \in Readings \cup {"none"} /\ announced \in {"none", "low", "critical"}
    /\ rescued \in {"no", "yes"}
    /\ saved \in [depth : Depths, level : Depths \cup {"arena"}]

\* TypeOK is not inductive as it stands: that nobody has more energy than two
\* moves take holds because energy is given out only while the player is short
\* of a move, which is known from "again" on.
CannotMove == energy < MoveEnergy
Unused == {"prompt", "refreshB", "pop", "repeat"}   \* nothing has taken energy yet
Moved == {"refreshD", "world", "refreshE", "gain"}  \* all monsters have had their turn
EnergyOK ==
    /\ energy \in Int /\ energy <= Top /\ energy_use \in 0 .. MoveEnergy
    /\ pc \in Unused => energy_use = 0
    /\ pc \in {"refreshC", "turn"} => CannotMove \/ life # "playing" \/ Leaving
    /\ pc = "pass" /\ minimum = 0 => CannotMove
    /\ pc \in Moved => CannotMove

TypeInv == MonstersOK /\ LoopOK /\ PlaceOK /\ BatteryOK /\ EnergyOK

LEMMA EnergyTypes ==
    /\ MoveEnergy \in Nat /\ MoveEnergy > 0 /\ Top = 2 * MoveEnergy
    /\ \A g \in Gains : g \in Nat /\ 0 < g /\ g <= MoveEnergy
    /\ MaxMonsters \in Nat /\ WorldEvery \in Nat /\ WorldEvery > 0
    /\ MaxDescent \in Nat
    /\ Slots = 1 .. MaxMonsters
  BY LoopAssumption DEF Top, Slots

\* The actions that leave a part of the state alone.
LEMMA Frames ==
    ASSUME [Next]_vars
    PROVE  /\ UNCHANGED monsters \/ Command \/ MonsterActs \/ PassRest \/ World
                  \/ Gain \/ Leave
           /\ UNCHANGED place \/ Reload \/ Command \/ MonsterActs \/ World
                  \/ Leave \/ Arrive
           /\ \/ UNCHANGED battery \/ Poll \/ RefreshPlayer \/ RefreshWorld
              \/ Reload \/ Leave \/ Arrive
  BY DEF Next, LoopStep, vars, Key, Poll, Reload, RefreshPlayer, NoCommand,
     Cleanup, Played, Again, PassOver, PassBefore, PassRest, RefreshWorld,
     Turn, Arrive, Command, MonsterActs, World, Gain

LEMMA RefreshTypes ==
    ASSUME BatteryOK, PlaceOK, Refresh
    PROVE  BatteryOK'
  BY DEF BatteryOK, PlaceOK, Refresh, Due, battery

LEMMA FeedsTypes ==
    ASSUME MonstersOK, NEW i \in Slots, i \in here, Feeds(i), here' \subseteq Slots
    PROVE  /\ handled' \subseteq here' /\ since' \subseteq here'
           /\ fed' \in [Slots -> 0 .. 2]
  BY DEF MonstersOK, Feeds

\* What a monster's turn leaves of the state around it.
LEMMA MonsterTurnEffect ==
    ASSUME MonstersOK, NEW i \in Slots, i \in here, NEW left \in 0 .. Top,
           MonsterTurn(i, left)
    PROVE  /\ menergy' \in [Slots -> 0 .. Top] /\ here' \subseteq Slots
           /\ \A j \in here' \ {i} :
                 IF j \in here THEN menergy'[j] = menergy[j] ELSE menergy'[j] < MoveEnergy
           /\ life' \in {life, "dead"}
           /\ energy' = energy \/ energy' = 0
           /\ UNCHANGED <<level, chunks, deep_descent>>
           /\ UNCHANGED place \/ (~Arena /\ \E to \in Depths : ChangesLevel(to))
<1> USE EnergyTypes DEF MonstersOK
<1>1. CASE /\ menergy' = [menergy EXCEPT ![i] = left] /\ life' \in {life, "dead"}
           /\ UNCHANGED <<here, energy, place>>
  BY <1>1 DEF place
<1>2. CASE /\ menergy' = [menergy EXCEPT ![i] = left] /\ energy' = 0
           /\ UNCHANGED <<here, life, place>>
  BY <1>2 DEF place
<1>3. CASE /\ ~Arena /\ \E to \in Depths : ChangesLevel(to)
           /\ menergy' = [menergy EXCEPT ![i] = left]
           /\ UNCHANGED <<here, energy, life, level, chunks, deep_descent>>
  BY <1>3
<1>4. CASE /\ \E j \in here :
                 here' = here \ {j} /\ menergy' = [menergy EXCEPT ![i] = left, ![j] = 0]
           /\ UNCHANGED <<energy, life, place>>
  <2>1. PICK j \in here :
           here' = here \ {j} /\ menergy' = [menergy EXCEPT ![i] = left, ![j] = 0]
    BY <1>4
  <2>2. menergy' \in [Slots -> 0 .. Top] /\ here' \subseteq Slots
    BY <2>1
  <2>3. \A k \in here' \ {i} : k \in here /\ menergy'[k] = menergy[k]
    BY <2>1
  <2> QED
    BY <1>4, <2>2, <2>3 DEF place
<1>5. CASE /\ \E j \in Slots \ here, e \in 0 .. MoveEnergy - 1 :
                 here' = here \cup {j} /\ menergy' = [menergy EXCEPT ![i] = left, ![j] = e]
           /\ UNCHANGED <<energy, life, place>>
  <2>1. PICK j \in Slots \ here, e \in 0 .. MoveEnergy - 1 :
           here' = here \cup {j} /\ menergy' = [menergy EXCEPT ![i] = left, ![j] = e]
    BY <1>5
  <2>2. e \in 0 .. Top /\ e < MoveEnergy /\ j \in Slots /\ i # j
    OBVIOUS
  <2>3. menergy' \in [Slots -> 0 .. Top] /\ here' \subseteq Slots
    BY <2>1, <2>2
  <2>4. \A k \in here' \ {i} :
          IF k \in here THEN menergy'[k] = menergy[k] ELSE menergy'[k] < MoveEnergy
    BY <2>1, <2>2
  <2> QED
    BY <1>5, <2>3, <2>4 DEF place
<1> QED
  BY <1>1, <1>2, <1>3, <1>4, <1>5 DEF MonsterTurn

\* Energy that a monster gains or spends stays below the top, whatever the rate.
LEMMA ActsEffect ==
    ASSUME MonstersOK, LoopOK, MonsterActs
    PROVE  /\ cursor \in Slots /\ cursor \in here /\ cursor \notin handled
           /\ pc = "pass" /\ life # "dead" /\ ~Leaving /\ menergy[cursor] >= minimum
           /\ menergy' \in [Slots -> 0 .. Top] /\ here' \subseteq Slots
           /\ \A j \in here' \ {cursor} :
                 IF j \in here THEN menergy'[j] = menergy[j] ELSE menergy'[j] < MoveEnergy
           /\ life' \in {life, "dead"}
           /\ energy' = energy \/ energy' = 0
           /\ UNCHANGED <<level, chunks, deep_descent>>
           /\ UNCHANGED place \/ (~Arena /\ \E to \in Depths : ChangesLevel(to))
           /\ cursor' = cursor - 1 /\ Feeds(cursor)
           /\ UNCHANGED <<pc, round, minimum, energy_use, turn, battery>>
<1> USE EnergyTypes
<1>1. /\ cursor \in Slots /\ cursor \in here /\ menergy[cursor] \in 0 .. Top
      /\ cursor \notin handled /\ pc = "pass" /\ life # "dead" /\ ~Leaving
      /\ menergy[cursor] >= minimum
  BY DEF MonsterActs, Passing, Waits, MonstersOK, LoopOK
<1>2. /\ cursor' = cursor - 1 /\ Feeds(cursor)
      /\ UNCHANGED <<pc, round, minimum, energy_use, turn, battery>>
  BY DEF MonsterActs
<1>3. PICK gain \in Gains :
         IF menergy[cursor] >= MoveEnergy
         THEN MonsterTurn(cursor, menergy[cursor] + gain - MoveEnergy)
         ELSE /\ menergy' = [menergy EXCEPT ![cursor] = @ + gain]
              /\ UNCHANGED <<here, energy, life, place>>
  BY DEF MonsterActs
<1>4. CASE menergy[cursor] < MoveEnergy
  <2>1. menergy[cursor] + gain \in 0 .. Top
    BY <1>1, <1>4
  <2>2. /\ menergy' = [menergy EXCEPT ![cursor] = @ + gain]
        /\ UNCHANGED <<here, energy, life, place>>
    BY <1>1, <1>3, <1>4
  <2>3. menergy' \in [Slots -> 0 .. Top] /\ here' \subseteq Slots
    BY <1>1, <2>1, <2>2 DEF MonstersOK
  <2>4. \A j \in here' \ {cursor} : menergy'[j] = menergy[j]
    BY <1>1, <2>2 DEF MonstersOK
  <2> QED
    BY <1>1, <1>2, <2>2, <2>3, <2>4 DEF place
<1>5. CASE menergy[cursor] >= MoveEnergy
  <2> DEFINE left == menergy[cursor] + gain - MoveEnergy
  <2>1. left \in 0 .. Top
    BY <1>1, <1>5
  <2>2. MonsterTurn(cursor, left)
    BY <1>3, <1>5
  <2> HIDE DEF left
  <2> QED
    BY <1>1, <1>2, <2>1, <2>2, MonsterTurnEffect
<1> QED
  BY <1>1, <1>4, <1>5

LEMMA TypeInit == Init => TypeInv
<1> SUFFICES ASSUME Init PROVE TypeInv
  OBVIOUS
<1> USE EnergyTypes, LoopAssumption DEF Init
<1>1. MonstersOK
  <2>1. menergy \in [Slots -> 0 .. Top]
    OBVIOUS
  <2> QED
    BY <2>1 DEF MonstersOK
<1>2. BatteryOK
  BY DEF BatteryOK
<1>3. LoopOK /\ PlaceOK /\ EnergyOK
  BY DEF LoopOK, PlaceOK, EnergyOK, Points, Unused, Moved
<1> QED
  BY <1>1, <1>2, <1>3 DEF TypeInv

LEMMA MonstersStep == TypeInv /\ [Next]_vars => MonstersOK'
<1> SUFFICES ASSUME TypeInv, [Next]_vars PROVE MonstersOK'
  OBVIOUS
<1> USE EnergyTypes DEF MonstersOK
<1>1. MonstersOK /\ LoopOK
  BY DEF TypeInv
<1>2. CASE UNCHANGED monsters
  BY <1>1, <1>2 DEF monsters
<1>3. CASE Command
  <2>1. UNCHANGED monsters \/ \E i \in here : Gone(i)
    BY <1>3 DEF Command, CommandMoves, SingleCombat, KillMonster,
       ReadDeepDescent, OtherCommand
  <2>2. CASE \E i \in here : Gone(i)
    <3>1. PICK i \in here : Gone(i)
      BY <2>2
    <3>2. menergy' \in [Slots -> 0 .. Top]
      BY <1>1, <3>1 DEF Gone
    <3>3. fed' \in [Slots -> 0 .. 2]
      BY <1>1, <3>1 DEF Gone
    <3> QED
      BY <1>1, <3>1, <3>2, <3>3 DEF Gone
  <2> QED
    BY <1>1, <2>1, <2>2 DEF monsters
<1>4. CASE MonsterActs
  BY <1>1, <1>4, ActsEffect, FeedsTypes
<1>5. CASE PassRest \/ Gain
  <2>1. fed' \in [Slots -> 0 .. 2]
    BY <1>1, <1>5 DEF PassRest, Gain
  <2> QED
    BY <1>1, <1>5, <2>1 DEF PassRest, Gain
<1>6. CASE World
  <2>1. UNCHANGED monsters \/ \E i \in Slots : Placed(i)
    BY <1>6 DEF World
  <2>2. CASE \E i \in Slots : Placed(i)
    <3>1. PICK i \in Slots, e \in 0 .. MoveEnergy - 1 :
             /\ here' = here \cup {i} /\ menergy' = [menergy EXCEPT ![i] = e]
             /\ fed' = [fed EXCEPT ![i] = 0] /\ UNCHANGED <<handled, since>>
      BY <2>2 DEF Placed
    <3>2. e \in 0 .. Top
      OBVIOUS
    <3> QED
      BY <1>1, <3>1, <3>2
  <2> QED
    BY <1>1, <2>1, <2>2 DEF monsters
<1>7. CASE Leave
  BY <1>7 DEF Leave, NextMonsters
<1> QED
  BY <1>2, <1>3, <1>4, <1>5, <1>6, <1>7, Frames

LEMMA PlaceStep == TypeInv /\ [Next]_vars => PlaceOK'
<1> SUFFICES ASSUME TypeInv, [Next]_vars PROVE PlaceOK'
  OBVIOUS
<1> USE EnergyTypes DEF PlaceOK
<1>1. PlaceOK /\ MonstersOK /\ LoopOK
  BY DEF TypeInv
<1>2. CASE UNCHANGED place
  BY <1>1, <1>2 DEF place
<1>3. CASE Reload
  BY <1>1, <1>3 DEF Reload
<1>4. CASE Command
  <2>1. CASE CommandMoves \/ SingleCombat
    BY <1>1, <2>1 DEF CommandMoves, SingleCombat, ChangesLevel
  <2>2. CASE \E i \in here : KillMonster(i)
    BY <1>1, <2>2 DEF KillMonster
  <2>3. CASE ReadDeepDescent
    BY <1>1, <2>3 DEF ReadDeepDescent
  <2>4. CASE OtherCommand
    BY <1>1, <2>4 DEF OtherCommand, place
  <2> QED
    BY <1>4, <2>1, <2>2, <2>3, <2>4 DEF Command
<1>5. CASE MonsterActs
  BY <1>1, <1>2, <1>5, ActsEffect DEF ChangesLevel
<1>6. CASE World
  <2>1. /\ UNCHANGED <<depth, upkeep>> \/ \E to \in Depths : ChangesLevel(to)
        /\ UNCHANGED <<level, chunks>>
    BY <1>6 DEF World, Descends, StaysOnLevel
  <2>2. deep_descent' \in {0, deep_descent, deep_descent - 1}
    BY <1>6 DEF World, Descends
  <2>3. deep_descent = 0 => deep_descent' = 0
    BY <1>6 DEF World, Descends
  <2>4. deep_descent' \in 0 .. MaxDescent
    BY <1>1, <2>2, <2>3
  <2> QED
    BY <1>1, <2>1, <2>4 DEF ChangesLevel
<1>7. CASE Leave
  BY <1>1, <1>7, LoopAssumption DEF Leave, NextLevel
<1>8. CASE Arrive
  BY <1>1, <1>8 DEF Arrive
<1> QED
  BY <1>2, <1>3, <1>4, <1>5, <1>6, <1>7, <1>8, Frames

LEMMA BatteryStep == TypeInv /\ [Next]_vars => BatteryOK'
<1> SUFFICES ASSUME TypeInv, [Next]_vars PROVE BatteryOK'
  OBVIOUS
<1>1. BatteryOK /\ PlaceOK
  BY DEF TypeInv
<1>2. CASE UNCHANGED battery
  BY <1>1, <1>2 DEF battery, BatteryOK
<1>3. CASE Poll
  BY <1>1, <1>3 DEF Poll, BatteryOK
<1>4. CASE RefreshPlayer \/ RefreshWorld \/ Arrive
  BY <1>1, <1>2, <1>4, RefreshTypes DEF RefreshPlayer, RefreshWorld, Arrive
<1>5. CASE Reload
  BY <1>1, <1>5 DEF Reload, BatteryOK
<1>6. CASE Leave
  <2>1. PlaceOK'
    BY PlaceStep
  <2> QED
    BY <1>1, <1>6, <2>1 DEF Leave, BatteryOK, PlaceOK
<1> QED
  BY <1>2, <1>3, <1>4, <1>5, <1>6, Frames

LEMMA LoopStepTypes == TypeInv /\ [Next]_vars => LoopOK'
<1> SUFFICES ASSUME TypeInv, [Next]_vars PROVE LoopOK'
  OBVIOUS
<1> USE EnergyTypes DEF LoopOK, Points
<1>1. LoopOK /\ MonstersOK /\ energy \in Int /\ energy <= Top
  BY DEF TypeInv, EnergyOK
<1>2. CASE UNCHANGED vars
  BY <1>1, <1>2 DEF vars
<1>3. CASE Key \/ Poll \/ Reload
  BY <1>1, <1>3 DEF Key, Poll, Reload
<1>4. CASE RefreshPlayer \/ NoCommand \/ Played \/ RefreshWorld \/ Turn
  BY <1>1, <1>4 DEF RefreshPlayer, NoCommand, Played, RefreshWorld, Turn
<1>5. CASE Command
  <2>1. life' \in {life, "playing", "dead"}
    BY <1>5 DEF Command, CommandMoves, SingleCombat, KillMonster,
       ReadDeepDescent, OtherCommand
  <2> QED
    BY <1>1, <1>5, <2>1 DEF Command
<1>6. CASE Cleanup
  BY <1>1, <1>6 DEF Cleanup
<1>7. CASE Again \/ PassOver \/ PassBefore \/ PassRest
  BY <1>1, <1>7 DEF Again, PassOver, PassBefore, PassRest, Passing
<1>8. CASE MonsterActs
  BY <1>1, <1>8, ActsEffect
<1>9. CASE World
  <2>1. life' \in {life, "dead"}
    BY <1>9 DEF World
  <2> QED
    BY <1>1, <1>9, <2>1 DEF World
<1>10. CASE Gain
  BY <1>1, <1>10 DEF Gain
<1>11. CASE Leave \/ Arrive
  BY <1>1, <1>11 DEF Leave, Arrive
<1> QED
  BY <1>2, <1>3, <1>4, <1>5, <1>6, <1>7, <1>8, <1>9, <1>10, <1>11
     DEF Next, LoopStep

\* Leaving and life do not go back while the loop is on its way to the next level.
LEMMA EnergyStep == TypeInv /\ [Next]_vars => EnergyOK'
<1> SUFFICES ASSUME TypeInv, [Next]_vars PROVE EnergyOK'
  OBVIOUS
<1> USE EnergyTypes DEF EnergyOK, Unused, Moved, CannotMove
<1>1. EnergyOK /\ LoopOK /\ MonstersOK
  BY DEF TypeInv
<1>2. CASE UNCHANGED vars
  BY <1>1, <1>2 DEF vars, Leaving, place
<1>3. CASE Key \/ Poll
  BY <1>1, <1>3 DEF Key, Poll, Charged, Leaving, place
<1>4. CASE Reload
  BY <1>1, <1>4 DEF Reload
<1>5. CASE RefreshPlayer \/ NoCommand \/ Played
  BY <1>1, <1>5 DEF RefreshPlayer, NoCommand, Played
<1>6. CASE Command
  <2>1. energy_use' \in 0 .. MoveEnergy
    BY <1>6 DEF Command, CommandMoves, SingleCombat, KillMonster,
       ReadDeepDescent, OtherCommand
  <2> QED
    BY <1>1, <1>6, <2>1 DEF Command
<1>7. CASE Cleanup
  BY <1>1, <1>7 DEF Cleanup, Charged
<1>8. CASE Again \/ PassOver \/ PassBefore \/ PassRest
  <2>1. CASE Again
    BY <1>1, <2>1 DEF Again
  <2>2. CASE PassOver
    BY <1>1, <2>2 DEF PassOver, Passing
  <2>3. CASE PassBefore
    <3>1. pc' = "refreshA" \/ (pc' = "refreshC" /\ (life # "playing" \/ Leaving))
      BY <2>3 DEF PassBefore
    <3>2. UNCHANGED <<energy, energy_use, life, minimum>> /\ Leaving' = Leaving
      BY <2>3 DEF PassBefore, place, Leaving
    <3> QED
      BY <1>1, <3>1, <3>2
  <2>4. CASE PassRest
    BY <1>1, <2>4 DEF PassRest, PassEnds
  <2> QED
    BY <1>8, <2>1, <2>2, <2>3, <2>4
<1>9. CASE MonsterActs
  BY <1>1, <1>9, ActsEffect
<1>10. CASE RefreshWorld \/ Turn
  BY <1>1, <1>10 DEF RefreshWorld, Turn, Leaving, place
<1>11. CASE World
  BY <1>1, <1>11 DEF World
<1>12. CASE Gain
  BY <1>1, <1>12 DEF Gain
<1>13. CASE Leave
  BY <1>1, <1>13 DEF Leave, FirstMove
<1>14. CASE Arrive
  BY <1>1, <1>14 DEF Arrive
<1> QED
  BY <1>2, <1>3, <1>4, <1>5, <1>6, <1>7, <1>8, <1>9, <1>10, <1>11, <1>12,
     <1>13, <1>14 DEF Next, LoopStep

LEMMA TypeStep == TypeInv /\ [Next]_vars => TypeInv'
  BY MonstersStep, LoopStepTypes, PlaceStep, BatteryStep, EnergyStep DEF TypeInv

LEMMA TypeAlways == Spec => []TypeInv
  BY TypeInit, TypeStep, PTL DEF Spec

\* Every variable keeps its type, whatever the rates at which energy comes: no
\* monster ever has more energy than two moves take, and neither has the player.
THEOREM TypeCorrect == Spec => []TypeOK
<1>1. TypeInv => TypeOK
  BY DEF TypeInv, TypeOK, MonstersOK, LoopOK, PlaceOK, BatteryOK, EnergyOK
<1> QED
  BY <1>1, TypeAlways, PTL

-----------------------------------------------------------------------------
(* Each monster gets its energy once in a game turn.                       *)

\* Between a monster's feeding and the end of the turn MFLAG_HANDLED keeps it from
\* being fed again; a pass over all monsters leaves none behind the cursor unfed;
\* and the flags are only taken away when all have been fed.
FedInv ==
    /\ \A i \in Slots : fed[i] <= 1
    /\ pc \notin Moved \cup {"over"} => \A i \in Slots : fed[i] = 1 => i \in handled
    /\ \A i \in handled \cap since : fed[i] = 1
    /\ pc = "pass" /\ minimum = 0 => \A i \in since : i > cursor => i \in handled
    /\ pc \in Moved => handled = {}
    /\ pc \in Moved /\ ~Leaving /\ life = "playing" => \A i \in since : fed[i] = 1
    /\ pc \in {"world", "gain"} => life = "playing"

LEMMA FedInit == Init => FedInv
  BY DEF Init, FedInv, Moved

LEMMA FedStep == TypeInv /\ FedInv /\ [Next]_vars => FedInv'
<1> SUFFICES ASSUME TypeInv, FedInv, [Next]_vars PROVE FedInv'
  OBVIOUS
<1> USE DEF Moved
<1>1. MonstersOK /\ LoopOK /\ EnergyOK
  BY DEF TypeInv
<1>2. CASE UNCHANGED vars
  BY <1>2 DEF vars, monsters, place, FedInv, Leaving
<1>3. CASE Key \/ Poll \/ Reload \/ RefreshPlayer \/ NoCommand \/ Cleanup \/ Played
           \/ Again \/ PassBefore \/ Arrive
  <2>1. UNCHANGED monsters
    BY <1>3 DEF Key, Poll, Reload, RefreshPlayer, NoCommand, Cleanup, Played, Again,
       PassBefore, Arrive
  <2>2. CASE Poll
    BY <2>1, <2>2 DEF Poll, FedInv, monsters, place, Leaving
  <2>3. CASE Again
    <3>1. pc = "again" /\ (pc' = "refreshC" \/ (pc' = "pass" /\ minimum' > 0))
      BY <1>1, <2>3, EnergyTypes DEF Again, EnergyOK
    <3> QED
      BY <2>1, <3>1 DEF FedInv, monsters
  <2>4. CASE Key \/ Reload \/ RefreshPlayer \/ NoCommand \/ Cleanup \/ Played
             \/ PassBefore \/ Arrive
    <3>1. /\ pc \in {"prompt", "refreshA", "refreshB", "pop", "cleanup", "played", "pass",
                     "arrive", "comeBack"}
          /\ pc' \in {"prompt", "refreshA", "refreshB", "pop", "repeat", "played", "again",
                      "refreshC", "over"}
      BY <2>4 DEF Key, Reload, RefreshPlayer, NoCommand, Cleanup, Played, PassBefore,
         PassEnds, Arrive
    <3> QED
      BY <2>1, <3>1 DEF FedInv, monsters
  <2> QED
    BY <1>3, <2>2, <2>3, <2>4
<1>4. CASE Command
  <2>1. UNCHANGED monsters \/ \E i \in here : Gone(i)
    BY <1>4 DEF Command, CommandMoves, SingleCombat, KillMonster,
       ReadDeepDescent, OtherCommand
  <2>2. pc \in {"pop", "repeat"} /\ pc' = "cleanup"
    BY <1>4 DEF Command
  <2>3. CASE UNCHANGED monsters
    BY <2>2, <2>3 DEF FedInv, monsters
  <2>4. CASE \E i \in here : Gone(i)
    BY <1>1, <2>2, <2>4 DEF FedInv, Gone, MonstersOK
  <2> QED
    BY <2>1, <2>3, <2>4
<1>5. CASE PassOver
  <2>1. /\ pc = "pass" /\ pc' = "pass" /\ UNCHANGED minimum /\ UNCHANGED monsters
        /\ cursor' = cursor - 1 /\ Waits(cursor)
    BY <1>5 DEF PassOver, Passing
  <2>2. minimum = 0 => cursor \notin here \/ cursor \in handled
    BY <1>1, <2>1, EnergyTypes DEF Waits, MonstersOK, LoopOK
  <2> QED
    BY <1>1, <2>1, <2>2, EnergyTypes DEF FedInv, monsters, MonstersOK, LoopOK
<1>6. CASE MonsterActs
  <2>1. /\ cursor \in Slots /\ cursor \in here /\ cursor \notin handled /\ Feeds(cursor)
        /\ pc = "pass" /\ pc' = "pass" /\ minimum' = minimum /\ cursor' = cursor - 1
    BY <1>1, <1>6, ActsEffect
  <2>2. fed[cursor] = 0
    BY <1>1, <2>1 DEF FedInv, MonstersOK
  <2>3. \A j \in Slots :
          fed'[j] = IF j \notin here' THEN 0 ELSE IF j = cursor THEN 1 ELSE fed[j]
    BY <2>1, <2>2 DEF Feeds
  <2>4. handled' = (handled \cup {cursor}) \cap here' /\ since' = since \cap here'
    BY <2>1 DEF Feeds
  <2>5. \A i \in Slots : fed'[i] <= 1 /\ (fed'[i] = 1 => i \in handled')
    BY <1>1, <2>1, <2>3, <2>4 DEF FedInv, MonstersOK, Moved
  <2>6. \A i \in handled' \cap since' : fed'[i] = 1
    BY <1>1, <2>1, <2>3, <2>4 DEF FedInv, MonstersOK
  <2>7. minimum' = 0 => \A i \in since' : i > cursor' => i \in handled'
    BY <1>1, <2>1, <2>4, EnergyTypes DEF FedInv, MonstersOK, LoopOK
  <2> QED
    BY <2>1, <2>5, <2>6, <2>7 DEF FedInv
<1>7. CASE PassRest
  <2>1. /\ pc = "pass" /\ minimum = 0 /\ pc' = "refreshD" /\ handled' = {}
        /\ UNCHANGED <<fed, since, life>> /\ Leaving' = Leaving
        /\ ~(cursor > 0 /\ life # "dead" /\ ~Leaving)
    BY <1>7 DEF PassRest, PassEnds, Passing, Leaving, place
  <2>2. ~Leaving /\ life = "playing" => cursor = 0
    BY <1>1, <2>1, EnergyTypes DEF LoopOK
  <2> QED
    BY <1>1, <2>1, <2>2, EnergyTypes DEF FedInv, MonstersOK
<1>8. CASE RefreshWorld \/ Turn
  <2>1. UNCHANGED monsters /\ UNCHANGED life /\ Leaving' = Leaving
    BY <1>8 DEF RefreshWorld, Turn, place, Leaving
  <2>2. CASE RefreshWorld
    <3>1. \/ pc = "refreshC" /\ pc' = "turn"
          \/ pc = "refreshD" /\ pc' = IF life # "playing" THEN "over" ELSE "world"
          \/ pc = "refreshE" /\ pc' = IF life # "playing" THEN "over" ELSE "gain"
      BY <2>2 DEF RefreshWorld
    <3> QED
      BY <2>1, <3>1 DEF FedInv, monsters
  <2>3. CASE Turn
    <3>1. /\ pc = "turn" /\ pc' \in {"over", "leave", "pass"}
          /\ pc' = "pass" => cursor' = MaxMonsters
      BY <2>3 DEF Turn
    <3>2. \A i \in since : ~(i > MaxMonsters)
      BY <1>1, EnergyTypes DEF MonstersOK
    <3> QED
      BY <2>1, <3>1, <3>2 DEF FedInv, monsters
  <2> QED
    BY <1>8, <2>2, <2>3
<1>9. CASE World
  <2>1. /\ pc = "world" /\ pc' \in {"refreshE", "gain"} /\ since' = since /\ handled' = {}
        /\ life = "playing" /\ (pc' = "gain" => life' = "playing")
    BY <1>9 DEF World, FedInv, Placed, monsters
  <2>2. Leaving => Leaving'
    BY <1>9 DEF World, Descends, ChangesLevel, StaysOnLevel, Leaving
  <2>3. \A i \in Slots : fed'[i] = fed[i] \/ (i \notin since /\ fed'[i] = 0)
    BY <1>1, <1>9 DEF World, Placed, monsters, MonstersOK
  <2> QED
    BY <1>1, <2>1, <2>2, <2>3 DEF FedInv, MonstersOK
<1>10. CASE Gain
  BY <1>1, <1>10 DEF Gain, FedInv
<1>11. CASE Leave
  BY <1>1, <1>11 DEF Leave, NextMonsters, FedInv
<1> QED
  BY <1>2, <1>3, <1>4, <1>5, <1>6, <1>7, <1>8, <1>9, <1>10, <1>11 DEF Next, LoopStep

\* However its turns fall around the player's, whatever is summoned, dies or leaves
\* in between, each monster that is there for a whole game turn has got energy once.
THEOREM FedOnceAlways == Spec => []FedOncePerTurn
<1>1. FedInv => FedOncePerTurn
  BY DEF FedInv, FedOncePerTurn, Moved
<1> QED
  BY <1>1, TypeAlways, TypeInit, FedInit, FedStep, PTL DEF Spec

-----------------------------------------------------------------------------
(* The faster monsters go first.                                           *)

\* Where the player is asked for a command, or may be asked again without having
\* used any energy.
Free == pc \in {"prompt", "refreshA", "refreshB", "pop", "repeat"}
        \/ (pc \in {"cleanup", "played"} /\ energy_use = 0)

FasterInv ==
    /\ Free /\ round # "loaded" /\ ~CannotMove => \A i \in here \ handled : menergy[i] <= energy
    /\ pc = "pass" /\ minimum > 0 =>
          /\ minimum > MoveEnergy
          /\ energy = minimum - 1 \/ CannotMove
          /\ \A i \in here \ handled : i > cursor => menergy[i] < minimum

LEMMA FasterInit == Init => FasterInv
<1> SUFFICES ASSUME Init PROVE FasterInv
  OBVIOUS
<1>1. \A i \in Slots : menergy[i] < MoveEnergy
  BY EnergyTypes DEF Init
<1> QED
  BY <1>1, EnergyTypes DEF Init, FasterInv, Free

LEMMA FasterStep == TypeInv /\ FasterInv /\ [Next]_vars => FasterInv'
<1> SUFFICES ASSUME TypeInv, FasterInv, [Next]_vars PROVE FasterInv'
  OBVIOUS
<1> USE EnergyTypes DEF CannotMove
<1>1. MonstersOK /\ LoopOK /\ EnergyOK
  BY DEF TypeInv
<1>2. CASE UNCHANGED vars
  BY <1>2 DEF vars, monsters, FasterInv, Free
<1>3. CASE Key
  <2>1. /\ pc = "prompt" /\ energy' = energy /\ energy_use' = energy_use
        /\ UNCHANGED monsters /\ pc' \in {"refreshA", "again"}
        /\ round' = "loaded" \/ round # "loaded" \/ pc' = "again"
    BY <1>1, <1>3 DEF Key, Charged, EnergyOK, Unused
  <2> QED
    BY <2>1 DEF FasterInv, Free, monsters
<1>4. CASE Poll
  BY <1>4 DEF Poll, FasterInv, Free, monsters
<1>5. CASE Reload
  BY <1>5 DEF Reload, FasterInv
<1>6. CASE RefreshPlayer \/ NoCommand \/ Played
  <2>1. /\ UNCHANGED <<energy, round>> /\ UNCHANGED monsters /\ pc' # "pass"
        /\ pc' \in {"refreshB", "pop", "repeat", "played", "again", "prompt", "over"}
        /\ pc \in {"refreshA", "refreshB", "pop"} \/ (pc = "played" /\ energy_use' = energy_use)
        /\ pc = "played" /\ energy_use > 0 => pc' = "again"
    BY <1>6 DEF RefreshPlayer, NoCommand, Played
  <2>2. energy_use \in 0 .. MoveEnergy
    BY <1>1 DEF EnergyOK
  <2> QED
    BY <2>1, <2>2 DEF FasterInv, Free, monsters
<1>7. CASE Command
  <2>1. /\ pc \in {"pop", "repeat"} /\ pc' = "cleanup" /\ UNCHANGED <<energy, round>>
        /\ UNCHANGED monsters \/ \E i \in here : Gone(i)
    BY <1>7 DEF Command, CommandMoves, SingleCombat, KillMonster, ReadDeepDescent,
       OtherCommand
  <2>2. \A j \in here' \ handled' : j \in here \ handled /\ menergy'[j] = menergy[j]
    BY <1>1, <2>1 DEF Gone, MonstersOK, monsters
  <2> QED
    BY <2>1, <2>2 DEF FasterInv, Free
<1>8. CASE Cleanup
  <2>1. /\ pc = "cleanup" /\ UNCHANGED <<energy_use, round>> /\ UNCHANGED monsters
        /\ pc' \in {"refreshA", "played"} /\ (pc' = "refreshA" => energy_use = 0)
        /\ energy_use = 0 => energy' = energy
    BY <1>1, <1>8 DEF Cleanup, Charged, EnergyOK
  <2> QED
    BY <2>1 DEF FasterInv, Free, monsters
<1>9. CASE Again
  <2>1. /\ pc = "again" /\ UNCHANGED monsters /\ UNCHANGED energy
        /\ \/ pc' = "refreshC"
           \/ /\ pc' = "pass" /\ energy >= MoveEnergy /\ minimum' = energy + 1
              /\ cursor' = MaxMonsters
    BY <1>9 DEF Again
  <2>2. \A i \in here : ~(i > MaxMonsters)
    BY <1>1 DEF MonstersOK
  <2> QED
    BY <1>1, <2>1, <2>2 DEF FasterInv, Free, monsters, EnergyOK
<1>10. CASE PassOver
  <2>1. /\ pc = "pass" /\ pc' = "pass" /\ UNCHANGED <<minimum, energy>> /\ UNCHANGED monsters
        /\ cursor' = cursor - 1
        /\ cursor \notin here \/ cursor \in handled \/ menergy[cursor] < minimum
    BY <1>10 DEF PassOver, Passing, Waits
  <2>2. \A i \in here : i > cursor' => i = cursor \/ i > cursor
    BY <1>1, <2>1 DEF MonstersOK, LoopOK
  <2> QED
    BY <1>1, <2>1, <2>2 DEF FasterInv, Free, monsters
<1>11. CASE MonsterActs
  <2>1. handled' = (handled \cup {cursor}) \cap here'
    BY <1>1, <1>11, ActsEffect DEF Feeds
  <2>2. \A j \in here' \ handled' :
           /\ j # cursor /\ j \notin handled
           /\ IF j \in here THEN menergy'[j] = menergy[j] ELSE menergy'[j] < MoveEnergy
    BY <1>1, <1>11, <2>1, ActsEffect DEF MonstersOK
  <2>3. /\ pc = "pass" /\ pc' = "pass" /\ minimum' = minimum /\ cursor' = cursor - 1
        /\ energy' = energy \/ energy' = 0
        /\ here' \subseteq Slots /\ menergy' \in [Slots -> 0 .. Top]
    BY <1>1, <1>11, ActsEffect
  <2>4. \A j \in here' \ handled' : j > cursor' => j > cursor
    BY <1>1, <2>2, <2>3 DEF LoopOK
  <2>5. minimum > 0 =>
           /\ minimum > MoveEnergy
           /\ \A j \in here \ handled : j > cursor => menergy[j] < minimum
    BY <2>3 DEF FasterInv
  <2>6. minimum > 0 => \A j \in here' \ handled' : j > cursor' => menergy'[j] < minimum
    BY <1>1, <2>2, <2>3, <2>4, <2>5 DEF LoopOK
  <2>7. minimum > 0 => energy' = minimum - 1 \/ energy' < MoveEnergy
    BY <2>3 DEF FasterInv
  <2> QED
    BY <2>3, <2>5, <2>6, <2>7 DEF FasterInv, Free
<1>12. CASE PassBefore
  <2>1. /\ pc = "pass" /\ minimum > 0 /\ UNCHANGED energy /\ UNCHANGED monsters
        /\ \/ pc' = "refreshC"
           \/ /\ pc' = "refreshA" /\ life = "playing" /\ ~Leaving
              /\ ~(cursor > 0 /\ life # "dead" /\ ~Leaving)
    BY <1>12 DEF PassBefore, PassEnds, Passing
  <2>2. pc' = "refreshA" => \A i \in here : i > cursor
    BY <1>1, <2>1 DEF MonstersOK, LoopOK
  <2>3. \A i \in here : menergy[i] \in 0 .. Top
    BY <1>1 DEF MonstersOK
  <2>4. energy \in Int /\ minimum \in 0 .. Top + 1
    BY <1>1 DEF EnergyOK, LoopOK
  <2>5. CASE pc' = "refreshA" /\ ~(energy < MoveEnergy)
    <3>1. energy = minimum - 1
      BY <2>1, <2>5 DEF FasterInv
    <3>2. \A i \in here \ handled : menergy[i] < minimum
      BY <2>1, <2>2, <2>5 DEF FasterInv
    <3>3. \A i \in here' \ handled' : menergy'[i] <= energy'
      BY <2>1, <2>3, <2>4, <3>1, <3>2 DEF monsters
    <3> QED
      BY <2>5, <3>3 DEF FasterInv
  <2> QED
    BY <2>1, <2>5 DEF FasterInv, Free
<1>13. CASE PassRest \/ RefreshWorld \/ World \/ Gain \/ Leave \/ Arrive
  <2>1. /\ pc' \notin {"prompt", "refreshA", "refreshB", "pop", "repeat", "cleanup", "played"}
        /\ pc' # "pass"
    BY <1>13 DEF PassRest, RefreshWorld, World, Gain, Leave, Arrive
  <2> QED
    BY <2>1 DEF FasterInv, Free
<1>14. CASE Turn
  <2>1. pc' \in {"over", "leave"} \/ (pc' = "pass" /\ minimum' = 0)
    BY <1>14 DEF Turn
  <2> QED
    BY <2>1 DEF FasterInv, Free
<1> QED
  BY <1>2, <1>3, <1>4, <1>5, <1>6, <1>7, <1>8, <1>9, <1>10, <1>11, <1>12, <1>13, <1>14
     DEF Next, LoopStep

\* Whenever the player is to act with enough energy for a move, no monster that has
\* not moved yet this turn has more: also when energy is sapped from him during the
\* pass, and for monsters that are summoned during it.
THEOREM FasterAlwaysFirst == Spec => []FasterMonstersFirst
<1>1. TypeInv /\ FasterInv => FasterMonstersFirst
  BY EnergyTypes DEF TypeInv, EnergyOK, FasterInv, FasterMonstersFirst, Free, CannotMove
<1> QED
  BY <1>1, TypeAlways, FasterInit, FasterStep, PTL DEF Spec

-----------------------------------------------------------------------------
(* Levels and the arena.                                                   *)

OnTheWayInv == Free /\ Leaving => Arena

\* What a command does to the flags, if it takes no energy: nothing, or it wins the
\* combat in an arena.
LEMMA FreeCommand ==
    ASSUME Command, energy_use' = 0
    PROVE  /\ UNCHANGED <<depth, level, chunks>>
           /\ \/ UNCHANGED upkeep
              \/ Arena /\ upkeep' = upkeep \cup {"generate_level"}
<1>1. ~CommandMoves /\ ~SingleCombat /\ ~ReadDeepDescent
  BY EnergyTypes DEF CommandMoves, SingleCombat, ReadDeepDescent
<1> QED
  BY <1>1 DEF Command, KillMonster, OtherCommand, place

LEMMA OnTheWayStep == TypeInv /\ OnTheWayInv /\ [Next]_vars => OnTheWayInv'
<1> SUFFICES ASSUME TypeInv, OnTheWayInv, [Next]_vars PROVE OnTheWayInv'
  OBVIOUS
<1> USE DEF OnTheWayInv, Leaving, Arena
<1>1. EnergyOK
  BY DEF TypeInv
<1>2. CASE UNCHANGED vars
  BY <1>2 DEF vars, place, Free
<1>3. CASE Key \/ Poll \/ RefreshPlayer \/ NoCommand \/ Cleanup \/ Played
  <2>1. UNCHANGED place
    BY <1>3 DEF Key, Poll, RefreshPlayer, NoCommand, Cleanup, Played
  <2>2. Free' => Free
    BY <1>1, <1>3, EnergyTypes DEF Key, Poll, RefreshPlayer, NoCommand, Cleanup, Played,
       Free, EnergyOK, Unused
  <2> QED
    BY <2>1, <2>2 DEF place
<1>4. CASE Reload
  BY <1>4 DEF Reload
<1>5. CASE Command
  <2>1. Free /\ (Free' => energy_use' = 0)
    BY <1>5 DEF Command, Free
  <2> QED
    BY <1>5, <2>1, FreeCommand
<1>6. CASE PassBefore
  BY <1>6 DEF PassBefore, place, Free
<1>7. CASE Again \/ PassOver \/ MonsterActs \/ PassRest \/ RefreshWorld \/ Turn \/ World
           \/ Gain \/ Leave \/ Arrive
  BY <1>7 DEF Again, PassOver, MonsterActs, Passing, PassRest, RefreshWorld, Turn, World,
     Gain, Leave, Arrive, Free
<1> QED
  BY <1>2, <1>3, <1>4, <1>5, <1>6, <1>7 DEF Next, LoopStep

LEMMA OnTheWayInit == Init => OnTheWayInv
  BY DEF Init, OnTheWayInv, Leaving

LEMMA OnTheWayAlways == Spec => []OnTheWayInv
  BY TypeAlways, OnTheWayInit, OnTheWayStep, PTL DEF Spec

\* However a level change was asked for, by a command, a monster or the world, the
\* player gives no command before it is made; an arena's winner may.
THEOREM NeverCommandOnTheWay == Spec => []NoCommandOnTheWay
<1>1. OnTheWayInv => NoCommandOnTheWay
  BY DEF OnTheWayInv, NoCommandOnTheWay, Free
<1> QED
  BY <1>1, OnTheWayAlways, PTL

\* Which level there is and what is stored, under which flags, as long as nobody
\* reads Deep Descent: an arena that has been asked for but not made is on its way,
\* and its winner comes back before the flag is taken away.
LevelInv ==
    /\ deep_descent = 0
    /\ level = "arena" => Arena /\ depth \in chunks /\ chunks \subseteq {"Town", depth}
    /\ level # "arena" => chunks \subseteq {"Town"} \ {level}
    /\ Arena /\ level # "arena" => Leaving /\ level = depth
    /\ ~Arena /\ ~Leaving => level = depth
    /\ pc = "leave" => Leaving
    /\ pc = "arrive" => Leaving /\ (IF Arena THEN level = "arena" ELSE level = depth)
    /\ pc = "comeBack" => Leaving /\ Arena /\ level = depth
    /\ Free => (Arena <=> level = "arena")

LEMMA LevelInit == Init => LevelInv
  BY LoopAssumption DEF Init, LevelInv, Leaving, Arena, Free

\* A level change by stairs, by a monster or by Word of Recall, outside an arena.
LEMMA LevelChange ==
    ASSUME LevelInv, ~Arena, UNCHANGED <<level, chunks, deep_descent>>,
           \E to \in Depths : ChangesLevel(to), ~Free',
           pc' \notin {"leave", "arrive", "comeBack"}
    PROVE  LevelInv'
  BY LoopAssumption DEF LevelInv, ChangesLevel, Arena, Leaving

LEMMA LevelStep ==
    MaxDescent = 0 /\ TypeInv /\ OnTheWayInv /\ LevelInv /\ [Next]_vars => LevelInv'
<1> SUFFICES ASSUME MaxDescent = 0, TypeInv, OnTheWayInv, LevelInv, [Next]_vars
             PROVE  LevelInv'
  OBVIOUS
<1>1. EnergyOK /\ PlaceOK
  BY DEF TypeInv
<1>2. CASE UNCHANGED vars
  BY <1>2 DEF vars, place, Free, LevelInv, Leaving, Arena
<1>3. CASE Key \/ Poll \/ RefreshPlayer \/ NoCommand \/ Cleanup \/ Played
  <2>1. UNCHANGED place
    BY <1>3 DEF Key, Poll, RefreshPlayer, NoCommand, Cleanup, Played
  <2>2. Free' => Free
    BY <1>1, <1>3, EnergyTypes DEF Key, Poll, RefreshPlayer, NoCommand, Cleanup, Played,
       Free, EnergyOK, Unused
  <2>3. pc' = pc \/ pc' \notin {"leave", "arrive", "comeBack"}
    BY <1>3 DEF Key, Poll, RefreshPlayer, NoCommand, Cleanup, Played
  <2> QED
    BY <2>1, <2>2, <2>3 DEF place, LevelInv, Leaving, Arena
<1>4. CASE Reload
  <2>1. level # "arena" => level = depth
    BY <1>4 DEF Reload, LevelInv, OnTheWayInv, Free
  <2>2. /\ pc' = "prompt" /\ level' = level /\ UNCHANGED <<depth, chunks, deep_descent>>
        /\ upkeep' = IF level = "arena" THEN {"arena_level"} ELSE {}
    BY <1>4, <2>1 DEF Reload
  <2> QED
    BY <2>1, <2>2 DEF LevelInv, Arena, Leaving
<1>5. CASE Command
  <2>1. Free /\ (Free' => energy_use' = 0) /\ pc' = "cleanup"
    BY <1>5 DEF Command, Free
  <2>2. CASE CommandMoves
    <3>1. ~Free'
      BY <2>1, <2>2, EnergyTypes DEF CommandMoves, Free
    <3> QED
      BY <2>1, <2>2, <3>1, LevelChange DEF CommandMoves
  <2>3. CASE SingleCombat
    <3>1. ~Free'
      BY <2>1, <2>3, EnergyTypes DEF SingleCombat, Free
    <3>2. ~Arena /\ ~Leaving
      BY <2>1, <2>3 DEF SingleCombat, OnTheWayInv
    <3> QED
      BY <2>1, <2>3, <3>1, <3>2 DEF SingleCombat, LevelInv, Arena, Leaving
  <2>4. CASE \E i \in here : KillMonster(i)
    <3>1. UNCHANGED upkeep \/ (Arena /\ upkeep' = upkeep \cup {"generate_level"})
      BY <2>4 DEF KillMonster
    <3>2. UNCHANGED <<depth, chunks, deep_descent, level>>
      BY <2>4 DEF KillMonster
    <3> QED
      BY <2>1, <3>1, <3>2 DEF LevelInv, Arena, Leaving
  <2>5. CASE ReadDeepDescent
    BY <2>5 DEF ReadDeepDescent
  <2>6. CASE OtherCommand
    BY <2>1, <2>6 DEF OtherCommand, place, LevelInv, Arena, Leaving
  <2> QED
    BY <1>5, <2>2, <2>3, <2>4, <2>5, <2>6 DEF Command
<1>6. CASE MonsterActs
  <2>1. pc' = "pass" /\ UNCHANGED <<level, chunks, deep_descent>>
    BY <1>6, ActsEffect DEF TypeInv
  <2>2. UNCHANGED place \/ (~Arena /\ \E to \in Depths : ChangesLevel(to))
    BY <1>6, ActsEffect DEF TypeInv
  <2>3. ~Free'
    BY <2>1 DEF Free
  <2> QED
    BY <2>1, <2>2, <2>3, LevelChange DEF place, LevelInv, Arena, Leaving
<1>7. CASE PassBefore
  <2>1. UNCHANGED place /\ (pc' = "refreshC" \/ (pc' = "refreshA" /\ ~Leaving))
    BY <1>7 DEF PassBefore
  <2> QED
    BY <2>1 DEF place, LevelInv, Arena, Leaving, Free
<1>8. CASE Again \/ PassOver \/ PassRest \/ RefreshWorld \/ Turn \/ Gain
  <2>1. UNCHANGED place
    BY <1>8 DEF Again, PassOver, PassRest, RefreshWorld, Turn, Gain
  <2>2. /\ pc' \in {"pass", "refreshC", "refreshD", "turn", "over", "world", "gain", "leave",
                    "again"}
        /\ pc' = "leave" => Leaving
    BY <1>8 DEF Again, PassOver, Passing, PassRest, RefreshWorld, Turn, Gain
  <2> QED
    BY <2>1, <2>2 DEF place, LevelInv, Arena, Leaving, Free
<1>9. CASE World
  <2>1. pc' \in {"refreshE", "gain"} /\ UNCHANGED <<level, chunks>>
    BY <1>9 DEF World
  <2>2. deep_descent = 0
    BY DEF LevelInv
  <2>3. /\ deep_descent' = 0
        /\ \/ UNCHANGED <<depth, upkeep>>
           \/ ~Arena /\ \E to \in Depths : ChangesLevel(to)
    BY <1>9, <2>2 DEF World, Descends, StaysOnLevel
  <2>4. ~Free' /\ pc' \notin {"leave", "arrive", "comeBack"}
    BY <2>1 DEF Free
  <2> QED
    BY <2>1, <2>2, <2>3, <2>4, LevelChange DEF LevelInv, Arena, Leaving
<1>10. CASE Leave
  <2>1. /\ pc = "leave" /\ Leaving /\ NextLevel /\ upkeep' = upkeep \ {"autosave"}
        /\ UNCHANGED <<depth, deep_descent>>
        /\ pc' = IF level = "arena" THEN "comeBack" ELSE "arrive"
    BY <1>10 DEF Leave, LevelInv
  <2>2. /\ Leaving' /\ Arena' = Arena /\ ~Free' /\ depth # "arena"
    BY <1>1, <2>1, LoopAssumption DEF Leaving, Arena, Free, PlaceOK
  <2>3. CASE level = "arena"
    <3>1. Arena /\ depth \in chunks /\ chunks \subseteq {"Town", depth}
      BY <2>3 DEF LevelInv
    <3>2. level' = depth /\ chunks' = chunks \ {depth}
      BY <2>1, <2>2, <2>3, <3>1 DEF NextLevel
    <3> QED
      BY <2>1, <2>2, <2>3, <3>1, <3>2 DEF LevelInv
  <2>4. CASE level # "arena" /\ Arena
    <3>1. level = depth /\ depth \notin chunks /\ chunks \subseteq {"Town"}
      BY <2>4 DEF LevelInv
    <3>2. level' = "arena" /\ chunks' = chunks \cup {depth}
      BY <2>1, <2>4, <3>1 DEF NextLevel
    <3> QED
      BY <2>1, <2>2, <2>4, <3>1, <3>2 DEF LevelInv
  <2>5. CASE ~Arena
    <3>1. level # "arena" /\ chunks \subseteq {"Town"}
      BY <2>5 DEF LevelInv
    <3>2. level' = depth /\ chunks' \subseteq {"Town"} \ {depth}
      BY <2>1, <2>5, <3>1 DEF NextLevel
    <3> QED
      BY <2>1, <2>2, <2>5, <3>1, <3>2 DEF LevelInv
  <2> QED
    BY <2>3, <2>4, <2>5
<1>11. CASE Arrive
  <2>1. /\ pc' = "again" /\ UNCHANGED <<depth, level, chunks, deep_descent>> /\ ~Free'
    BY <1>11 DEF Arrive, Free
  <2>2. CASE pc = "comeBack"
    <3>1. level = depth /\ level # "arena" /\ chunks \subseteq {"Town"} \ {level}
      BY <1>1, <2>2, LoopAssumption DEF LevelInv, PlaceOK
    <3>2. ~Arena' /\ ~Leaving'
      BY <1>11, <2>2 DEF Arrive, Leaving, Arena
    <3> QED
      BY <2>1, <3>1, <3>2 DEF LevelInv
  <2>3. CASE pc = "arrive"
    BY <1>11, <2>1, <2>3 DEF Arrive, LevelInv, Leaving, Arena
  <2> QED
    BY <1>11, <2>2, <2>3 DEF Arrive
<1> QED
  BY <1>2, <1>3, <1>4, <1>5, <1>6, <1>7, <1>8, <1>9, <1>10, <1>11 DEF Next, LoopStep

\* While nobody reads Deep Descent, in whatever dungeon and however often the game is
\* saved and started again on the way: arena_level is set at the prompt on an arena
\* and nowhere else, and nothing is stored but the level the arena's winner comes
\* back to and the town.
THEOREM ArenaAlwaysKnown == MaxDescent = 0 => (Spec => []ArenaIsKnown)
<1> SUFFICES ASSUME MaxDescent = 0 PROVE Spec => []ArenaIsKnown
  OBVIOUS
<1>1. TypeInv /\ OnTheWayInv /\ LevelInv /\ [Next]_vars => LevelInv'
  BY LevelStep
<1>2. OnTheWayInv /\ LevelInv => ArenaIsKnown
  BY DEF OnTheWayInv, LevelInv, ArenaIsKnown, Free
<1> QED
  BY <1>1, <1>2, TypeAlways, OnTheWayAlways, LevelInit, PTL DEF Spec
=============================================================================
