------------------------------- MODULE GameLoop -------------------------------
(***************************************************************************)
(* The main loop of the game: run_game_loop(), process_player() and the    *)
(* level changes of game-world.c, process_monsters() of mon-move.c, the    *)
(* way prepare_next_level() (generate.c) swaps the level for an arena and  *)
(* back, and what the port hangs on the loop's refresh event: the battery  *)
(* warnings and the automatic save (main.c, platform/battery.h).           *)
(*                                                                         *)
(* What a command, a monster or the world does to the game is left open as *)
(* far as the loop cannot tell: how much energy it takes, who dies, who is *)
(* summoned, and whether it asks for another level.  Energy is counted in  *)
(* quarters and halves of a move, depths are names, and the battery's      *)
(* charge is one of the ranges that battery_warn_step() tells apart.       *)
(***************************************************************************)
EXTENDS Integers, FiniteSets

CONSTANTS MoveEnergy,     \* z_info->move_energy
          Gains,          \* what turn_energy() returns: below a move
          WorldEvery,     \* the game turns from one process_world() to the next
          MaxMonsters,    \* bound: cave_monster_max(cave) - 1
          Depths,         \* bound: the depths the player goes to, "Town" among them
          MaxDescent,     \* bound: deep_descent; 0 when nobody reads the scroll
          Readings        \* the battery's readings that occur

ASSUME LoopAssumption ==
    /\ MoveEnergy \in Nat \ {0} /\ Gains \subseteq 1 .. MoveEnergy
    /\ WorldEvery \in Nat \ {0} /\ MaxMonsters \in Nat /\ MaxDescent \in Nat
    /\ "Town" \in Depths /\ "arena" \notin Depths
    /\ Readings \subseteq {"none", "charging", "high", "mid", "low", "critical"}

Slots == 1 .. MaxMonsters

VARIABLES pc, round,          \* where in the loop; the player's first command, or one more
          here,               \* the indices of live monsters
          menergy, handled,   \* their energy; those with MFLAG_HANDLED
          minimum, cursor,    \* process_monsters(): its argument and its index
          energy, energy_use, \* of the player
          turn, life,         \* turn modulo WorldEvery; is_dead and !playing
          depth, level,       \* player->depth; which level cave is
          upkeep,             \* the flags of player->upkeep that are set
          chunks,             \* the names in the list of stored levels
          deep_descent,
          raw, announced, rescued, \* the battery: battery_raw, battery_warning
          saved,              \* history: depth and level in the last automatic save
          fed, since          \* history: energy given this game turn; here at its start

monsters == <<here, menergy, handled, fed, since>>
battery == <<raw, announced, rescued, saved>>
place == <<depth, level, upkeep, chunks, deep_descent>>
vars == <<pc, round, minimum, cursor, energy, energy_use, turn, life,
          monsters, battery, place>>

Points == {"prompt", "refreshA", "refreshB", "pop", "repeat", "cleanup", "played", "again", "pass",
           "refreshC", "turn", "refreshD", "world", "refreshE", "gain", "leave", "arrive",
           "comeBack", "over"}
Top == MoveEnergy + MoveEnergy   \* no energy goes above it

TypeOK ==
    /\ pc \in Points /\ round \in {"first", "again", "loaded"}
    /\ here \subseteq Slots /\ handled \subseteq here /\ since \subseteq here
    /\ menergy \in [Slots -> 0 .. Top] /\ fed \in [Slots -> 0 .. 2]
    /\ minimum \in 0 .. Top + 1 /\ cursor \in 0 .. MaxMonsters
    /\ energy \in Int /\ energy <= Top /\ energy_use \in 0 .. MoveEnergy
    /\ turn \in 0 .. WorldEvery - 1 /\ life \in {"playing", "left", "dead"}
    /\ depth \in Depths /\ level \in Depths \cup {"arena"}
    /\ upkeep \subseteq {"generate_level", "arena_level", "autosave"}
    /\ chunks \subseteq Depths /\ deep_descent \in 0 .. MaxDescent
    /\ raw \in Readings \cup {"none"} /\ announced \in {"none", "low", "critical"}
    /\ rescued \in {"no", "yes"}
    /\ saved \in [depth : Depths, level : Depths \cup {"arena"}]

Arena == "arena_level" \in upkeep
Leaving == "generate_level" \in upkeep

Init ==
    /\ pc = "prompt" /\ round = "first" /\ minimum = 0 /\ cursor = 0
    /\ here \in SUBSET Slots /\ menergy \in [Slots -> 0 .. MoveEnergy - 1]
    /\ \A i \in Slots \ here : menergy[i] = 0
    /\ handled = {} /\ fed = [i \in Slots |-> 0] /\ since = here
    /\ energy = MoveEnergy /\ energy_use = 0 /\ turn = 0
    /\ life = "playing"
    /\ depth = "Town" /\ level = "Town" /\ upkeep = {} /\ chunks = {}
    /\ deep_descent = 0
    /\ raw = "none" /\ announced = "none" /\ rescued = "no"
    /\ saved = [depth |-> "Town", level |-> "Town"]

-----------------------------------------------------------------------------
(* What may happen to the game on the way.                                 *)

\* dungeon_change_level(): the game is to be saved on arrival.
ChangesLevel(to) == depth' = to /\ upkeep' = upkeep \cup {"generate_level", "autosave"}
StaysOnLevel == UNCHANGED <<depth, upkeep>>

\* A monster that is placed starts with less energy than a move takes.
Placed(i) ==
    /\ i \notin here /\ here' = here \cup {i}
    /\ \E e \in 0 .. MoveEnergy - 1 : menergy' = [menergy EXCEPT ![i] = e]
    /\ fed' = [fed EXCEPT ![i] = 0]
    /\ UNCHANGED <<handled, since>>

\* delete_monster_idx()
Gone(i) ==
    /\ here' = here \ {i} /\ handled' = handled \ {i} /\ since' = since \ {i}
    /\ menergy' = [menergy EXCEPT ![i] = 0] /\ fed' = [fed EXCEPT ![i] = 0]

\* EVENT_REFRESH, as main.c's handler sees it: a warning that has become due is
\* given, and at 5 % the game is saved, once and not in an arena.
Due ==
    CASE raw = "critical" /\ announced # "critical" -> "critical"
      [] raw = "low" /\ announced = "none" -> "low"
      [] OTHER -> "none"

Refresh ==
    IF life = "dead" \/ raw = "none" THEN UNCHANGED battery
    ELSE /\ announced' = IF raw \in {"charging", "high"} THEN "none"
                         ELSE IF Due = "none" THEN announced ELSE Due
         /\ IF Due = "critical" /\ rescued = "no" /\ ~Arena
            THEN rescued' = "yes" /\ saved' = [depth |-> depth, level |-> level]
            ELSE UNCHANGED <<rescued, saved>>
         /\ UNCHANGED raw

\* process_player_cleanup()'s first business.
Charged == energy' = energy - energy_use

-----------------------------------------------------------------------------
(* The player's side.                                                      *)

\* check_events(), waiting for a key: at the prompt for a command, and wherever
\* a -more- or a question comes up in the middle of something.
Poll ==
    /\ pc \in {"prompt", "refreshB", "cleanup", "pass", "refreshC", "refreshD", "refreshE",
               "leave", "arrive", "comeBack"}
    /\ raw' \in Readings
    /\ UNCHANGED <<pc, round, minimum, cursor, energy, energy_use, turn, life,
                   monsters, place, announced, rescued, saved>>

\* A key at the prompt: a command for the queue, or the end of the game.
Key ==
    /\ pc = "prompt" /\ Charged
    /\ \/ /\ pc' = "refreshA" /\ round' = IF round = "loaded" THEN round ELSE "first"
          /\ UNCHANGED life
       \/ pc' = "again" /\ life' = "left" /\ UNCHANGED round
    /\ UNCHANGED <<minimum, cursor, energy_use, turn, monsters, battery, place>>

\* MUTANT of RefreshPlayer: no second refresh before the queue is asked.
RefreshPlayerOnce ==
    /\ \/ pc = "refreshA" /\ pc' = "refreshB" /\ energy_use' = 0 /\ Refresh
       \/ pc = "refreshB" /\ pc' = "pop" /\ UNCHANGED <<energy_use, battery>>
    /\ UNCHANGED <<round, minimum, cursor, energy, turn, life, monsters, place>>

\* process_player(), each time round its loop: a command that repeats does not wait
\* for the second refresh.
RefreshPlayer ==
    /\ \/ pc = "refreshA" /\ pc' = "refreshB" /\ energy_use' = 0 /\ Refresh
       \/ pc = "refreshB" /\ pc' = "pop" /\ UNCHANGED energy_use /\ Refresh
       \/ pc = "refreshB" /\ pc' = "repeat" /\ UNCHANGED <<energy_use, battery>>
    /\ UNCHANGED <<round, minimum, cursor, energy, turn, life, monsters, place>>

NoCommand ==
    /\ pc = "pop" /\ pc' = "played"
    /\ UNCHANGED <<round, minimum, cursor, energy, energy_use, turn, life,
                   monsters, battery, place>>

\* MUTANT of CommandMoves: stairs take no time.
CommandMovesFree ==
    /\ \E to \in Depths : ChangesLevel(to)
    /\ energy_use' = 0
    /\ UNCHANGED <<chunks, deep_descent, level, life, monsters>>

\* Stairs, Teleport Level or Alter Reality.
CommandMoves ==
    /\ ~Arena /\ \E to \in Depths : ChangesLevel(to)
    /\ energy_use' = MoveEnergy
    /\ UNCHANGED <<chunks, deep_descent, level, life, monsters>>

\* effect_handler_SINGLE_COMBAT()
SingleCombat ==
    /\ ~Arena /\ here # {}
    /\ upkeep' = upkeep \cup {"arena_level", "generate_level", "autosave"}
    /\ energy_use' = MoveEnergy
    /\ UNCHANGED <<depth, chunks, deep_descent, level, life, monsters>>

\* mon_take_hit() on a monster with no hit points left.  Blows, shots and spells
\* take energy; a shield bash that kills does not.
KillMonster(i) ==
    /\ energy_use' \in 0 .. MoveEnergy
    /\ IF Arena THEN upkeep' = upkeep \cup {"generate_level"} /\ UNCHANGED monsters
                ELSE Gone(i) /\ UNCHANGED upkeep
    /\ UNCHANGED <<depth, chunks, deep_descent, level, life>>

\* effect_handler_DEEP_DESCENT()
ReadDeepDescent ==
    /\ MaxDescent > 0 /\ deep_descent' = MaxDescent
    /\ energy_use' = MoveEnergy
    /\ UNCHANGED <<depth, upkeep, chunks, level, life, monsters>>

OtherCommand ==
    /\ energy_use' \in 0 .. MoveEnergy /\ life' \in {"playing", "dead"}
    /\ UNCHANGED <<place, monsters>>

\* process_command()
Command ==
    /\ pc \in {"pop", "repeat"} /\ pc' = "cleanup"
    /\ \/ CommandMoves \/ SingleCombat \/ (\E i \in here : KillMonster(i))
       \/ ReadDeepDescent \/ OtherCommand
    /\ UNCHANGED <<round, minimum, cursor, energy, turn, battery>>

\* process_player_cleanup(), and the end of process_player()'s loop.
Cleanup ==
    /\ pc = "cleanup" /\ Charged
    /\ life' \in (IF energy_use > 0 THEN {life, "dead"} ELSE {life})
    /\ pc' = IF energy_use = 0 /\ life' = "playing" /\ ~Leaving THEN "refreshA" ELSE "played"
    /\ UNCHANGED <<round, minimum, cursor, energy_use, turn, monsters, battery, place>>

\* run_game_loop(), when process_player() has returned.
Played ==
    /\ pc = "played"
    /\ pc' = IF energy_use > 0 THEN "again" ELSE IF life = "playing" THEN "prompt" ELSE "over"
    /\ UNCHANGED <<round, minimum, cursor, energy, energy_use, turn, life,
                   monsters, battery, place>>

-----------------------------------------------------------------------------
(* The monsters' side: process_monsters().                                 *)

\* MUTANT of Again: a monster has to be ahead of the player by more than the least bit.
AgainLate ==
    /\ pc = "again"
    /\ IF energy >= MoveEnergy
       THEN pc' = "pass" /\ minimum' = energy + 2 /\ cursor' = MaxMonsters
       ELSE pc' = "refreshC" /\ UNCHANGED <<minimum, cursor>>
    /\ UNCHANGED <<round, energy, energy_use, turn, life, monsters, battery, place>>

\* "If the player has enough energy to move", the faster monsters go first.
Again ==
    /\ pc = "again"
    /\ IF energy >= MoveEnergy
       THEN pc' = "pass" /\ minimum' = energy + 1 /\ cursor' = MaxMonsters
       ELSE pc' = "refreshC" /\ UNCHANGED <<minimum, cursor>>
    /\ UNCHANGED <<round, energy, energy_use, turn, life, monsters, battery, place>>

Passing == pc = "pass" /\ cursor > 0 /\ life # "dead" /\ ~Leaving

\* The monster at index i is not dealt with in this pass.
Waits(i) == i \notin here \/ i \in handled \/ menergy[i] < minimum

PassOver ==
    /\ Passing /\ Waits(cursor) /\ cursor' = cursor - 1
    /\ UNCHANGED <<pc, round, minimum, energy, energy_use, turn, life,
                   monsters, battery, place>>

\* What monster_turn() may do, to a monster's energy that is already accounted for.
MonsterTurn(i, left) ==
    \/ \* nothing the loop can see, or the player's death
       /\ menergy' = [menergy EXCEPT ![i] = left] /\ life' \in {life, "dead"}
       /\ UNCHANGED <<here, energy, place>>
    \/ \* "Your energy is sapped!"
       /\ menergy' = [menergy EXCEPT ![i] = left]
       /\ energy' = 0
       /\ UNCHANGED <<here, life, place>>
    \/ \* Teleport Level
       /\ ~Arena /\ \E to \in Depths : ChangesLevel(to)
       /\ menergy' = [menergy EXCEPT ![i] = left]
       /\ UNCHANGED <<here, energy, life, level, chunks, deep_descent>>
    \/ \* it dies or goes away, or does away with another
       /\ \E j \in here :
              here' = here \ {j} /\ menergy' = [menergy EXCEPT ![i] = left, ![j] = 0]
       /\ UNCHANGED <<energy, life, place>>
    \/ \* another monster is summoned or bred
       /\ \E j \in Slots \ here, e \in 0 .. MoveEnergy - 1 :
              here' = here \cup {j} /\ menergy' = [menergy EXCEPT ![i] = left, ![j] = e]
       /\ UNCHANGED <<energy, life, place>>

\* MUTANT of Feeds: a monster is marked only where it stops short of moving.
FeedsUnmarked(i) ==
    /\ handled' = (IF menergy[i] < MoveEnergy THEN handled \cup {i} ELSE handled) \cap here'
    /\ fed' = [j \in Slots |-> IF j \notin here' THEN 0
                               ELSE IF j = i /\ fed[j] < 2 THEN fed[j] + 1 ELSE fed[j]]
    /\ since' = since \cap here'

\* MFLAG_HANDLED: prevent reprocessing.
Feeds(i) ==
    /\ handled' = (handled \cup {i}) \cap here'
    /\ fed' = [j \in Slots |-> IF j \notin here' THEN 0
                               ELSE IF j = i /\ fed[j] < 2 THEN fed[j] + 1 ELSE fed[j]]
    /\ since' = since \cap here'

MonsterActs ==
    /\ Passing /\ ~Waits(cursor) /\ cursor' = cursor - 1
    /\ \E gain \in Gains :
           IF menergy[cursor] >= MoveEnergy
           THEN MonsterTurn(cursor, menergy[cursor] + gain - MoveEnergy)
           ELSE /\ menergy' = [menergy EXCEPT ![cursor] = @ + gain]
                /\ UNCHANGED <<here, energy, life, place>>
    /\ Feeds(cursor)
    /\ UNCHANGED <<pc, round, minimum, energy_use, turn, battery>>

PassEnds == pc = "pass" /\ ~Passing

\* MUTANT of PassBefore: a level change asked for by a monster is not noticed.
PassBeforeUnaware ==
    /\ PassEnds /\ minimum > 0
    /\ IF life # "playing" THEN pc' = "refreshC" /\ UNCHANGED round
                           ELSE pc' = "refreshA" /\ round' = "again"
    /\ UNCHANGED <<minimum, cursor, energy, energy_use, turn, life,
                   monsters, battery, place>>

\* The faster monsters have moved; now the player does.
PassBefore ==
    /\ PassEnds /\ minimum > 0
    /\ IF life # "playing" \/ Leaving THEN pc' = "refreshC" /\ UNCHANGED round
                                      ELSE pc' = "refreshA" /\ round' = "again"
    /\ UNCHANGED <<minimum, cursor, energy, energy_use, turn, life,
                   monsters, battery, place>>

\* The rest have, too: reset_monsters().
PassRest ==
    /\ PassEnds /\ minimum = 0
    /\ pc' = "refreshD" /\ handled' = {}
    /\ UNCHANGED <<round, minimum, cursor, energy, energy_use, turn, life,
                   here, menergy, fed, since, battery, place>>

-----------------------------------------------------------------------------
(* The rest of the game turn.                                              *)

RefreshWorld ==
    /\ \/ pc = "refreshC" /\ pc' = "turn"
       \/ pc = "refreshD" /\ pc' = IF life # "playing" THEN "over" ELSE "world"
       \/ pc = "refreshE" /\ pc' = IF life # "playing" THEN "over" ELSE "gain"
    /\ Refresh
    /\ UNCHANGED <<round, minimum, cursor, energy, energy_use, turn, life, monsters, place>>

Turn ==
    /\ pc = "turn"
    /\ IF life # "playing" THEN pc' = "over" /\ UNCHANGED <<minimum, cursor>>
       ELSE IF Leaving THEN pc' = "leave" /\ UNCHANGED <<minimum, cursor>>
       ELSE pc' = "pass" /\ minimum' = 0 /\ cursor' = MaxMonsters
    /\ UNCHANGED <<round, energy, energy_use, turn, life, monsters, battery, place>>

\* Word of Recall is suspended in an arena; Deep Descent is not.
Descends ==
    IF deep_descent = 1
    THEN /\ deep_descent' = 0
         /\ \/ \E to \in Depths \ {depth, "Town"} : ChangesLevel(to)
            \/ StaysOnLevel
    ELSE /\ deep_descent' = IF deep_descent = 0 THEN 0 ELSE deep_descent - 1
         /\ \/ StaysOnLevel
            \/ ~Arena /\ \E to \in Depths \ {depth} : ChangesLevel(to)

\* process_world(), every WorldEvery turns.
World ==
    /\ pc = "world"
    /\ IF turn = 0 /\ ~Leaving
       THEN /\ pc' = "refreshE"
            /\ UNCHANGED monsters \/ \E i \in Slots : Placed(i)
            /\ \/ life' = "dead" /\ UNCHANGED <<depth, upkeep, deep_descent>>
               \/ Descends /\ UNCHANGED life
       ELSE pc' = "gain" /\ UNCHANGED <<life, monsters, depth, upkeep, deep_descent>>
    /\ UNCHANGED <<round, minimum, cursor, energy, energy_use, turn, battery,
                   level, chunks>>

\* MUTANT of Gain: the world's period is lost.
GainUnwrapped ==
    /\ pc = "gain" /\ pc' = IF Leaving THEN "leave" ELSE "again"
    /\ \E gain \in Gains : energy' = energy + gain
    /\ turn' = turn + 1
    /\ fed' = [i \in Slots |-> 0] /\ since' = here
    /\ UNCHANGED <<round, minimum, cursor, energy_use, life, here, menergy, handled,
                   battery, place>>

Gain ==
    /\ pc = "gain" /\ pc' = IF Leaving THEN "leave" ELSE "again"
    /\ \E gain \in Gains : energy' = energy + gain
    /\ turn' = (turn + 1) % WorldEvery
    /\ fed' = [i \in Slots |-> 0] /\ since' = here
    /\ UNCHANGED <<round, minimum, cursor, energy_use, life, here, menergy, handled,
                   battery, place>>

\* prepare_next_level().  A level left for an arena is stored, and the arena is
\* what there is when no level is stored under the name of the player's depth;
\* without an arena only the town is kept.
NextLevel ==
    IF Arena
    THEN /\ level' = IF depth \in chunks THEN depth ELSE "arena"
         /\ chunks' = CASE level = "arena" -> chunks \ {depth}
                        [] level = depth -> chunks \cup {level}
                        [] OTHER -> (chunks \ {depth}) \cup {level}
    ELSE /\ level' = depth
         /\ chunks' = (chunks \cup ({level} \cap {"Town"})) \ ({depth} \cap {"Town"})

\* A level that was stored comes back with its monsters as they were.
NextMonsters ==
    /\ here' \in SUBSET Slots
    /\ menergy' \in [Slots -> 0 .. (IF Arena THEN Top ELSE MoveEnergy) - 1]
    /\ \A i \in Slots \ here' : menergy'[i] = 0
    /\ IF Arena THEN handled' \in SUBSET here' ELSE handled' = {}
    /\ fed' = [i \in Slots |-> 0] /\ since' = {}

\* The player is given a move to start with, outside an arena.
FirstMove == energy' = IF ~Arena /\ energy < MoveEnergy THEN MoveEnergy ELSE energy

\* From on_leave_level() to on_new_level(), where the game is saved: not when an
\* arena's winner comes back.
Leave ==
    /\ pc = "leave" /\ pc' = IF level = "arena" THEN "comeBack" ELSE "arrive"
    /\ NextLevel /\ NextMonsters /\ FirstMove
    /\ saved' = IF "autosave" \in upkeep THEN [depth |-> depth, level |-> level'] ELSE saved
    /\ upkeep' = upkeep \ {"autosave"}
    /\ UNCHANGED <<round, minimum, cursor, energy_use, turn, life, raw, announced, rescued,
                   depth, deep_descent>>

\* MUTANT of Arrive: arena_level is not cleared after the combat.
ArriveInArena ==
    /\ pc \in {"arrive", "comeBack"} /\ pc' = "again"
    /\ Refresh
    /\ upkeep' = upkeep \ {"generate_level"}
    /\ UNCHANGED <<round, minimum, cursor, energy, energy_use, turn, life, monsters,
                   depth, level, chunks, deep_descent>>

\* The rest of on_new_level(), and the combat's end.
Arrive ==
    /\ pc \in {"arrive", "comeBack"} /\ pc' = "again"
    /\ Refresh
    /\ upkeep' = upkeep \ (IF pc = "comeBack" THEN {"generate_level", "arena_level"}
                                             ELSE {"generate_level"})
    /\ UNCHANGED <<round, minimum, cursor, energy, energy_use, turn, life, monsters,
                   depth, level, chunks, deep_descent>>

\* The game is saved at the prompt, or on arrival by itself, and then started again:
\* start_game() and its on_new_level().
Reload ==
    /\ \/ pc = "prompt"
       \/ pc \in {"arrive", "comeBack"} /\ saved = [depth |-> depth, level |-> level]
    /\ pc' = "prompt" /\ round' = "loaded"
    /\ upkeep' = IF level = "arena" THEN {"arena_level"} ELSE {}
    /\ level' = IF level = "arena" THEN level ELSE depth
    /\ energy' = IF level # "arena" /\ energy < MoveEnergy THEN MoveEnergy ELSE energy
    /\ energy_use' = 0 /\ raw' = "none" /\ announced' = "none" /\ rescued' = "no"
    /\ UNCHANGED <<minimum, cursor, turn, life, saved, monsters, depth, chunks, deep_descent>>

-----------------------------------------------------------------------------
\* What the game does by itself, without waiting for the player.
LoopStep ==
    \/ RefreshPlayer \/ NoCommand \/ Command \/ Cleanup \/ Played
    \/ Again \/ PassOver \/ MonsterActs \/ PassBefore \/ PassRest
    \/ RefreshWorld \/ Turn \/ World \/ Gain \/ Leave \/ Arrive

Next == Key \/ Poll \/ Reload \/ LoopStep

Spec == Init /\ [][Next]_vars

\* One thread; a question in the middle of something is answered at some time.
FairSpec == Spec /\ WF_vars(LoopStep)

-----------------------------------------------------------------------------
(* Properties *)

\* However its turns fall around the player's, each monster that is on the level
\* for a whole game turn gets energy in it once (MFLAG_HANDLED), and none twice.
FedOncePerTurn ==
    /\ \A i \in Slots : fed[i] <= 1
    /\ pc = "gain" /\ ~Leaving => \A i \in since : fed[i] = 1

\* When the player moves, or has just been asked to, every monster that has more
\* energy than he has moved before him.  A game that has just been loaded starts
\* with the player whatever the monsters have.
FasterMonstersFirst ==
    pc \in {"prompt", "refreshA", "pop", "repeat"} /\ round # "loaded" /\ energy >= MoveEnergy
        => \A i \in here \ handled : menergy[i] <= energy

\* No command is asked for or carried out while the player is on his way to another
\* level: except in an arena, where a shield bash that wins the combat takes no energy.
NoCommandOnTheWay == pc \in {"prompt", "pop", "repeat"} /\ Leaving => Arena

\* While nobody reads Deep Descent: arena_level is set on an arena and nowhere else,
\* and the only levels stored are the one the arena's winner comes back to and the town.
ArenaIsKnown ==
    pc = "prompt" => /\ Arena <=> level = "arena"
                     /\ ~Arena => level = depth /\ chunks \subseteq {"Town"} \ {depth}
                     /\ Arena => depth \in chunks /\ chunks \subseteq {"Town", depth}

\* A change of level that has been asked for is made, unless the game ends first or
\* is loaded again; in an arena, the player may be asked for a command before it is.
LevelChangeIsMade ==
    Leaving ~> ~Leaving \/ pc = "over" \/ (pc = "prompt" /\ Arena)

\* A battery that is found empty in the middle of something is warned of before the
\* player waits at the prompt again (unless a shield bash has won him a combat).
CriticalIsAnnounced ==
    raw = "critical" /\ pc # "prompt"
        ~> raw # "critical" \/ announced = "critical" \/ life = "dead" \/ pc = "over"
               \/ (pc = "prompt" /\ Leaving)

(* What a comment says, and what does not hold.                            *)

\* The automatic save is taken where Ctrl-S would take it, so that it holds a level
\* and the depth of that level.
SavedLevelFits == saved.level \in {saved.depth, "arena"}

\* player.h: arena_level means that the current level is an arena.
ArenaFlagFits == pc = "prompt" => (Arena <=> level = "arena")
=============================================================================
