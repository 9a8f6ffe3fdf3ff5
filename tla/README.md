# A formal model of Angband for the PicoCalc

This directory models the core of `angband-picocalc`: Angband 4.2.x ported to the
ClockworkPi PicoCalc (an RP2350 with one core in use, no operating system, an SD card, and a
second controller that owns the keyboard and the battery). The modules are TLA+. TLC checks
them on small instances, and TLAPS checks the proofs in the seven modules named `...Proofs` and in
`NatRecursion`.

1. [The system](#1-the-system)
2. [The modules](#2-the-modules)
3. [What the runs check](#3-what-the-runs-check)
4. [What is proved](#4-what-is-proved)
5. [Where the program and its documents disagree](#5-where-the-program-and-its-documents-disagree)
6. [What is not modelled](#6-what-is-not-modelled)
7. [Plan](#7-plan)
8. [Running it](#8-running-it)

Paths of the form `savefile.c` are below `src/src/game/`; others are given from `src/`.

## 1. The system

One program, one thread. `src/src/main.c` sets up the machine, names the savefile
("PicoCalc", line 393) and calls `play_game()`. From there:

    keyboard, battery --check_events()--> key queue --textui--> command queue (cmd-core.c)
                                                                      |
      run_game_loop() <-> process_player() -- process_command() <-----+
            |         <-> process_monsters()
            |         <-> process_world()      traps, noise, timers
            |         --> prepare_next_level() --> on_new_level() --> save
            +-- EVENT_REFRESH --> battery warning --> save
                                                       |
      close_game() --> enter_score() --> save of the dead character
                            |                          |
                         score.c                  savefile.c --> z-file.c --> FatFs, SD card

Nothing runs beside the game. What is concurrent with it, as far as correctness goes, is the
card (any call may fail), the power switch (it may go off between any two calls), the
battery, which is read whenever the program waits for a key, and the player. That is where
hard behaviour comes from: the state a step leaves behind when it is the last before a power
loss; flags and counters that many functions set and few clear; and copies that a dozen
functions have to keep in agreement.

| Component | State | Operations | What is hard | What makes it correct |
|---|---|---|---|---|
| Saving and loading (`savefile.c`, `ui-game.c`) | savefile, `.new` and `.old` with random parts, panic save | save, load, quit, die, start again | power loss between two renames, ignored results, a second failure while undoing the first | the savefile is never half written; a save reported done loads; no committed game is lost; a failed save undoes itself; nothing accumulates |
| High scores (`score.c`) | `scores.raw`, `.new`, `.old`, `.lok` | enter a score | the same renames, the lock left by a power loss | entries survive; the lock is given back on all ways out |
| Card and file layer (`z-file.c`, `src/platform/sd_fs.c`, `syscalls.c`) | files by name | open, write, close, remove, rename, exists | `rename()` refuses an existing target; a late write error comes out of `fclose()` | above |
| Game loop (`game-world.c`, `mon-move.c`) | energy of player and monsters, the turn, flags of `upkeep` | refresh, command, monsters' pass, world, gain | who moves when; commands that take no energy; flags consumed far from where they are set | everyone gets his energy once a turn; the faster move first; a change of level is made, once, before the next command |
| Level changes (`generate.c`, `gen-chunk.c`, `player-util.c`) | `depth`, the level, stored levels, `arena_level`, `deep_descent` | change level, single combat, come back, save on arrival, load | a flag, a list and a name have to agree over saves and deaths | `arena_level` on an arena and nowhere else; the level left is the one that comes back |
| Battery (`src/platform/battery.[ch]`, `src/src/main.c`) | last reading, warnings announced, the one save | poll, warn, save | readings come in the middle of commands and level changes | an empty battery is announced in time; the save holds a level with its depth |
| Traps (`trap.c`, `cave-square.c`) | list per grid, player's copy, decoy, timers and their bound | place, notice, hit, disarm, disable, remove, count down, save, load | list surgery, recursion through effects, copies, a sweep that is skipped | one player trap a grid; the decoy tracked; no timer forgotten; the player's copy right where he looks |
| Noise and scent (`game-world.c`, `z-queue.c`) | distance per grid, source, falloff, queue | flood, save, load, new level | a bounded circular queue that does not check; recomputing from saved parameters | the noise is the distance; the queue does not wrap; a load restores it |
| Keyboard and south bridge (`src/platform/keyboard.c`, `southbridge.c`, `main-pico.c`, `ui-term.c`) | FIFO, modifier latches, key ring, the term's keys, a flush asked for | poll, queue, hand out, flush | entries lost, failing I2C, a flush that comes later than it is asked for | a key carries the modifiers it was pressed with; what was typed before a disturbance is gone |
| Command queue and repeats (`cmd-core.c`, `cmd-cave.c`, `player-util.c`, `player-path.c`) | ring of commands, repeat counts, last command, running, resting, the path | push, repeat, pop, flush, disturb; commands that put in the next one | full queue, disturbances between two commands, commands that put in others | what is executed is what was pushed; a disturbance ends all that goes on by itself |
| View and light (`cave-view.c`) | view, seen and light per grid | update in a box | the port updates a part of the level only | the same as a full update |
| Monster list and groups (`mon-make.c`, `mon-group.c`, `mon-summon.c`, `effect-handler-attack.c`) | array with holes, groups, leaders, target, health bar | place, summon, delete, compact, swap, load | indices held over a compaction, used again, or passed beyond the last; leaders that die | every index held refers to the same monster; the groups survive a load |
| Objects (`obj-pile.c`, `obj-gear.c`) | linked piles, known objects | excise, absorb, drop, pick up | linked lists, paired lists | an object is in one place; its known twin is with it |
| Preference and text files (`ui-prefs.c`, `z-textblock.c`) | a file and its successor | replace | the second rename's result is ignored | as for the savefile |

The other parts (parser and data, generators, effects, stores, interface, display, memory,
diagnostics, the host's borg, wizard mode) are listed with their reasons in section 6.

## 2. The modules

| Module | Models | Used by |
|---|---|---|
| `Card` | `z-file.c` over FatFs: files by name, absent, partial or whole, and the effect of one open, close, remove, rename | SaveFile, ScoreFile |
| `Replace` | abstract: what the name of a file being replaced may show | SaveFile, ScoreFile (refinement) |
| `SaveFile` | `savefile_save()`, the start of the game, quitting, dying, power | |
| `SaveFileProofs` | theorems about SaveFile | |
| `ScoreFile` | `highscore_read()`, `highscore_add()`, `highscore_write()`, power | |
| `ScoreFileProofs` | theorems about ScoreFile | |
| `GameLoop` | `run_game_loop()` and what it calls, level changes, arena, battery | |
| `GameLoopProofs` | theorems about GameLoop | |
| `Traps`, `TrapsMC` | `trap.c` and its callers; symmetry and view for TLC | |
| `TrapsProofs` | theorems about Traps | |
| `Noise` | `make_noise()`, `z-queue.c`, saving and loading the noise | |
| `NoiseProofs` | theorems about Noise | |
| `Keyboard` | `keyboard.c` and the FIFO of the south bridge | Input |
| `CmdQueue` | the queue of `cmd-core.c` | Input |
| `Input`, `InputMC` | from the keys to the commands: composes `Keyboard` and `CmdQueue` with the delayed flush, `process_player()`, `disturb()` and the commands that go on; bounds and view for TLC | |
| `InputProofs` | theorems about Input: the keys, the ring of commands and the types; and, on top of these, what goes on by itself | |
| `MonsterList`, `MonsterListMC` | `mon-make.c`, `mon-group.c` and their callers; bounds, symmetry and view for TLC | |
| `MonsterListProofs` | theorems about MonsterList | |
| `NatRecursion` | lemmas: induction over a set of naturals, and that a loop which is run a bounded number of times has values, whose properties may depend on the turn | TrapsProofs, NoiseProofs, InputProofs, MonsterListProofs |

A definition whose comment begins with "MUTANT of" is no part of a specification. It is a
plausible mistake in the definition it names, kept so that the properties can be seen to
notice it.

### Card and Replace

A file is absent, partial (being written, or cut off), or whole with a content. An operation
either does all of its work or nothing. `Renamed` has the target free, because FatFs refuses
otherwise; `file_move()` therefore removes its target first, and the models make that two
calls. What is below this (FAT sectors, SPI retries) is not modelled: a power loss falls
between calls, not within one.

`Replace` states what both users of the write-and-rename protocol promise to whoever opens
the file by name: never a partial file; the name is emptied only while a complete successor
is on the card; what appears is the successor or something the name has held before. It does
not promise that there is always a file, and there is not (section 5).

### SaveFile

`pc` is the place in the program: off, starting (`boot`, `load`), playing, one place per call
of `savefile_save()`, the question whether to try again (`ask`), `closed`, `halted`. A game is
`[ver, life]`, `ver` growing with every change, so that "the last save" has a meaning.

* One action per call into the card: `OpenNew`, `WriteNew`, `CloseNew`, `DiscardNew`,
  `CheckExisting`, `ClearOld`/`MoveAside`, `ClearCur`/`MoveIn`, `ClearBack`/`MoveBack`,
  `DeleteOld` (`savefile.c:389-446`, `file_move()` in `z-file.c`). Each works or fails.
* `CheckPanic`, `Resume`, `Birth`, `BrokenSavefile`: `start_game()`. Which of the savefile and
  the panic save is newer is open where both exist (the machine has no clock). A partial file
  always fails to load. On the device nothing writes a panic save; one may be on the card from
  the host.
* `Play`, `SaveGame`, `CloseGame`, `TryAgain`, `GiveUp`, `Quit`, `PlayAgain`: `play_game()`,
  `save_game_checked()`, `close_game()`.
* `PowerOn` and `PowerLoss`, which is enabled everywhere.
* The random part of a name is one of `Tags`. `file_get_savefile()` tries a hundred numbers, so
  it takes a taken one only when all are taken, and `file_open()` then refuses.

### ScoreFile

The same shape for `highscore_write()`, with the lock: `Read`, `CheckLock`, `Lock`, `OpenNew`,
`Write`, `CloseNew`, the moves, `Abandon` (the exits that drop the new table), `Unlock`. A
table is the set of its entries, numbered by death. There is no second process, so a lock that
is found was left by an earlier run: `stale` says that a power loss or a failing delete has
left one.

### GameLoop

`pc` runs through the statements of `run_game_loop()`: `prompt` (waiting for a command),
`refreshA`/`refreshB`, `pop`/`repeat` and `cleanup` in `process_player()`, `played`, `again`
(the loop "while the player has enough energy"), `pass` (`process_monsters()`, with its
argument `minimum` and its index `cursor`), `turn`, `world`, `gain`, `leave`, `arrive` or
`comeBack` (`on_new_level()`), with `refreshC`, `D`, `E` for the other places that signal
`EVENT_REFRESH`.

* Energy is in units of a fraction of a move. `Gains` are the results of `turn_energy()`.
* `Command` is any of the things the loop can tell apart: it asks for a level
  (`CommandMoves`), takes the player to an arena (`SingleCombat`), kills (`KillMonster`), reads
  Deep Descent, or something else, which may take no energy or kill the player.
* `MonsterTurn` likewise: the energy is sapped, a level change, a monster gone or new, death.
* `upkeep` is the set of the flags that are set: `generate_level`, `arena_level`, `autosave`.
* `NextLevel` is `prepare_next_level()` without `birth_levels_persist`: an arena stores the
  level it is made from under its depth's name and the town is always stored.
* `Poll` is `battery_poll()`, wherever the program may wait for a key. `Refresh` is
  `battery_warn_step()` and `pico_battery_warn()`. `saved` records depth and level of each
  automatic save.
* `Reload`: save at the prompt, or power off after the arrival's save, and start again.

`kill_arena_monster()` is left to `MonsterList`: who the opponent is does not matter to the loop.

### Traps

`traps[g]` is the list at a grid, head first; `known[g]` the player's copy; `seen` the grids in
view; `decoy` the chunk's decoy grid; `timed_traps` the bound that lets `process_world()` skip
its sweep; `removal` how the last `square_remove_trap()` ended. Kinds are merged as far as the
lists can tell: player traps (which go off), glyphs, the decoy, webs. `SQUARE_TRAP` is set just
when the list is not empty, so it is no variable of its own. Where the player stands is left
out: whatever needs him on a grid may happen on any grid. `RemoveTrap` models the loop of
`square_remove_trap()` as it is written, the one that does not end included; after that the
model may go on, which changes nothing about the invariants and is what `RemovalEnds` asks
about.

`TrapsMC` adds the symmetry of the grids and a view that forgets which of the two terminating
results the last removal had, and what the player remembers of grids he does not see (which is
set right before anything but `Disarm` looks at it, and `Disarm` only sets it right).

### Noise

A level is the set of its grids that carry sound. `Listen` is what one grid does when noise reaches
it, `Spread` the loop over the eight grids around, in their order, `Pop` a round of `make_noise()`'s
loop, with its early `continue`s and the trick that the player's grid is never a child; `Flood`
iterates it. `World`, `Reload`, `NewLevel` are its callers, `Move` and `CoverTracks` the player.
`pushes` counts the pushes of one flood into `z-queue.c`'s ring, which does not check for overflow.

### Keyboard, CmdQueue and Input

`Keyboard` and `CmdQueue` are operators on one value each (`board`, `queue`), an operator for a
function of `keyboard.c` and of `cmd-core.c`, so that `Input` can chain them as the code does.

* `board` holds the fingers (`held`), the south bridge's `fifo`, the latches `mods` and the ring of
  `keyboard.c`. The firmware of the south bridge is not in the repository: `Press`, `Release`
  and `Enter` model it, from what the port reads, as a FIFO that forgets what it has no room for. An I2C
  call that fails ends a poll, and may take an entry with it (`PollsThatFail`).
* `queue` is the ring as it stands in memory: the command that is carried out is the slot before
  the tail, and CMD_REPEAT's is `last`, a slot of the ring until something is written over it. `AsList`
  says what the ring is for; `QueueKeepsOrder` compares each push with it.
* `term` is the key queue of `ui-term.c` and the flush that `disturb()` asks for (`inkey_xtra`) and
  that is made when a key is wanted next (`FlushInput`). `up` is the part of `player->upkeep` that
  goes on: running, the path, resting, `player_rest_disturb`, paralysis.
* `pc` is the place in the loop: `turn` (the start of `process_player()`: `RestComplete`, `Interrupt`,
  `NoCheck`), `pop` (`Perform`: a command is taken, carried out and counted), `prompt` (`Ask`,
  `Answer`), `world` (`Monster`, `Time`).
* A command is the set of games it may lead to (`Walk`, `Run`, `Pathfind`, `Rest`, ...), because what
  lies in the way is open. CMD_TUNNEL stands for all commands that repeat by themselves.
* A flush is one poll that is thrown away (`FlushedBoard`), as any poll cut short by a failing call.
* `history` and three fields of a key are no part of the program. They say which keys are older
  than the last disturbance and could be reached by a flush since (`PassedOver`), and name the other
  exceptions the properties make (section 5).

### MonsterList

A level is a record: `slot` (the array, by index), `max`, `rec` (what each monster's record, its
square and its objects say), `group`, `target`, `health`, `quit`, set when a check of
`mon-group.c` would end the game, and `short`, set when a group is to begin and the code has no number
left for it. There `assert(index)` fails and the model ends; a device without assertions would put
the group in the place 0 that belongs to none, which is not followed. Each function of `mon-make.c` and `mon-group.c` is an operator of
its name. Monsters are identities, which a re-used index does not have; `watched` remembers whom
the player chose, `duel` whom he fights.

* `PlaceNew` is `place_new_monster()` with at most one friend, `Summon` is `summon_specific()` by a
  monster, which may have begun a group when the placing fails (`SummonFails`), `Kill` all ways to
  `delete_monster_idx()`. A polymorph is `Kill` and `PlaceNew`.
* `process_world` compacts in either of its cases; which monsters go, and in which order, is open.
  `Save` compacts as `wr_dungeon()` does. `DeleteAll` and `ExciseAll` are the two loops of
  `compact_monsters()`, the second from the last index to the first. `Load` builds the groups again from the records, in the
  order and the two places `monster_group_assign()` does.
* `SingleCombat` swaps through the index beyond the last and stores the level, `kill_arena_monster`
  kills the first of the level when it is back. Between them the level rests, or is loaded.

## 3. What the runs check

All bounds are constants in the configurations, named in the modules.

| Run | Instance | States | What it shows |
|---|---|---|---|
| `save_file` | 2 tags, 2 versions, 2 starts, 2 failing calls | 782,602 | whatever two calls fail and wherever the power goes: `SaveNameWhole`, `CommittedSurvives`, `SaveDoneIsLoadable`, `FailedSaveKeepsSave`, `CleanSaveLeavesNoStrays`; it implements `Replace` (`SlotSpec`); a save comes to an end (`SaveAttemptEnds`) |
| `score_file` | 4 deaths, 4 starts, 2 failing calls | 24,094 | `EnteredSurvive`, `LockGivenBack`, `SlotSpec`, `ScoringEnds` |
| `noise` | all levels within 3 x 3, hearing 5 | 195,520 | `QueueNeverWraps`, `WorldMakesDistances`, `ReloadRestoresNoise` |
| `traps` | 2 grids, lists up to 3, timer 2 | 367,666 | `OnePlayerTrap`, `OneDecoyTracked`, `NoTimerSkipped`, `KnownInView` |
| `game_loop` | one level, 2 monsters, a move is 2 units, gains 1 and 2 | 426,510 | `FedOncePerTurn`, `FasterMonstersFirst`, `NoCommandOnTheWay` |
| `game_loop_levels` | 3 depths, 1 monster, 5 readings | 448,321 | `ArenaIsKnown`, `LevelChangeIsMade`, `CriticalIsAnnounced` |
| `input` | 1 plain key, 2 Shift keys, FIFO of 4, ring of 3, queue of 4, runs and rests of 2 | 712,899 | `QueueKeepsOrder`, `DisturbanceEndsAll`, `RunHasItsNextStep`, `KeysKeepTheirModifiers`, `FlushedKeysStayGone` |
| `monster_list` | 5 monsters of 3 races in 4 places | 41,130 | `IndicesAgree`, `TrackingFollows`, `GroupsSurvive`, `SavedWithoutHoles` |
| `save_resume` | as `save_file`, no failing call | | refutes `ResumesLastSave`: section 5 |
| `traps_hang` | 1 grid, lists up to 3 | | refutes `RemovalEnds`: section 5 |
| `game_loop_save` | as `game_loop_levels` | | refutes `SavedLevelFits`: section 5 |
| `game_loop_descent` | 3 depths, Deep Descent of 1 | | refutes `ArenaFlagFits`: section 5 |

Each property has a mutant in `PROJECT.json`: a change of one definition under which TLC finds
that property violated, in the same configuration.

### Why the bounds are enough

* **Two failing calls.** The protocols undo one failure with one more call, so that the second
  failure, in the undoing, is the interesting one. `FailedSaveKeepsSave` says "at most one
  failure since the save began" because it is false with two.
* **Two starts** let a start run on what a power loss has left and save again; the scores have
  four, because an entry has to be lost in one run, the lock cleared in no run, and a third
  find the consequences.
* **Two tags** are as few as allow a stray to be there and a name to be free, and few enough
  that all names can be taken, which a hundred and one random tries make improbable but not
  impossible.
* **3 x 3 grids** hold all levels with a cycle around a pillar, dead ends and detached parts.
  The longest way has seven steps and `MaxHearing` 5 cuts the flood off within the level.
  The falloff is 1, or 4 for a player who covers his tracks.
* **Two grids, lists of three** allow a decoy to move, a trap under glyphs, a removal that misses
  and one that does not end.
  A timer of 2 has the states before, at and after its end.
* **Two monsters** are needed for one to do away with another that has not moved yet. One is
  enough where levels are the question. **Energy of 2** has a gain that does not reach a move,
  one that does, and a surplus. The world's turn comes every second turn, not every tenth.
* **Three depths:** the town (always stored), and two others, one to be stored for an arena
  while a change to the other is asked for. Two runs rather than one, because monsters' order
  and levels do not depend on one another except through the flags both runs have.
* **Readings:** those that `battery_warn_step()` tells apart in the ways the properties ask
  about, "mid" being the range in which a warning is neither due nor armed again. "charging" has
  the effect of "high".

* **Input** is explored in six directions from one specification, chosen by `Init` (`MCBounds`):
  four presses or releases of modifiers and no command; two and a failing call; two rests with two
  keys waiting and a failing call; two commands that repeat themselves with up to four keys waiting,
  one more than a poll reads, and a failing call; any two commands with one key waiting, and three runs,
  the third of which finds what two that were cut short have left. Two Shift
  keys share a latch, which one could not show. A FIFO of 4 and a ring of 3 can each be full while
  the other is not, and a flush can be cut short before it has read two keys. A queue of 4 holds three
  commands, which a run with a look at the floor and a sleep fill, and wraps within a rest. Counts
  of 2 have a first, a further and no repeat. `MCBounds` does not combine failing calls with
  commands other than these two, nor modifiers with any; the proofs do.
* **MonsterList** is explored in three directions: five monsters of which three live at a
  time and all summon; five in a list for four, without summons, where placing fails and the list is
  compacted by force; three at a time that are looked at. Three are what it takes for a leader to
  leave two of one race or of different ones behind, for a summoned one to lead a group of its own,
  and for a swap with a third between. The spare 32 indices are 3, the 64 victims 2. That the array
  is not left is assumed by the guard `level.max < LevelMax` of `SingleCombat` (section 5).
  The groups have the numbers of the code, one fewer than the indices of monsters. Four of them run out
  in this run, when one of three monsters that lead two groups each summons; `MaxGroups` leaves the
  step in which that happens a value to put somewhere.

### Fairness

`FairSpec` of SaveFile is weak fairness of `SaveStep`, that of ScoreFile of `ScoreStep`, that of
GameLoop of `LoopStep`; `Input`, `MonsterList`, `Noise` and `Traps` state no liveness. The
program is one thread that nothing pre-empts for good: a step it can take it takes, unless the
power goes, and `PowerLoss` disables it. Where a step waits for a key in the middle (a -more-, a question), the fairness assumes that the player answers. Nothing
is assumed of `Key`, the player's next command, of `Poll`, of the power coming back, or of a
failing call to stop failing.

Deadlock is not checked where the program may stop: switched off, `halted`, `over`, an `assert` that
fails (`MonsterList`), or bounds used up.

## 4. What is proved

Thirty-six theorems, for every value of the constants, resting with their 535 lemmas on 19,828
obligations that tlapm checks with Z3, Zenon and LS4:

| Modules | About | Theorems |
|---|---|---|
| `SaveFileProofs` | any set of tags, any number of starts, failures and versions | every safety property of SaveFile, and the refinement of `Replace` |
| `ScoreFileProofs` | any number of deaths, starts and failures | the same for ScoreFile |
| `GameLoopProofs` | any number of monsters, any gains of energy, any dungeon | every invariant that a passing run of GameLoop checks |
| `TrapsProofs` | any finite set of grids, lists and timers of any length | every invariant of Traps |
| `NoiseProofs` | levels of any size and shape, any range of hearing | every property of Noise |
| `InputProofs` | any set of keys, any size of the FIFO, the ring of keys and the ring of commands, any counts | every property of Input |
| `MonsterListProofs` | any monsters, races and uniques, lists and groups of any length | every property of MonsterList |

The assumptions are the named ones on the constants, which TLC evaluates in every run, and the
hypotheses that stand in the statements of `CommittedAlwaysSurvives` and `ArenaAlwaysKnown`. Each
theorem has one lemma for the initial states and one for a step, which has one case per action of
`Next`. Each inductive invariant was an invariant of a run before it was proved.

`SaveFileProofs`:

* `TypeCorrect`: `Spec => []TypeOK`. `TypeOK` is not inductive: that a card with one more file
  is a card depends on the file having a name that `OpenNew` chose, and that a whole file holds
  a game depends on there being one in memory. `TypeInv` adds these two.
* `SaveNameAlwaysWhole`: `Spec => []SaveNameWhole`. The strengthening, `ShapeInv`, says what the
  `.new` file is at each stage: partial until `fclose()` has worked, then whole and the game in
  memory until it is moved; and that no `.old` file is partial, because a failed save moves one
  back under the savefile's name.
* `SaveDoneAlwaysLoadable`: `Spec => []SaveDoneIsLoadable`, from the same invariant: at `done`
  the savefile is the game in memory, by whatever way the code came there.
* `CommittedAlwaysSurvives`: `Spec /\ []OldNameFree => []CommittedSurvives`. The old savefile
  may go because the new one is no older, so `AgeInv` bounds versions from both sides: the game
  in memory and every file that may come to stand under the savefile's name are no older than
  the last committed game, and none is from the future. The step that needs the hypothesis is
  the choice of the `.old` name: were it the name of a stray, `file_move()` would delete the
  stray, which after two power losses can be the last copy there is. With two tags TLC finds
  no such run inside the bounds of `save_file`; the code leaves it to a hundred and one random
  numbers, and the theorem says exactly that it is all that is left to chance.
* `FailedSaveAlwaysKeeps`: `Spec => []FailedSaveKeepsSave`. `KeepInv` follows the savefile through
  the moves. The case that is easy to miss is a `stat()` that fails: the code goes past the first
  move, and `file_move()` deletes the savefile it did not see. With one failure spent, the name
  empty and the `.new` file whole (`ShapeInv`), only a second failure keeps the new one out.
* `CleanSaveAlwaysTidy`: `Spec => []CleanSaveLeavesNoStrays`. `TidyInv` says which of its own two
  files a save may have on the card at each place, and that no rename ever meets a taken target.
* `SaveImplementsReplace`: `Spec => SlotSpec`. `SlotSteps` states Replace's steps over what the
  mapping puts for its variables; `SlotStep` then takes SaveFile's actions one by one.

`ScoreFileProofs`:

* `TypeCorrect` needs that an entry is only made after a death.
* `LockAlwaysGivenBack`: the lock is the same everywhere outside the rewriting (`LockInv`), so a
  path that forgets it breaks the invariant at its last step.
* `EnteredAlwaysSurvive`: `HeldInv` says why the lock is needed. While it is absent the entries are
  in `scores.raw`, so what `highscore_read()` reads is everything; between the two moves they are
  in `scores.old` only, and a power loss there leaves the lock, which keeps the next death from
  rewriting the file without them.
* `ScoreImplementsReplace`, `Spec => SlotSpec`, from `ShapeInv`: the table in memory is `scores.new`
  while it waits, and neither `scores.raw` nor `scores.old` is ever cut off.

In both, `OtherFiles` and `FileStates` say once what a call does to the files it does and does not
name.

`GameLoopProofs`:

* `TypeCorrect`. That nobody's energy exceeds what two moves take is not a matter of types: it is
  bounded because energy is given out only at `gain`, and `EnergyOK` follows where the player is
  known to be short of a move from the statement "while the player has enough energy" to there.
* `FedOnceAlways`. `FedInv` is about `MFLAG_HANDLED`: a monster that has been fed carries the flag
  until the flags are taken away, they are taken away only after a pass over all monsters, and
  what such a pass has left behind its cursor is fed. A monster that dies and whose place is
  taken by another in the middle of a pass is where that could go wrong.
* `FasterAlwaysFirst`. The pass before the player's move is made with `minimum` one above his
  energy. `FasterInv` says that this relation holds throughout the pass, though the monsters can
  sap him in the middle of it, and that the player, as long as what he does takes no energy, is
  asked again with no faster monster waiting.
* `NeverCommandOnTheWay`: `generate_level` is consumed before the player is asked again.
* `ArenaAlwaysKnown`: `MaxDescent = 0 => (Spec => []ArenaIsKnown)`. `LevelInv` relates the flag, the
  list of stored levels and the depth at every place between `leave` and the arrival, a save and a
  load included. The hypothesis says that nobody reads Deep Descent; without it, the run
  `game_loop_descent` refutes the sentence the property comes from (section 5), so it is as weak as
  it can be.

`TrapsProofs`. The lemmas say what each operation on a list leaves of it: a list of which each two
traps come from two traps of the old one (`Fewer`), for removals, for
`square_remove_all_traps_of_type()` and for the sweep; the loops by induction over their turns.

* `TypeCorrect`, `OnePlayerTrapAlways`, `OneDecoyAlways`, `NoTimerEverSkipped` and
  `KnownInViewAlways`. `DecoyInv` is stronger than its property: a decoy is where `chunk->decoy`
  says, and there is one of it; only so can the next be laid safely. `TimerInv` is about single
  timers, not their number: `timed_traps` is no bound on it (section 5), and need not be one.

`NoiseProofs`. `ListenEffect` says what giving its noise to one grid changes, and every invariant of the
flood is carried through the two loops of `make_noise()` by it.

* `TypeCorrect` and `QueueAlwaysSuffices`. `Basic`: what has been pushed is one more than the grids
  that have noise, and the player's grid never has any; so no flood pushes more than there are
  grids, though a flood from elsewhere pushes its source twice (0 is "the source" as well as
  "none"). With it `FloodEnds`: the rounds that `Flood` is given are enough for the queue to run empty.
* `WorldAlwaysMakesDistances` and `ReloadAlwaysRestoresNoise`. `Wave` is the argument for breadth-first
  search, on this code: the queue is in the order of the noise, nothing is further than one step
  ahead of its first grid, each grid has its noise from a neighbour, and what has left the queue
  has passed its noise on. `Crest` is the same in the middle of a round. When the queue is empty the
  two last parts leave just one value for every grid, the distance (`WaveDistances`).

`InputProofs`:

* `KeysAlwaysKeepTheirModifiers`. `BoardInv` looks ahead: what the latches will be when all
  that waits in the FIFO has been read is what the fingers hold (`Settled`), and what they will be
  in front of an entry is what was held when it was pressed (`Faithful`). The latches an entry
  lost to a full FIFO or a failing call leaves in doubt are excepted, as in the property.
* `FlushedKeysAlwaysGone`, an action property. `KeysInv`: from the flush on nothing that waits is older
  than the disturbance, but for what the flush could not reach. That is allowed in two cases only, and
  only in the FIFO of the south bridge: the FIFO held more than one poll reads, or an I2C call failed in
  that poll. `AllRead` shows that without these a poll leaves nothing.
* `QueueAlwaysKeepsOrder`: that the ring behaves as a list. It needs that a slot CMD_REPEAT will
  read is not one that waits (`LastAside`), except when it is the next that comes (`LastFirst`).
* `TypeCorrect`: a run never gets longer than the largest count, whatever counts CMD_REPEAT brings
  back.

The second half of `InputProofs`, what goes on by itself. The invariant has three parts, for the three kinds of
states between two commands:

* `Level`: the player has ordered nothing. A step of a run waits only if there is a run; a rest that
  was cut short will be refused; a path waits only behind what is in its way; after a disturbance
  there is no run and no rest (`Basis`); a run has its next step (`Steady`); and of what goes on by
  itself one command waits, not two (`Pairs`).
* `Ordered`: the player's command comes next, and nothing but small things wait behind it.
* `Dug`: a path has met a door or rubble; the work at it comes next and then the path.

From it follow `DisturbanceAlwaysEndsAll` and `RunAlwaysHasItsNextStep`. `Pairs` is what neither
property says and both need: with two steps of a run in the queue, the one that ends the run leaves
the other behind, which then begins a run after the disturbance.

`MonsterListProofs`. Every function of `mon-make.c` and `mon-group.c` has a lemma that says what it does
to a level that is in order, and the actions are put together from these. The invariant is `ListInv`:

* `Sound`: the list and the records agree (`Indexed`); a monster has a group, and a second one only to
  lead it (`WellGrouped`); the groups are those of the relations `Joined` and `Led`, which are read off the
  records (`Kept`); and if group numbers have run out, enough monsters live for that (`Enough`).
* `Below`: all that live are below `cave_monster_max()`.
* The target, the health bar and the opponent in the arena are the monsters that `watched` and `duel`
  name.

What makes it hard is what is true in the middle. While a leader leaves, his record claims a group that
lists him no longer, and while a group falls apart half of its members are in new ones. So `Sound` is
about a level and a set of claims, `odd`, that are not honoured at the moment; it is empty between two
steps of the game. A monster in two groups leaves one after the other, and `Verify` looks at both in
between.

* `TypeCorrect`, and `IndicesAlwaysAgree`, which is `Indexed` and `Below`. The swap of single combat
  goes through the index beyond the last, where nobody is.
* `TrackingAlwaysFollows`: `Follows` says that an operation leaves a reference unset or on the monster it
  was on. `monster_index_move()` takes the health bar along; the target it loses.
* `GroupsAlwaysSurvive`: that a group keeps one leader when members leave, when an heir takes over (who
  may be in it by a summons), when it falls apart into groups of one race, and when a load makes it
  again in the order of the list. The invariant holds until a number is wanted that the code does not have,
  and nothing is assumed to prevent that. The second half of the theorem says when it can come to it:
  not before half as many monsters live as there are indices. Each group has a leader, whose
  record claims it in one of two places, and the place to be filled is free; so LevelMax - 1 groups
  have LevelMax / 2 leaders (`FreeGroup`).
* `SavedAlwaysWithoutHoles`, an action property: from the index that the loop of `compact_monsters()` has
  come to up to `cave_monster_max()` there are no holes (`Closing`). That needs the loop to go backwards: the
  last monster is then one that may be moved.

The loops are recursive functions, about which induction over sets of naturals suffices: what holds after a
turn may depend on the number of the turn (`StagedRecursion`).

What the proofs brought to light about the models:

* `DisturbanceEndsAll` was false as it stood, by a run of three commands where the configuration had
  two: what the player has ordered, and a disturbance comes before it is begun, is not what "goes on
  by itself". `history.given` now tells the two apart.
* The bounds on the player's energy and on the length of a run were too small for larger constants
  than the runs had.
* A CASE in GameLoop had alternatives that overlap, which TLC takes in order and TLA+ does not.
* `square_remove_all_traps_of_type()` and the loop over the grids around one in `make_noise()` are
  modelled by loops, as they are written, and the recount of the timers by the set of those that
  run. So are the loops of `compact_monsters()`, of a group that falls apart and of a load.
* `GroupsSurvive` is not provable without a bound on how many monsters live, as
  `monster_group_index_new()` may fail. The property says so instead of assuming the bound.
* "Unless the flush left entries" had excused keys that a flush leaves behind for no other reason
  than a failing call; the two reasons are now told apart key by key.

**Model-checked only:** the four liveness properties (`SaveAttemptEnds`, `ScoringEnds`,
`LevelChangeIsMade`, `CriticalIsAnnounced`), which are out of these
provers' reach, as is all that mentions ENABLED. Every other property that a passing run checks is
the subject of a theorem. The library's
induction theorems take an operator, which the provers do not instantiate; `NatRecursion` derives
the forms used here, about sets, from the well-foundedness of the naturals, so a recursion is in
reach where it is a loop with a bound and no recursive operator.

## 5. Where the program and its documents disagree

Four runs end in a counterexample; each checks one sentence of a document or comment.

* **`save_resume`: a power loss between two renames brings up a new character.** There is no
  file under the savefile's name between `savefile.c:423` and `425`, and `start_game()` looks for no
  other. Both complete games stay on the card as `.new` and `.old` until they are renamed by
  hand. README.md:63 and INSTALL.md:112 promise the last save.
* **`traps_hang`: `square_remove_trap()` may not end** (`trap.c:144`). The cursor advances to the
  successor of the trap it is looking for. For a trap in the middle of its list the loop is
  endless; the last one of several is missed.
* **`game_loop_save`: the battery's save may pair a level with the depth of the next**
  (`src/src/main.c:585`). It hangs on `EVENT_REFRESH`, which is also signalled with a change of
  level pending. The comment at main.c:546 places it where Ctrl-S is. It is replaced by the save on
  arrival unless the battery gives out before.
* **`game_loop_descent`: Deep Descent in an arena** (`game-world.c:761`) is not suspended as Word of
  Recall is (734) and leaves the player walled in on a level that is taken for a real one.

Met while modelling, and in the models where they matter, but without a run:

* A failing second rename whose undoing fails too leaves the savefile's name empty
  (`savefile.c:429`, whose result is dropped). This needs two failures in one save.
* `square_remove_trap()` misses the last trap of a list; the two `assert(0)` that would tell
  (`trap.c:597`, `cmd-cave.c:834`) are compiled out.
* When an earthquake or another change of terrain takes the decoy's trap, `chunk->decoy` stays
  (`cave-square.c:1250`), and the decoy effect refuses a new one (`effect-handler-general.c:707`).
* `square_memorize_traps()` tests the grid where its comment speaks of the trap
  (`trap.c:457-471`): a hidden trap under a visible one is remembered.
* The noise after a load differs from the noise before the save if the player has moved since
  the last world turn, because the flood treats his grid specially (`game-world.c:1308`,
  `ui-game.c:774`). `ReloadRestoresNoise` therefore has the player on the source.
* A player whose energy is sapped to nothing between the test and his move still moves
  (`game-world.c:1165-1175`, `project-player.c:414`).
* A battery warning at 5 % in an arena is not followed by a save later on, and the one automatic
  save counts as made before it is tried (`src/src/main.c:554-557`; README.md:86-88).
* A shield bash that wins a single combat takes no energy, so the player is asked for a command
  with the way back pending (`player-attack.c:1011`). `NoCommandOnTheWay` excepts arenas.
* A `scores.raw` that cannot be opened or is read short counts as a table with what was read
  (`score.c:51`), and the next score replaces it. `EnteredSurvive` assumes no failing call.
* A lock file left by a power loss is never removed: no score is entered again (`score.c:125`).
* `timed_traps` is called an upper bound on the timed traps (`cave.h:236`), but a loaded level starts
  with 1 however many it has. Harmless: all that matters is that the sweep is skipped only at 0.

From the modules of the input:

* "Paralyzed or Knocked Out player gets no turn" (`game-world.c:917`): he is given a sleep, but behind
  the commands that wait, which are carried out first.
* "All disturbance cancels repeated commands, resting, and running" (`player-util.c:1640`), but not a
  path that waits behind the door or rubble it has met: its commands survive, and it begins anew.
* A web met on the way of a path leaves `running` and `steps` set without a next step, so that the
  next path meets the `assert` at `cmd-cave.c:1559`; without assertions, as on the device, the old path
  is lost. A queue that is full drops a run's next step as silently (`history.stuck`).
* A run with a count that first clears a web is repeated and goes on by itself, and a run against a
  door that is known and locked puts in one more step per try, which keeps its repeat count from
  running out (`history.twice`).
* `player_rest_disturb` stays set when the rest it should end is flushed from the queue: the next
  rest is cancelled at once. A rest of one turn uses the count of the last rest.
* Counted walks leave a look at the floor each in the queue; a sleep becomes the last command for
  CMD_REPEAT; after a path through a door CMD_REPEAT repeats the path and not the exploration that
  began it.
* Both Shift keys share a latch: releasing one releases both. Entries beyond the sixteen that one
  poll reads survive a flush, and so do those behind an I2C call that fails (`southbridge.c:105`), as a
  failed read cannot be told from an empty FIFO. Both come out as commands after the disturbance
  (`PassedOver`).

From the list of monsters:

* `monster_index_move()` sets the target to a record it has not filled yet (`mon-make.c:452`), which is
  not acceptable as a target. So the player loses his target whenever the monster is moved, and as
  saving compacts the list (`save.c:977`), a save changes the game.
* Single combat writes beyond the end of `c->monsters[]` when the list's end has reached its limit
  (`effect-handler-attack.c:1886`); holes allow that with fewer monsters alive.
* A monster can lead two groups, one of them left from when it was a summon or a member, so there can be more groups than
  monsters; but `monster_group_index_new()` has one fewer to give than there are indices. "Fail, very
  unlikely" is caught by an `assert` that the device does not have (`mon-group.c:248`). `GroupsSurvive`
  says how many monsters it takes: half of `level_monster_max`.
* After a won single combat `health_who` still points into the arena, which nothing frees.

## 6. What is not modelled

Within the modelled parts: the blocks of a savefile; FAT and SPI; the order of the scores;
persistent levels (`birth_levels_persist`); drawing the battery; shift implied by punctuation,
keymaps and the mouse; commands that neither go on nor repeat; the background drop; the counts of
monsters per race, shape changes, levels copied from chunks and mimics that a load does not find; what traps do, door locks and where traps are allowed; the scent, which is a fixed
table; sub-unit energy.

Two branches are left out because of what it takes to reach them. `rd_traps_aux()` sets `chunk->decoy`
only on the level the player is on (`load.c:1501`), so that a level stored under an arena comes back
without it; the player would have to lay a decoy and ask for single combat, which no class of the game
data does, or levels would have to persist. `Traps` has one level, the one he is on. And a run that goes on
through `move_player()` alters a door it steps against (`cmd-cave.c:1079`): a run looks out for doors the
player knows, so a door must have been made, unseen, where he remembers a floor (`project-feat.c:267`).
`RunOn` has the wall and the open floor. The group that a device without assertions would put in the place
0 when the numbers run out is not followed either (section 5).

Parts left out altogether, with the reason, are in the components of `PROJECT.json`. In short:
parser and game data (read once at start), level generators (random, no protocol), effects,
projections and monsters' choices (numeric; those that touch the loop, the traps, the levels or
the list of monsters are actions there), stores, messages, user interface, display and memory (no state the
game depends on, or an allocator that is not in the repository), diagnostics, the borg and the
host build (not on the device), and wizard mode. View, object piles and preference files would be the next.

Most of the repository's lines are in these parts: Angband is a few protocols and a great mass of tables,
generators, dialogues and effects, and more than a quarter of it is the borg.

## 7. Plan

Done in the order of what a player can lose: his game (`SaveFile`), his scores (`ScoreFile`), the
game's progress (`GameLoop`), then structures with hand-made invariants (`Traps`, `Noise`,
`MonsterList`), and what comes in from the player (`Input`). What would be next:

1. `ViewBox`: `update_view()` in the box of PORT-NOTES.md item 10 against the full update, on all
   small levels, with lights that move, go out and are left behind.
2. `Death`: ScoreFile and SaveFile composed on one card: the score is entered before the dead
   character is saved (`ui-game.c:1178`), so one hero may die twice.
3. `TextFile`: preference and text files as the third user of `Card` and `Replace`, which they do not
   implement when the second rename fails.
4. If there is room: object piles and the gear; timed effects.

Each is to have one run. The whole set is meant to stay at a dozen runs of a few minutes, so runs
merge, or give way to better ones, as modules come.

Of the proofs nothing is left but liveness, which these provers do not do. A new module would have its
proofs on the pattern of `MonsterListProofs`: one lemma per function of the code, then the actions.

## 8. Running it

    tlc -workers 2 -config SaveFile.cfg SaveFile.tla
    tlc -workers 2 -config Traps.cfg TrapsMC.tla
    tlc -workers 2 -config Input.cfg InputMC.tla
    for m in *Proofs.tla NatRecursion.tla; do tlapm $m; done

The configurations are named after the module and what they ask; `PROJECT.json` lists them with
their properties, the mutants, and the source lines of each definition. The longest runs
(`save_file`, `input`) take two or three minutes with two workers; the longest proofs
(`InputProofs`, `MonsterListProofs`) about ten minutes each from nothing.
