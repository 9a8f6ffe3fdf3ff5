----------------------------- MODULE MonsterList -----------------------------
(***************************************************************************)
(* The list of monsters of a level and everything that refers to it by     *)
(* index: the squares, the objects monsters carry or mimic, the groups     *)
(* (mon-group.c), the player's target and the health bar.  Monsters are    *)
(* placed, summoned, killed and compacted (mon-make.c, mon-summon.c),      *)
(* moved to the front for single combat (effect-handler-attack.c) and      *)
(* rebuilt from a savefile (load.c).                                       *)
(*                                                                         *)
(* A level is a record; each function is an operator from the level before *)
(* to the level after.  Monsters are identities: that a reference still    *)
(* means the same monster is what there is to show.                        *)
(***************************************************************************)
EXTENDS Integers, Sequences, SequencesExt, FiniteSets, FiniteSetsExt

CONSTANTS Monsters,      \* bound: the monsters there can be
          Uniques,       \* those that are unique
          Race,          \* the race of each
          LevelMax,      \* z_info->level_monster_max: indices are below it
          Spare,         \* process_world(): 32 indices are kept free
          NumToCompact,  \* process_world(): 64 monsters go when they are not
          Bounds         \* bounds to choose from: the monsters, how many are alive
                         \* at a time, those that summon and those the player looks at

Nobody == "nobody"

ASSUME ListAssumption ==
    /\ Nobody \notin Monsters
    /\ Uniques \subseteq Monsters /\ DOMAIN Race = Monsters /\ LevelMax \in Nat \ {0, 1}
    /\ Spare \in Nat /\ NumToCompact \in Nat \ {0}
    /\ \A b \in Bounds :
          /\ b.monsters \cup b.summoners \cup b.looked \subseteq Monsters
          /\ b.alive \in Nat

VARIABLES
    level,    \* see EmptyLevel
    duel,     \* the monster of the arena the player is in, or Nobody
    watched,  \* history: the monsters the player has targeted and looked at
    bounds

vars == <<level, duel, watched, bounds>>

Arena == -1               \* health_who: the record of the arena's monster
Indices == 1 .. LevelMax  \* the last is one beyond c->monsters[]

\* c->monster_groups[] has the numbers below LevelMax.  The others are given out by
\* nothing but a step in which assert(index) fails, for what is left of it: short.
MaxGroups == 2 * LevelMax
GroupIndices == 1 .. MaxGroups
Roles == {"leader", "member", "summon"}   \* servants and bodyguards are members

\* group_info[PRIMARY_GROUP] and group_info[SUMMON_GROUP]
Primary == 1
Second == 2
NoInfo == [index |-> 0, role |-> "leader"]

\* mon->midx, the index on its square, the one of its objects, its groups
NoRecord == [midx |-> 0, square |-> 0, object |-> 0, info |-> <<NoInfo, NoInfo>>]
NoGroup == [leader |-> 0, members |-> <<>>]

\* quit: whether one of the checks of mon-group.c has ended the game.  short: how many
\* monsters there were when a group was to begin and no number was left, or 0
EmptyLevel == [slot |-> [i \in Indices |-> Nobody], max |-> 1,
               rec |-> [m \in Monsters |-> NoRecord],
               group |-> [g \in GroupIndices |-> NoGroup],
               target |-> 0, health |-> 0, quit |-> FALSE, short |-> 0]

Alive(l) == {l.slot[i] : i \in Indices} \ {Nobody}
cave_monster_count(l) == Cardinality(Alive(l))

TypeOK ==
    /\ level.slot \in [Indices -> Monsters \cup {Nobody}] /\ level.max \in Indices
    /\ \A m \in Monsters :
          LET r == level.rec[m]
          IN  /\ {r.midx, r.square, r.object} \subseteq 0 .. LevelMax - 1
              /\ r.info \in Seq([index : 0 .. MaxGroups, role : Roles])
    /\ \A g \in GroupIndices :
          /\ level.group[g].leader \in 0 .. LevelMax - 1
          /\ level.group[g].members \in Seq(1 .. LevelMax - 1)
    /\ level.target \in 0 .. LevelMax - 1 /\ level.health \in Arena .. LevelMax - 1
    /\ duel \in Monsters \cup {Nobody} /\ level.short \in 0 .. LevelMax

-----------------------------------------------------------------------------
(* mon-group.c *)

\* monster_groups_verify(): whether it lets the game go on.
Verified(l) ==
    \A g \in GroupIndices : \A i \in ToSet(l.group[g].members) :
        /\ l.slot[i] # Nobody
        /\ LET info == l.rec[l.slot[i]].info
           IN  \/ info[Primary].index = g
               \/ info[Second] = [index |-> g, role |-> "leader"]

Verify(l) == [l EXCEPT !.quit = @ \/ ~Verified(l)]

monster_group_index_new(l) == Min({g \in GroupIndices : l.group[g] = NoGroup})

\* From LevelMax on the number is one that the code does not have: it gets 0, and
\* assert(index) fails.
monster_group_start(l, m, which) ==
    LET g == monster_group_index_new(l)
        i == l.rec[m].midx
    IN  [l EXCEPT !.group[g] = [leader |-> i, members |-> <<i>>],
                  !.rec[m].info[which] = [index |-> g, role |-> "leader"],
                  !.short = IF g < LevelMax THEN @ ELSE cave_monster_count(l)]

monster_add_to_group(l, m, g) == [l EXCEPT !.group[g].members = <<l.rec[m].midx>> \o @]

\* The group of a new monster: the one it is to join, or one of its own.
monster_group_assign(l, m) ==
    LET g == l.rec[m].info[Primary].index
    IN  IF g # 0 /\ l.group[g] # NoGroup THEN monster_add_to_group(l, m, g)
        ELSE monster_group_start(l, m, Primary)

\* One member of a group g that falls apart joins the new group of its race, or
\* begins it.  a is the level and the new groups so far.
Regroup(a, i, g) ==
    LET m == a.level.slot[i]
        same == {t \in a.new : Race[a.level.slot[Head(a.level.group[t].members)]] = Race[m]}
        t == CHOOSE t \in same : TRUE
        joined == [a.level EXCEPT !.rec[m].info[Primary] = [index |-> t, role |-> "member"]]
    IN  IF same # {} THEN [a EXCEPT !.level = monster_add_to_group(joined, m, t)]
        ELSE IF a.level.rec[m].info[Primary].index # g THEN a
        ELSE [level |-> monster_group_start(a.level, m, Primary),
              new |-> a.new \cup {monster_group_index_new(a.level)}]

monster_group_split(l, g) ==
    LET ms == l.group[g].members
        after[k \in 0 .. Len(ms)] ==
            IF k = 0 THEN [level |-> l, new |-> {}] ELSE Regroup(after[k - 1], ms[k], g)
    IN  after[Len(ms)].level

\* Who takes over from m: the last unique, or the first of its race that was not
\* summoned; 0 when nobody does.
Heir(l, m, g) ==
    LET ms == l.group[g].members
        uniques == {k \in DOMAIN ms : l.slot[ms[k]] \in Uniques}
        kin == {k \in DOMAIN ms :
                   /\ Race[l.slot[ms[k]]] = Race[m]
                   /\ l.rec[l.slot[ms[k]]].info[Primary].role # "summon"}
    IN  IF uniques # {} THEN ms[Max(uniques)]
        ELSE IF kin # {} THEN ms[Min(kin)] ELSE 0

monster_group_remove_leader(l, m, g) ==
    LET heir == Heir(l, m, g)
    IN  Verify(IF heir = 0 THEN [monster_group_split(l, g) EXCEPT !.group[g] = NoGroup]
               ELSE [l EXCEPT !.group[g].leader = heir,
                              !.rec[l.slot[heir]].info[Primary].role = "leader"])

\* One round of monster_remove_from_groups(): group g, if there is one.
Leave(l, m, g) ==
    LET i == l.rec[m].midx
        ms == l.group[g].members
        left == [l EXCEPT !.group[g].members = RemoveAt(ms, CHOOSE k \in DOMAIN ms : ms[k] = i)]
    IN  IF i \notin ToSet(ms) THEN [l EXCEPT !.quit = @ \/ Len(ms) = 1]
        ELSE IF Len(ms) = 1 THEN [l EXCEPT !.group[g] = NoGroup]
        ELSE IF l.group[g].leader = i THEN monster_group_remove_leader(left, m, g)
        ELSE left

GroupOf(l, m, which) == l.rec[m].info[which].index
HasGroup(l, m, which) ==
    GroupOf(l, m, which) # 0 /\ l.group[GroupOf(l, m, which)] # NoGroup

\* MUTANT of monster_remove_from_groups: the group of its summons keeps the monster.
monster_remove_from_groupsOnce(l, m) ==
    IF HasGroup(l, m, Primary) THEN Leave(l, m, GroupOf(l, m, Primary)) ELSE l

monster_remove_from_groups(l, m) ==
    LET once == IF HasGroup(l, m, Primary) THEN Leave(l, m, GroupOf(l, m, Primary)) ELSE l
    IN  IF HasGroup(l, m, Primary) /\ HasGroup(once, m, Second)
        THEN Verify(Leave(once, m, GroupOf(once, m, Second))) ELSE once

\* monster_group_change_index(): a monster of the groups moves from i to j.
Renamed(group, i, j) ==
    [leader |-> IF group.leader = i THEN j ELSE group.leader,
     members |-> [k \in DOMAIN group.members |->
                     IF group.members[k] = i THEN j ELSE group.members[k]]]

monster_group_change_index(l, j, i) ==
    LET m == l.slot[i]
        g == GroupOf(l, m, Primary)
        one == [l EXCEPT !.group[g] = Renamed(@, i, j)]
        h == GroupOf(l, m, Second)
        found(k) == i \in ToSet(l.group[k].members)
    IN  IF HasGroup(l, m, Second)
        THEN [one EXCEPT !.group[h] = Renamed(@, i, j), !.quit = @ \/ ~found(h)]
        ELSE [one EXCEPT !.quit = @ \/ ~found(g)]

\* summon_group(): the level with the group that m's summons join.
summon_group(l, m) ==
    IF l.rec[m].info[Primary].role # "leader" /\ GroupOf(l, m, Second) = 0
    THEN monster_group_start(l, m, Second) ELSE l
SummonGroup(l, m) ==
    IF l.rec[m].info[Primary].role = "leader" THEN GroupOf(l, m, Primary)
    ELSE GroupOf(l, m, Second)

-----------------------------------------------------------------------------
(* mon-make.c *)

Holes(l) == {i \in 1 .. l.max - 1 : l.slot[i] = Nobody}

\* MUTANT of mon_pop: the index after the last one is taken for free.
mon_popPast(l) == IF l.max <= LevelMax THEN l.max
                  ELSE IF Holes(l) # {} THEN Min(Holes(l)) ELSE 0

\* mon_pop(): a free index, or 0.
mon_pop(l) == IF l.max < LevelMax THEN l.max
              ELSE IF Holes(l) # {} THEN Min(Holes(l)) ELSE 0

\* place_monster() of a new monster.
place_monster(l, m, info) ==
    LET i == mon_pop(l)
        put == [l EXCEPT !.slot[i] = m, !.max = IF i = @ THEN @ + 1 ELSE @,
                         !.rec[m] = [midx |-> i, square |-> i, object |-> i,
                                     info |-> <<info, NoInfo>>]]
    IN  IF i = 0 THEN l ELSE monster_group_assign(put, m)

\* MUTANT of delete_monster_idx: the health bar is left on the index.
delete_monster_idxTracked(l, m) ==
    LET i == l.rec[m].midx
        gone == monster_remove_from_groups([l EXCEPT !.target = IF @ = i THEN 0 ELSE @], m)
    IN  [gone EXCEPT !.slot[i] = Nobody, !.rec[m] = NoRecord]

delete_monster_idx(l, m) ==
    LET i == l.rec[m].midx
        unseen == [l EXCEPT !.target = IF @ = i THEN 0 ELSE @,
                            !.health = IF @ = i THEN 0 ELSE @]
    IN  [monster_remove_from_groups(unseen, m) EXCEPT !.slot[i] = Nobody,
                                                      !.rec[m] = NoRecord]

\* MUTANT of monster_index_move: what the monster carries is forgotten.
monster_index_moveBare(l, i, j) ==
    LET m == l.slot[i]
    IN  IF i = j THEN l
        ELSE [monster_group_change_index(l, j, i) EXCEPT
                 !.rec[m].midx = j, !.rec[m].square = j, !.target = IF @ = i THEN 0 ELSE @,
                 !.health = IF @ = i THEN j ELSE @, !.slot[j] = m, !.slot[i] = Nobody]

\* monster_index_move() from i to j.  The target is set before the record is
\* copied, to what is in j so far: nothing, so that the target is lost.
monster_index_move(l, i, j) ==
    LET m == l.slot[i]
        moved == [l.rec[m] EXCEPT !.midx = j, !.square = j, !.object = j]
    IN  IF i = j THEN l
        ELSE [monster_group_change_index(l, j, i) EXCEPT
                 !.rec = [l.rec EXCEPT ![m] = moved],
                 !.target = IF l.target # i THEN l.target
                            ELSE IF l.slot[j] = Nobody THEN 0 ELSE j,
                 !.health = IF l.health = i THEN j ELSE l.health,
                 !.slot = [l.slot EXCEPT ![j] = m, ![i] = Nobody]]

\* The last monster is moved into hole i.
Excise(l, i) ==
    IF l.slot[i] # Nobody THEN l
    ELSE [monster_index_move(l, l.max - 1, i) EXCEPT !.max = @ - 1]

\* compact_monsters(), which deletes the monsters in dead and then closes the holes
\* from the last to the first.
DeleteAll(l, dead) ==
    LET after[k \in 0 .. Len(dead)] ==
            IF k = 0 THEN l ELSE delete_monster_idx(after[k - 1], dead[k])
    IN  after[Len(dead)]

\* MUTANT of ExciseAll: the first index is passed over.
ExciseAllButFirst(l) ==
    LET after[k \in 0 .. l.max - 1] == IF k = 0 THEN l ELSE Excise(after[k - 1], l.max - k)
    IN  after[IF l.max = 1 THEN 0 ELSE l.max - 2]

ExciseAll(l) ==
    LET after[k \in 0 .. l.max - 1] == IF k = 0 THEN l ELSE Excise(after[k - 1], l.max - k)
    IN  after[l.max - 1]
compact_monsters(l, dead) == ExciseAll(DeleteAll(l, dead))

-----------------------------------------------------------------------------
(* load.c: the groups as the records of the monsters say, in either place. *)

Enlist(groups, r, which) ==
    LET info == r.info[which]
    IN  IF info.index = 0 THEN groups
        ELSE [groups EXCEPT ![info.index] =
                 [leader |-> IF info.role = "leader" THEN r.midx ELSE @.leader,
                  members |-> <<r.midx>> \o @.members]]

monster_group_assign_loading(l) ==
    LET after[i \in 0 .. l.max - 1] ==
            IF i = 0 THEN [g \in GroupIndices |-> NoGroup]
            ELSE IF l.slot[i] = Nobody THEN after[i - 1]
            ELSE LET r == l.rec[l.slot[i]] IN Enlist(Enlist(after[i - 1], r, Primary), r, Second)
    IN  [l EXCEPT !.group = after[l.max - 1],
                  !.quit = @ \/ \E m \in Alive(l) : GroupOf(l, m, Primary) = 0]

-----------------------------------------------------------------------------
Init ==
    /\ level = EmptyLevel /\ duel = Nobody /\ bounds \in Bounds
    /\ watched = [target |-> Nobody, health |-> Nobody]

Fresh == bounds.monsters \ Alive(level)
Room(n) == cave_monster_count(level) + n <= bounds.alive

\* assert(index) has not failed: otherwise the game is over.
Playing == level.short = 0
OnLevel == Playing /\ duel = Nobody /\ UNCHANGED <<duel, bounds>>

\* place_new_monster(): m leads a group of its own, which the monsters of friends
\* join if there is room.
PlaceNew(m, friends) ==
    LET info(role) == [index |-> monster_group_index_new(level), role |-> role]
        after[k \in 0 .. Len(friends)] ==
            IF k = 0 THEN place_monster(level, m, info("leader"))
            ELSE place_monster(after[k - 1], friends[k], info("member"))
    IN  /\ OnLevel /\ Room(1 + Len(friends))
        /\ level' = after[IF mon_pop(level) = 0 THEN 0 ELSE Len(friends)]
        /\ UNCHANGED watched

\* summon_specific() of monster s: m joins the group of its summons.
Summon(s, m) ==
    LET l == summon_group(level, s)
    IN  /\ OnLevel /\ Room(1)
        /\ level' = place_monster(l, m, [index |-> SummonGroup(l, s), role |-> "summon"])
        /\ UNCHANGED watched

\* The group has been begun, and then place_new_monster() fails.
SummonFails(s) == OnLevel /\ level' = summon_group(level, s) /\ UNCHANGED watched

\* Whatever kills, banishes or polymorphs a monster.
Kill(m) == OnLevel /\ level' = delete_monster_idx(level, m) /\ UNCHANGED watched

\* The start of process_world().
process_world ==
    LET few == cave_monster_count(level) + Spare <= LevelMax
        Orders == UNION {Injection(1 .. n, Alive(level)) : n \in NumToCompact .. LevelMax}
    IN  /\ OnLevel
        /\ \E dead \in IF few THEN {<<>>} ELSE Orders :
              LET l == IF few THEN level ELSE compact_monsters(level, dead)
              IN  level' = IF cave_monster_count(l) + Spare < l.max
                           THEN compact_monsters(l, <<>>) ELSE l
        /\ UNCHANGED watched

\* wr_dungeon(): saving closes the holes of the level played on.
Save == OnLevel /\ level' = compact_monsters(level, <<>>) /\ UNCHANGED watched

\* The game is loaded from a savefile of this level, or of the arena with it.
Load ==
    /\ Playing
    /\ level' = [monster_group_assign_loading(compact_monsters(level, <<>>))
                    EXCEPT !.target = 0, !.health = 0]
    /\ UNCHANGED <<duel, watched, bounds>>

\* wipe_mon_list(): the player leaves the level for another.
wipe_mon_list == OnLevel /\ level' = EmptyLevel /\ UNCHANGED watched

\* target_set_monster() and health_track().
Target(m) ==
    /\ OnLevel /\ level' = [level EXCEPT !.target = level.rec[m].midx]
    /\ watched' = [watched EXCEPT !.target = m]
HealthTrack(m) ==
    /\ OnLevel /\ level' = [level EXCEPT !.health = level.rec[m].midx]
    /\ watched' = [watched EXCEPT !.health = m]

\* The monster at old becomes the first, and the first goes where it was.
Swap(l, old) ==
    IF old = 1 THEN l
    ELSE IF l.slot[1] = Nobody THEN monster_index_move(l, old, 1)
    ELSE monster_index_move(monster_index_move(monster_index_move(l, old, l.max), 1, old),
                            l.max, 1)

\* effect_handler_SINGLE_COMBAT() and, with no step of the level in between, the
\* storing of the level in prepare_next_level().  The target may be out of sight.
\* level.max < LevelMax is a bound: beyond it the code writes past the array.
SingleCombat ==
    /\ Playing /\ duel = Nobody /\ level.target # 0 /\ level.max < LevelMax
    /\ \E t \in {0, 1} :
          level' = compact_monsters([Swap(level, level.target) EXCEPT !.target = t,
                                                                     !.health = Arena], <<>>)
    /\ duel' = level.slot[level.target]
    /\ watched' = [watched EXCEPT !.target = duel'] /\ UNCHANGED bounds

\* kill_arena_monster(), back on the level: the first monster dies.
kill_arena_monster ==
    /\ Playing /\ duel # Nobody
    /\ level' = delete_monster_idx([level EXCEPT !.health = Arena], level.slot[1])
    /\ duel' = Nobody /\ UNCHANGED <<watched, bounds>>

Next ==
    \/ \E m \in Fresh : \E friends \in {<<>>} \cup {<<f>> : f \in (Fresh \ {m}) \ Uniques} :
          PlaceNew(m, friends)
    \/ \E s \in Alive(level) \cap bounds.summoners :
          SummonFails(s) \/ \E m \in Fresh : Summon(s, m)
    \/ \E m \in Alive(level) : Kill(m)
    \/ \E m \in Alive(level) \cap bounds.looked : Target(m) \/ HealthTrack(m)
    \/ process_world \/ Save \/ Load \/ wipe_mon_list
    \/ SingleCombat \/ kill_arena_monster

Spec == Init /\ [][Next]_vars

-----------------------------------------------------------------------------
(* Properties *)

\* A monster's record, its square and its objects agree with its place in the list,
\* every live monster is below cave_monster_max() and only those have records,
\* whatever delete_monster_idx(), monster_index_move() and single combat's swap did.
IndicesAgree ==
    /\ \A i \in Indices : level.slot[i] # Nobody =>
          /\ i < level.max
          /\ LET r == level.rec[level.slot[i]] IN {r.midx, r.square, r.object} = {i}
    /\ \A m \in Monsters \ Alive(level) : level.rec[m] = NoRecord

\* The target and the health bar (delete_monster_idx(), monster_index_move()) are
\* unset or still the monster the player chose, never the next one to get its index,
\* and the arena's monster is the first of the level that will be found again
\* (effect_handler_SINGLE_COMBAT(), kill_arena_monster()).
TrackingFollows ==
    /\ level.target = 0 \/ level.slot[level.target] = watched.target
    /\ level.health <= 0 \/ level.slot[level.health] = watched.health
    /\ duel # Nobody => level.slot[1] = duel

\* Those that the records of the monsters put in a group, and those they let lead it.
Listed(l, g) ==
    {i \in Indices : l.slot[i] # Nobody /\ \E w \in {Primary, Second} :
                         GroupOf(l, l.slot[i], w) = g}
Leads(l, g) ==
    {i \in Indices : l.slot[i] # Nobody /\ \E w \in {Primary, Second} :
                         l.rec[l.slot[i]].info[w] = [index |-> g, role |-> "leader"]}

\* As long as there are numbers for them, the groups are those that the records of the
\* monsters say, which is what loading makes of them: the same members, each group led
\* by its one leader, none of them dead; and no other check of mon-group.c ends the
\* game.  The numbers, of which there are LevelMax - 1, do not run out before more than
\* half as many monsters live: "very unlikely" (monster_group_index_new()).
GroupsSurvive ==
    /\ level.short = 0 =>
          /\ ~level.quit
          /\ \A g \in GroupIndices :
                LET group == level.group[g]
                IN  /\ ToSet(group.members) = Listed(level, g)
                    /\ Leads(level, g) = IF group = NoGroup THEN {} ELSE {group.leader}
    /\ level.short # 0 => 2 * level.short >= LevelMax

\* A level that is saved, or stored while the player is in the arena, has a monster at
\* every index below cave_monster_max(): wr_monsters_aux() writes the race of each, and
\* rd_monsters_aux() refuses a file whose monsters do not get the indices they had.
SavedWithoutHoles ==
    [][Save \/ SingleCombat =>
          \A i \in 1 .. level'.max - 1 : level'.slot[i] # Nobody]_vars
=============================================================================
