---------------------------- MODULE MonsterListMC ----------------------------
(***************************************************************************)
(* MonsterList for TLC: orcs, which can be exchanged among themselves,     *)
(* a troll and a unique.                                                   *)
(***************************************************************************)
EXTENDS MonsterList, TLC

CONSTANTS Orcs, Trolls

MCMonsters == Orcs \cup Trolls \cup Uniques
MCRace == [m \in MCMonsters |-> IF m \in Orcs THEN "orc" ELSE IF m \in Trolls THEN "troll"
                                ELSE "unique"]

\* All of them with few alive; a full list; and few alive that are looked at.
MCBounds ==
    {[monsters |-> MCMonsters, alive |-> 3, summoners |-> MCMonsters, looked |-> {}],
     [monsters |-> MCMonsters, alive |-> 5, summoners |-> {}, looked |-> {}],
     [monsters |-> MCMonsters, alive |-> 3, summoners |-> Trolls, looked |-> Orcs]}

\* The numbers of the groups tell nothing apart, but for how many are taken, as the
\* least is taken first; nor does the history of a reference that is unset.
GroupSeen(info) == <<info.role, IF info.index = 0 THEN NoGroup ELSE level.group[info.index]>>
View == <<bounds, level.slot, level.max, level.quit, level.short, duel,
          [m \in Monsters |->
              LET r == level.rec[m]
              IN  <<r.midx, r.square, r.object, GroupSeen(r.info[1]), GroupSeen(r.info[2])>>],
          Cardinality({g \in GroupIndices : level.group[g] # NoGroup}),
          level.target, IF level.target = 0 THEN Nobody ELSE watched.target,
          level.health, IF level.health <= 0 THEN Nobody ELSE watched.health>>

Symmetry == Permutations(Orcs)
=============================================================================
