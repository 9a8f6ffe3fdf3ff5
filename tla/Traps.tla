-------------------------------- MODULE Traps --------------------------------
(***************************************************************************)
(* The traps of a level: the list of traps of each grid (trap.c), what the *)
(* player remembers of them (player->cave), the grid of the decoy          *)
(* (chunk->decoy), the timers of disabled traps, and the bound that lets   *)
(* process_world() skip its sweep over those timers (game-world.c).        *)
(*                                                                         *)
(* Where the player stands is left out: whatever needs the player on a     *)
(* grid may happen on any grid.                                            *)
(***************************************************************************)
EXTENDS Integers, Sequences, FiniteSets, SequencesExt

CONSTANTS Grids,
          NoGrid,      \* chunk->decoy when there is no decoy: (0, 0)
          DisableTime, \* the 10 turns of square_disable_trap()
          MaxLayers,   \* bound: traps in one grid
          MaxTimed     \* bound: timed_traps

ASSUME ConstantsAssumption ==
    /\ IsFiniteSet(Grids) /\ Grids # {} /\ NoGrid \notin Grids
    /\ DisableTime \in Nat \ {0} /\ MaxLayers \in Nat \ {0}
    /\ MaxTimed \in Nat /\ MaxTimed >= MaxLayers * Cardinality(Grids)

VARIABLES traps,       \* cave->squares[g].trap: the list of each grid; the marker
                       \* SQUARE_TRAP is set just when it is not empty
          known,       \* player->cave->squares[g].trap
          seen,        \* the grids with square_isseen()
          decoy,       \* cave->decoy
          timed_traps, \* cave->timed_traps
          removal      \* how the last call of square_remove_trap() ended

vars == <<traps, known, seen, decoy, timed_traps, removal>>

\* "player" traps have TRF_TRAP and go off; the others are laid over the grid.
Kinds == {"player", "glyph", "decoy", "web"}
Trap == [kind : Kinds, timeout : 0 .. DisableTime, visible : BOOLEAN]

New(kind) == [kind |-> kind, timeout |-> 0, visible |-> kind # "player"]

TypeOK ==
    /\ \A g \in Grids : \A t \in ToSet(traps[g]) \cup ToSet(known[g]) : t \in Trap
    /\ DOMAIN traps = Grids /\ DOMAIN known = Grids
    /\ seen \subseteq Grids
    /\ decoy \in Grids \cup {NoGrid}
    /\ timed_traps \in 0 .. MaxTimed
    /\ removal \in {"removed", "missed", "endless"}

-----------------------------------------------------------------------------
(* Questions about a list of traps *)

Has(list, kind) == \E t \in ToSet(list) : t.kind = kind
Visible(list) == \E t \in ToSet(list) : t.visible       \* square_isvisibletrap()
Disabled(list) == Visible(list) /\ \E t \in ToSet(list) : t.timeout > 0
Disarmable(list) == Visible(list) /\ Has(list, "player") /\ ~Disabled(list)
Secret(list) == Has(list, "player") /\ ~Visible(list)   \* square_issecrettrap()

\* What square_memorize_traps() copies.  Its test is of the grid, not of the
\* trap: all traps of the grid are copied if one of them is visible.
Remembered(list) == IF Visible(list) THEN list ELSE <<>>

\* The lists that square_reveal_trap() may leave: the player notices a hidden
\* trap or does not.
Revealed(list) ==
    {list, [i \in DOMAIN list |->
              IF list[i].kind = "player" THEN [list[i] EXCEPT !.visible = TRUE] ELSE list[i]]}

SetTraps(g, list) == traps' = [traps EXCEPT ![g] = list]
Memorize(g, list) == known' = [known EXCEPT ![g] = Remembered(list)]
MemorizeIf(cond, g, list) == IF cond THEN Memorize(g, list) ELSE UNCHANGED known

-----------------------------------------------------------------------------
(* Placing traps *)

\* square_note_spot() of the grid g, which has list now: it does nothing where
\* the player neither sees nor stands, else hidden traps may be noticed and the
\* traps are memorized.
NoteSpot(g, list, stands) ==
    IF g \in seen \/ stands
    THEN \E after \in (IF Secret(list) THEN Revealed(list) ELSE {list}) :
            SetTraps(g, after) /\ Memorize(g, after)
    ELSE SetTraps(g, list) /\ UNCHANGED known

\* MUTANT of MakeTrap: a trap may be laid where there is one already.
MakeTrapAnywhere(g) ==
    /\ Len(traps[g]) < MaxLayers
    /\ NoteSpot(g, <<New("player")>> \o traps[g], FALSE)
    /\ UNCHANGED <<seen, decoy, timed_traps, removal>>

\* A trap is created: on a grid with none, where the player is not.  Whoever
\* creates it tries to notice it, in view or not; noticing memorizes.
MakeTrap(g) ==
    /\ traps[g] = <<>>
    /\ \E list \in Revealed(<<New("player")>>) :
          /\ SetTraps(g, list)
          /\ MemorizeIf(g \in seen \/ Visible(list), g, list)
    /\ UNCHANGED <<seen, decoy, timed_traps, removal>>

\* A monster spins a web, where there is nothing else.
AddWeb(g) ==
    /\ traps[g] = <<>>
    /\ \E stands \in BOOLEAN : NoteSpot(g, <<New("web")>>, stands)
    /\ UNCHANGED <<seen, decoy, timed_traps, removal>>

\* MUTANT of Glyph: "Only one decoy at a time" is not asked.
GlyphUnasked(g, type) ==
    /\ decoy' = IF type = "decoy" THEN g ELSE decoy
    /\ Len(traps[g]) < MaxLayers
    /\ NoteSpot(g, <<New(type)>> \o traps[g], TRUE)
    /\ UNCHANGED <<seen, timed_traps, removal>>

\* The player lays a glyph or a decoy under himself, over the traps there are.
\* Objects of the grid are pushed off first, which takes its traps with them.
Glyph(g, type) ==
    /\ type = "decoy" => decoy = NoGrid
    /\ decoy' = IF type = "decoy" THEN g ELSE decoy
    /\ \E under \in {traps[g], <<>>} :
          /\ Len(under) < MaxLayers
          /\ NoteSpot(g, <<New(type)>> \o under, TRUE)
    /\ UNCHANGED <<seen, timed_traps, removal>>

-----------------------------------------------------------------------------
(* Removing traps *)

\* square_remove_trap() of the i-th trap of a list.  Its loop compares a cursor
\* with the trap but steps to the successor of the trap: after the first round
\* the cursor runs along the list behind the trap, and since that step always
\* starts from the trap it stays on the same successor.
RemoveTrap(list, i) ==
    IF i = 1 THEN [list |-> Tail(list), how |-> "removed"]
    ELSE [list |-> list, how |-> IF i = Len(list) THEN "missed" ELSE "endless"]

Without(list, kind) ==
    LET kept[n \in 0 .. Len(list)] ==
            IF n = 0 THEN <<>>
            ELSE IF list[n].kind = kind THEN kept[n - 1] ELSE Append(kept[n - 1], list[n])
    IN  kept[Len(list)]

\* square_remove_all_traps_of_type(): a web is cleared or burnt, a glyph broken.
RemoveKind(g, kind) ==
    /\ Has(traps[g], kind)
    /\ SetTraps(g, Without(traps[g], kind))
    /\ MemorizeIf(g \in seen, g, Without(traps[g], kind))
    /\ UNCHANGED <<seen, decoy, timed_traps, removal>>

\* A monster tramples the decoy, a spell hits it, or the player goes too far.
\* It is looked for where chunk->decoy says, there or not.
DestroyDecoy ==
    /\ decoy # NoGrid
    /\ decoy' = NoGrid
    /\ SetTraps(decoy, Without(traps[decoy], "decoy"))
    /\ MemorizeIf(Has(traps[decoy], "decoy") /\ decoy \in seen,
                  decoy, Without(traps[decoy], "decoy"))
    /\ UNCHANGED <<seen, timed_traps, removal>>

\* square_set_feat() on a level in play: an earthquake, a new door, lava.  A
\* grid with a trap is one where no player trap is allowed, so its traps go.
SetFeat(g) ==
    /\ SetTraps(g, <<>>)
    /\ \E stands \in BOOLEAN : MemorizeIf(g \in seen \/ stands, g, <<>>)
    /\ UNCHANGED <<seen, decoy, timed_traps, removal>>

\* hit_trap(): the player enters or leaves the grid, or set off a trap while
\* disarming.  A trap that is disabled, or waits for the other occasion, does
\* nothing; a player it cannot harm sees it; one that goes off is seen or gone,
\* or what it does takes all traps of the grid with it.  The grid is memorized
\* in any case.
HitTrap(g) ==
    LET armed == {i \in DOMAIN traps[g] : traps[g][i].kind = "player" /\ traps[g][i].timeout = 0}
    IN  \/ Memorize(g, traps[g]) /\ UNCHANGED <<traps, removal>>
        \/ armed # {} /\ SetTraps(g, <<>>) /\ Memorize(g, <<>>) /\ UNCHANGED removal
        \/ \E i \in armed :
              LET r == RemoveTrap(traps[g], i)
                  shown == [traps[g] EXCEPT ![i].visible = TRUE]
              IN  \/ SetTraps(g, r.list) /\ Memorize(g, r.list) /\ removal' = r.how
                  \/ SetTraps(g, shown) /\ Memorize(g, shown) /\ UNCHANGED removal

Hit(g) == HitTrap(g) /\ UNCHANGED <<seen, decoy, timed_traps>>

\* do_cmd_disarm(): the first player trap goes, or is set off, or nothing
\* happens.  Where only the player's memory has a trap it is put right.
Disarm(g) ==
    /\ IF Disarmable(traps[g])
       THEN LET r == RemoveTrap(traps[g], SelectInSeq(traps[g], LAMBDA t : t.kind = "player"))
            IN  \/ /\ SetTraps(g, r.list) /\ removal' = r.how
                   /\ MemorizeIf(r.how = "removed" /\ g \in seen, g, r.list)
                \/ HitTrap(g)
       ELSE /\ Disarmable(known[g])
            /\ Memorize(g, traps[g]) /\ UNCHANGED <<traps, removal>>
    /\ UNCHANGED <<seen, decoy, timed_traps>>

-----------------------------------------------------------------------------
(* Timers *)

\* MUTANT of Disable: the bound of the chunk is not raised.
DisableUncounted(g) ==
    /\ Disarmable(traps[g])
    /\ LET list == [i \in DOMAIN traps[g] |-> [traps[g][i] EXCEPT !.timeout = DisableTime]]
       IN  SetTraps(g, list) /\ MemorizeIf(g \in seen, g, list)
    /\ UNCHANGED <<seen, decoy, timed_traps, removal>>

\* square_disable_trap(): every trap of the grid gets the timer.
Disable(g) ==
    /\ Disarmable(traps[g])
    /\ timed_traps + Len(traps[g]) <= MaxTimed
    /\ LET list == [i \in DOMAIN traps[g] |-> [traps[g][i] EXCEPT !.timeout = DisableTime]]
       IN  SetTraps(g, list) /\ MemorizeIf(g \in seen, g, list)
    /\ timed_traps' = timed_traps + Len(traps[g])
    /\ UNCHANGED <<seen, decoy, removal>>

\* MUTANT of Ticked: timers of 0 count down as well.
TickedAll(list) == [i \in DOMAIN list |-> [list[i] EXCEPT !.timeout = @ - 1]]

Ticked(list) ==
    [i \in DOMAIN list |->
       IF list[i].timeout > 0 THEN [list[i] EXCEPT !.timeout = @ - 1] ELSE list[i]]
TimedIn(lists) ==
    Cardinality({p \in Grids \X (1 .. MaxLayers) :
                   p[2] \in DOMAIN lists[p[1]] /\ lists[p[1]][p[2]].timeout > 0})
Expires(list) == \E t \in ToSet(list) : t.timeout = 1

\* MUTANT of Sweep: no grid in view is memorized.
SweepUnseen ==
    /\ timed_traps > 0
    /\ traps' = [g \in Grids |-> Ticked(traps[g])]
    /\ timed_traps' = TimedIn(traps')
    /\ UNCHANGED <<known, seen, decoy, removal>>

\* The trap sweep of process_world(), and the recount of its bound.
Sweep ==
    /\ timed_traps > 0
    /\ traps' = [g \in Grids |-> Ticked(traps[g])]
    /\ known' = [g \in Grids |-> IF Expires(traps[g]) /\ g \in seen
                                 THEN Remembered(traps'[g]) ELSE known[g]]
    /\ timed_traps' = TimedIn(traps')
    /\ UNCHANGED <<seen, decoy, removal>>

-----------------------------------------------------------------------------
(* Seeing, saving *)

\* update_one() of a grid in view: hidden traps may be noticed, which memorizes;
\* a grid that was not in view before is noted.
Look(g) ==
    /\ \E list \in IF Has(traps[g], "player") THEN Revealed(traps[g]) ELSE {traps[g]} :
          /\ SetTraps(g, list)
          /\ MemorizeIf(g \notin seen \/ list # traps[g], g, list)
    /\ seen' = seen \cup {g}
    /\ UNCHANGED <<decoy, timed_traps, removal>>

LookAway(g) ==
    /\ seen' = seen \ {g}
    /\ UNCHANGED <<traps, known, decoy, timed_traps, removal>>

\* The level is saved and loaded into a chunk of cave_new().  Lists are written
\* from the head and read by putting each trap at the head.  The level is the one the
\* player is on: one that is stored under an arena gets its traps from rd_chunks(), and
\* not its decoy, as c == cave is false in rd_traps_aux() (load.c:1501).
Reload ==
    /\ traps' = [g \in Grids |-> Reverse(traps[g])]
    /\ known' = [g \in Grids |-> Reverse(known[g])]
    /\ decoy' \in LET at == {g \in Grids : Has(traps[g], "decoy")}
                  IN  IF at = {} THEN {NoGrid} ELSE at
    /\ timed_traps' = 1
    /\ UNCHANGED <<seen, removal>>

-----------------------------------------------------------------------------
\* A new level, before any trap matters.
Init ==
    /\ traps = [g \in Grids |-> <<>>] /\ known = traps
    /\ seen \in SUBSET Grids
    /\ decoy = NoGrid
    /\ timed_traps = 1
    /\ removal = "removed"

\* A call that does not end is the end of the game.
Next ==
    /\ removal # "endless"
    /\ \/ \E g \in Grids :
             \/ MakeTrap(g) \/ AddWeb(g) \/ Glyph(g, "glyph") \/ Glyph(g, "decoy")
             \/ RemoveKind(g, "glyph") \/ RemoveKind(g, "web")
             \/ SetFeat(g) \/ Hit(g) \/ Disarm(g) \/ Disable(g) \/ Look(g) \/ LookAway(g)
       \/ DestroyDecoy \/ Sweep \/ Reload

Spec == Init /\ [][Next]_vars

-----------------------------------------------------------------------------
(* Properties *)

\* A grid never has two traps that go off.  hit_trap() holds the next trap of the
\* list while a trap does its work, which may run hit_trap() on the same list
\* (teleportation leaves the grid): with two, the one it holds could be freed.
OnePlayerTrap ==
    \A g \in Grids : Cardinality({i \in DOMAIN traps[g] : traps[g][i].kind = "player"}) <= 1

\* There is at most one decoy on the level and chunk->decoy says where.
OneDecoyTracked ==
    \A g \in Grids :
        LET decoys == {i \in DOMAIN traps[g] : traps[g][i].kind = "decoy"}
        IN  decoys # {} => decoy = g /\ Cardinality(decoys) = 1

\* The sweep is never skipped while a trap is disabled, whatever was removed,
\* added, saved and loaded since the bound was last counted.
NoTimerSkipped ==
    (\E g \in Grids : \E t \in ToSet(traps[g]) : t.timeout > 0) => timed_traps > 0

\* Of a grid in view the player knows the traps as they are: which there are, in
\* which order, which of them are disabled.
Shown(list) == [i \in DOMAIN list |-> [kind |-> list[i].kind, visible |-> list[i].visible,
                                       disabled |-> list[i].timeout > 0]]
KnownInView == \A g \in seen : Shown(known[g]) = Shown(Remembered(traps[g]))

\* trap.c:133: the trap is removed or square_remove_trap() returns false.
RemovalEnds == removal # "endless"
=============================================================================
