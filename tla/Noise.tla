-------------------------------- MODULE Noise --------------------------------
(***************************************************************************)
(* The noise by which monsters track the player: make_noise() and          *)
(* forget_noise() (game-world.c), the queue the flood works with           *)
(* (z-queue.c), and the four places that decide what it is made from:      *)
(* process_world() at the player's grid, a new level with no noise at all, *)
(* save.c which keeps the source and the falloff but not the noise, and    *)
(* start_game() which recomputes it from them.                             *)
(*                                                                         *)
(* A level is the set of its grids that carry sound; everything else is    *)
(* rock (square_isnoflow()), the level's outer wall included.              *)
(***************************************************************************)
EXTENDS Integers, Sequences, SequencesExt, FiniteSetsExt

CONSTANTS Height, Width,   \* of the level's interior
          MaxHearing,      \* z_info->max_hearing
          NoGrid           \* noise_grid when no noise has been made: (0, 0)

ASSUME SizeAssumption ==
    Height \in Nat \ {0} /\ Width \in Nat \ {0} /\ MaxHearing \in Nat \ {0}

Grids == (1 .. Height) \X (1 .. Width)

ASSUME NoGridAssumption == NoGrid \notin Grids

VARIABLES floor,         \* the grids of the level that carry sound
          player,        \* p->grid
          covertracks,   \* p->timed[TMD_COVERTRACKS] > 0
          noise,         \* cave->noise.grids
          noise_grid,    \* p->noise_grid: where the noise was made
          noise_falloff, \* p->noise_falloff
          pushes         \* how often the last flood called q_push_int()

vars == <<floor, player, covertracks, noise, noise_grid, noise_falloff, pushes>>

\* ddgrid_ddd: the eight grids around, in the order the flood looks at them.
ddgrid_ddd == <<<<1, 0>>, <<-1, 0>>, <<0, 1>>, <<0, -1>>,
                <<1, 1>>, <<1, -1>>, <<-1, 1>>, <<-1, -1>>>>
Beside(g, d) == <<g[1] + ddgrid_ddd[d][1], g[2] + ddgrid_ddd[d][2]>>
Around(g) == {Beside(g, d) : d \in 1 .. 8}

Silence == [g \in Grids |-> 0]   \* forget_noise()

TypeOK ==
    /\ floor \subseteq Grids /\ player \in floor
    /\ covertracks \in BOOLEAN
    /\ noise \in [Grids -> 0 .. MaxHearing]
    /\ noise_grid \in Grids \cup {NoGrid}
    /\ noise_falloff \in {0, 1, 4}
    /\ pushes \in 0 .. Height * Width + 1

-----------------------------------------------------------------------------
(* make_noise().  A flood is the noise so far, the queue, and the pushes.  *)

\* MUTANT of Listen: "Skip the player grid" is missing.
ListenPlayerToo(f, k, n) ==
    IF k \in floor /\ f.noise[k] = 0
    THEN [noise |-> [f.noise EXCEPT ![k] = n], queue |-> Append(f.queue, k),
          pushes |-> f.pushes + 1]
    ELSE f

\* The grid k gets the noise n, unless it has some, and is to pass it on.  A noise of 0
\* means "none" as well as "the source", and the grid the player is on now is skipped,
\* wherever the source is.
Listen(f, k, n) ==
    IF k \in floor /\ k # player /\ f.noise[k] = 0
    THEN [noise |-> [f.noise EXCEPT ![k] = n], queue |-> Append(f.queue, k),
          pushes |-> f.pushes + 1]
    ELSE f

\* The loop over the grids around g.
Spread(f, g, n) ==
    LET after[d \in 0 .. 8] ==
            IF d = 0 THEN f ELSE Listen(after[d - 1], Beside(g, d), n)
    IN  after[8]

\* MUTANTS of Pop: noise is passed on beyond hearing; the queue is served from the
\* wrong end.
PopUnlimited(f, inc) ==
    Spread([f EXCEPT !.queue = Tail(@)], Head(f.queue), f.noise[Head(f.queue)] + inc)

PopLast(f, inc) ==
    LET g == Last(f.queue)
        n == f.noise[g] + inc
        rest == [f EXCEPT !.queue = Front(@)]
    IN  IF n < MaxHearing THEN Spread(rest, g, n) ELSE rest

\* One round of the flood: the grid at the head of the queue passes its noise
\* to the grids around it that have none.
Pop(f, inc) ==
    LET g == Head(f.queue)
        n == f.noise[g] + inc
        rest == [f EXCEPT !.queue = Tail(@)]
    IN  IF n < MaxHearing THEN Spread(rest, g, n) ELSE rest

\* The flood after at most so many rounds; it ends when the queue is empty.
MaxRounds == Height * Width + 2
Quiet(source) == [noise |-> Silence, queue |-> <<source>>, pushes |-> 1]
Flood(source, inc) ==
    LET after[r \in 0 .. MaxRounds] ==
            IF r = 0 THEN Quiet(source)
            ELSE LET f == after[r - 1]
                 IN  IF f.queue = <<>> THEN f ELSE Pop(f, inc)
    IN  after[MaxRounds]

make_noise(source, inc) ==
    /\ noise_grid' = source
    /\ noise_falloff' = inc
    /\ LET flood == Flood(source, inc)
       IN  noise' = flood.noise /\ pushes' = flood.pushes

-----------------------------------------------------------------------------
\* A level has just been made: cave_new() zeroes the noise, and generate.c
\* clears noise_grid so that nothing is recomputed for it.
Init ==
    /\ floor \in SUBSET Grids /\ player \in floor
    /\ covertracks = FALSE
    /\ noise = Silence /\ noise_grid = NoGrid /\ noise_falloff = 0
    /\ pushes = 0

\* A step of the player.  One faster than normal takes several between two
\* turns of the world.
Move ==
    /\ player' \in Around(player) \cap floor
    /\ UNCHANGED <<floor, covertracks, noise, noise_grid, noise_falloff, pushes>>

CoverTracks ==
    /\ covertracks' = ~covertracks
    /\ UNCHANGED <<floor, player, noise, noise_grid, noise_falloff, pushes>>

\* process_world(), when the player is not resting.
World ==
    /\ make_noise(player, IF covertracks THEN 4 ELSE 1)
    /\ UNCHANGED <<floor, player, covertracks>>

\* MUTANT of Reload: the falloff is the player's, not the one that was saved.
ReloadAfresh ==
    /\ IF noise_grid = NoGrid
       THEN noise' = Silence /\ pushes' = 0 /\ UNCHANGED <<noise_grid, noise_falloff>>
       ELSE make_noise(noise_grid, IF covertracks THEN 4 ELSE 1)
    /\ UNCHANGED <<floor, player, covertracks>>

\* The game is saved and loaded again.  The noise itself is not in the savefile.
Reload ==
    /\ IF noise_grid = NoGrid
       THEN noise' = Silence /\ pushes' = 0 /\ UNCHANGED <<noise_grid, noise_falloff>>
       ELSE make_noise(noise_grid, noise_falloff)
    /\ UNCHANGED <<floor, player, covertracks>>

NewLevel ==
    /\ noise' = Silence /\ noise_grid' = NoGrid /\ noise_falloff' = 0 /\ pushes' = 0
    /\ player' \in floor
    /\ UNCHANGED <<floor, covertracks>>

Next == Move \/ CoverTracks \/ World \/ Reload \/ NewLevel

Spec == Init /\ [][Next]_vars

-----------------------------------------------------------------------------
(* What the noise is meant to be *)

\* What can be heard next to g, when noise m has been made at source.
HeardNextTo(m, source, g) ==
    {m[k] : k \in {j \in Around(g) \cap floor : m[j] > 0 \/ j = source}}

\* m is inc times the length of the shortest way to source, out to the range of
\* hearing: at every other grid one step more than at the loudest grid next to
\* it.  So a monster that hears the player comes nearer whenever it follows.
ShortestWays(m, source, inc) ==
    /\ m[source] = 0
    /\ \A g \in Grids \ {source} :
          LET heard == IF g \in floor THEN HeardNextTo(m, source, g) ELSE {}
          IN  m[g] = IF heard # {} /\ Min(heard) + inc < MaxHearing
                     THEN Min(heard) + inc ELSE 0

\* A turn of the world leaves the noise at exactly those distances from where
\* the player is, whatever the level looks like.
WorldMakesDistances ==
    [][World => ShortestWays(noise', player, noise_falloff')]_vars

\* No flood pushes more than the queue has room for, so the queue that is kept
\* between calls never wraps round, not even when the flood starts elsewhere
\* than at the player.
QueueNeverWraps == pushes <= Height * Width

\* Loading a game resets the noise "to what it was when the game was saved"
\* (ui-game.c:766), if the player stands where it was made: then it is made of the
\* same distances again, with the falloff there was.  Elsewhere it need not be: the
\* flood leaves out the grid he stands on, which is not its source.
ReloadRestoresNoise ==
    [][Reload /\ noise_grid = player => ShortestWays(noise', player, noise_falloff)]_vars
=============================================================================
