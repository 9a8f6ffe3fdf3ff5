-------------------------------- MODULE TrapsMC --------------------------------
(***************************************************************************)
(* Traps for TLC.  Grids are interchangeable: no action orders them, and   *)
(* NoGrid is not one of them.  Two things do not matter to what happens    *)
(* next, nor to an invariant: how a removal that did end has ended, and    *)
(* what the player remembers of a grid out of view.  The memory is asked   *)
(* for only by Disarm, which then sets it right and changes nothing else,  *)
(* and it is made anew when the grid comes into view.                      *)
(***************************************************************************)
EXTENDS Traps, TLC

Symmetry == Permutations(Grids)
View == <<traps, [g \in seen |-> known[g]], decoy, timed_traps, removal = "endless">>
=============================================================================
