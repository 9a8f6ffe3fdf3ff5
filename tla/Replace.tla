------------------------------- MODULE Replace -------------------------------
(***************************************************************************)
(* What a file that is rewritten by "write a new one, then move the files  *)
(* about" promises to whoever reads it by name.  savefile_save() and       *)
(* highscore_write() both follow the protocol; SaveFile.tla and            *)
(* ScoreFile.tla are shown to implement this module.                       *)
(*                                                                         *)
(* The promise, in three parts.  A reader never finds a partial file.  The *)
(* name is emptied only while a complete replacement lies on the card.     *)
(* What appears under the name is that replacement or something the name   *)
(* held before.  What is NOT promised is that a reader always finds a      *)
(* file: between Vacate and Install the name is empty.                     *)
(***************************************************************************)
EXTENDS Card

CONSTANT Content     \* what a complete file may hold

VARIABLES slot,    \* the file under the name readers use
          staged,  \* the replacement, once it is complete; otherwise absent
          kept     \* former contents that are still on the card

vars == <<slot, staged, kept>>

TypeOK ==
    /\ slot \in Files(Content)
    /\ staged \in Files(Content)
    /\ kept \subseteq Content

Init ==
    /\ slot \in {Absent} \cup WholeFiles(Content)
    /\ staged = Absent
    /\ kept = {}

\* Former copies may be deleted at any time.
Forgetting == kept' \subseteq kept

Stage ==
    /\ staged = Absent
    /\ staged' \in WholeFiles(Content)
    /\ Forgetting
    /\ UNCHANGED slot

Abandon ==
    /\ staged' = Absent
    /\ Forgetting
    /\ UNCHANGED slot

Vacate ==
    /\ staged.st = "whole"
    /\ slot.st = "whole"
    /\ slot' = Absent
    /\ kept' \subseteq kept \cup {slot.data}
    /\ UNCHANGED staged

Install ==
    /\ slot = Absent
    /\ staged.st = "whole"
    /\ slot' = staged
    /\ staged' = Absent
    /\ Forgetting

PutBack ==
    /\ slot = Absent
    /\ staged.st = "whole"
    /\ \E c \in kept : slot' = Whole(c)
    /\ staged' = Absent
    /\ Forgetting

Forget == Forgetting /\ UNCHANGED <<slot, staged>>

Next == Stage \/ Abandon \/ Vacate \/ Install \/ PutBack \/ Forget

Spec == Init /\ [][Next]_vars
=============================================================================
