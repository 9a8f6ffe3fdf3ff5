-------------------------------- MODULE Card --------------------------------
(***************************************************************************)
(* The SD card as the game's file layer (src/src/game/z-file.c) sees it: a *)
(* function from file names to contents.  The operators below say what one *)
(* successful call of remove(), rename() and open() does to the card; the  *)
(* modules that use them decide which calls are made, in which order, and  *)
(* which of them fail.                                                     *)
(*                                                                         *)
(* A file is absent, partial (being written, or cut off by a power loss or *)
(* an I/O error before fclose() has flushed it), or whole.  A whole file   *)
(* carries the content that was written; the other two carry NoContent.    *)
(***************************************************************************)
CONSTANTS NoContent   \* the content of a file that is absent or partial

Absent == [st |-> "absent", data |-> NoContent]

Partial == [st |-> "partial", data |-> NoContent]

Whole(content) == [st |-> "whole", data |-> content]

\* Every state a file can be in when its contents come from the set Contents.
WholeFiles(Contents) == [st : {"whole"}, data : Contents]
Files(Contents) == {Absent, Partial} \cup WholeFiles(Contents)

\* file_exists(): stat() finds the name, whatever the file holds.
Exists(card, name) == card[name].st # "absent"

\* remove(), when it succeeds or when there was nothing to remove.
Removed(card, name) == [card EXCEPT ![name] = Absent]

\* FatFs f_rename() refuses a target name that is taken (FR_EXIST) and a
\* source that is missing; file_move() removes the target first for that reason.
CanRename(card, from, to) == Exists(card, from) /\ ~Exists(card, to)

Renamed(card, from, to) ==
    [card EXCEPT ![to] = card[from], ![from] = Absent]

\* open(O_CREAT | O_TRUNC): the name exists from now on, with nothing in it
\* that a reader could use until it has been written and closed.
Created(card, name) == [card EXCEPT ![name] = Partial]

\* fclose() has flushed everything that was written.
Closed(card, name, content) == [card EXCEPT ![name] = Whole(content)]

\* The names of the files on the card.
Present(card) == {name \in DOMAIN card : Exists(card, name)}
=============================================================================
