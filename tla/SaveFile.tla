------------------------------- MODULE SaveFile -------------------------------
(***************************************************************************)
(* Saving, loading and losing power: savefile_save() (savefile.c), the     *)
(* file_*() calls it is made of (z-file.c), and the code around it that    *)
(* decides when to save and what to do at the next start (start_game(),    *)
(* save_game_checked(), close_game() and play_game() in ui-game.c).        *)
(*                                                                         *)
(* The program is sequential, so what interleaves with it is the card and  *)
(* the power switch: every call that touches the card is a step of its     *)
(* own, any of them may fail, and the power may go between any two.        *)
(*                                                                         *)
(* A game is [ver, life]: ver counts the changes of the game since the     *)
(* model began, so that a larger ver is a more recent game.                *)
(***************************************************************************)
EXTENDS Integers, FiniteSets, Card

CONSTANTS Tags,       \* the random parts of "<save><random>.new" and ".old"
          NoTag,
          MaxClock,   \* bound: ver of the last game that playing leads to
          MaxBoots,   \* bound: how often the machine is switched on
          MaxFaults   \* bound: calls into the card that fail

ASSUME BoundsAssumption ==
    MaxClock \in Nat /\ MaxBoots \in Nat /\ MaxFaults \in Nat

Cur == <<"save", NoTag>>       \* the one savefile name, `savefile`
Panic == <<"panic", NoTag>>    \* `panicfile`
New(t) == <<"new", t>>
Old(t) == <<"old", t>>
Names == {Cur, Panic} \cup {New(t) : t \in Tags} \cup {Old(t) : t \in Tags}

Games == [ver : Nat, life : {"alive", "dead"}]
Alive(n) == [ver |-> n, life |-> "alive"]

VARIABLES
    card,       \* the files, see Card
    pc,         \* where the program is
    mem,        \* the game in memory
    job,        \* locals of the save being made
    boot,       \* locals of start_game()
    clock,      \* ver of the most recent game there has been
    boots, faults,
    committed,  \* history: ver of the last save reported done, or of the older
                \* game the player chose to go back to
    before      \* history: the savefile, the strays and the fault count when the
                \* save began

vars == <<card, pc, mem, job, boot, clock, boots, faults, committed, before>>
counters == <<clock, boots, faults>>

\* The steps of savefile_save(), in the order the code takes them; "spoilt" is
\* the close of a file to which a write has failed.
Saving == {"open", "write", "close", "spoilt", "discard", "exists", "aside",
           "asideMv", "in", "inMv", "back", "backMv", "delOld", "done", "failed"}

\* While the program is here the .new file is complete and not yet moved.
Moving == {"exists", "aside", "asideMv", "in", "inMv", "back", "backMv"}

\* The places at which a game is in memory.
InGame == Saving \cup {"play", "ask", "closed"}

Places == Saving \cup {"off", "boot", "load", "play", "ask", "closed", "halted"}

\* The names a save has chosen, and where the program goes when it is done:
\* back to the game, or on from close_game().
Jobs == [new : Tags \cup {NoTag}, old : Tags \cup {NoTag},
         then : {"play", "closed"}]
Attempt(then) == [new |-> NoTag, old |-> NoTag, then |-> then]
NoJob == Attempt("play")

Befores == [file : Files(Games), strays : SUBSET Names, faults : Nat]
NoSave == [file |-> Absent, strays |-> {}, faults |-> 0]

Boots == [path : {Cur, Panic}, mode : {"GAME_LOAD", "GAME_NEW"}]
From(p) == [path |-> p, mode |-> boot.mode]
NoBoot == [path |-> Cur, mode |-> "GAME_LOAD"]

Works == UNCHANGED faults
Fails == faults < MaxFaults /\ faults' = faults + 1

NewName == New(job.new)
OldName == Old(job.old)

\* Files that no later start or save looks for.
Strays == Present(card) \ {Cur, Panic}

-----------------------------------------------------------------------------
\* Every variable keeps its type, and wherever a game is played, saved or closed
\* there is one in memory: start_game() goes on only with what savefile_load()
\* has read to its end, or with a new character.
TypeOK ==
    /\ card \in [Names -> Files(Games)]
    /\ pc \in Places
    /\ mem \in Games \cup {NoContent}
    /\ pc \in InGame => mem \in Games
    /\ job \in Jobs
    /\ boot \in Boots
    /\ clock \in Nat /\ boots \in Nat /\ faults \in Nat
    /\ committed \in Nat
    /\ before \in Befores

\* A card fresh from the host: no save or one, and perhaps a panic save, which
\* only a program on the host writes and which may have been cut off there.
Init ==
    /\ \E save \in {Absent, Whole(Alive(1))},
          panic \in {Absent, Partial, Whole(Alive(0))} :
          /\ card = [n \in Names |-> IF n = Cur THEN save
                                     ELSE IF n = Panic THEN panic ELSE Absent]
          /\ committed = IF save = Absent THEN 0 ELSE 1
    /\ pc = "off" /\ mem = NoContent
    /\ job = NoJob /\ boot = NoBoot
    /\ clock = 1 /\ boots = 0 /\ faults = 0
    /\ before = NoSave

-----------------------------------------------------------------------------
(* The power switch.  Everything outside the card is lost. *)

PowerOn ==
    /\ pc = "off" /\ boots < MaxBoots
    /\ boots' = boots + 1
    /\ pc' = "boot"
    /\ UNCHANGED <<card, mem, job, boot, clock, faults, committed, before>>

PowerLoss ==
    /\ pc # "off"
    /\ pc' = "off" /\ mem' = NoContent /\ job' = NoJob /\ boot' = NoBoot
    /\ before' = NoSave
    /\ UNCHANGED <<card, counters, committed>>

-----------------------------------------------------------------------------
(* start_game() *)

\* Is the panic save newer than the savefile?  Yes if there is no savefile;
\* otherwise the times decide, and the machine has no clock that could say.
PanicNewer == IF Exists(card, Cur) THEN BOOLEAN ELSE {TRUE}

CheckPanic ==
    /\ pc = "boot" /\ pc' = "load"
    /\ IF ~Exists(card, Panic)
       THEN boot' = From(Cur) /\ UNCHANGED <<card, faults>>
       ELSE \E newer \in PanicNewer :
            \/ newer /\ \E p \in {Cur, Panic} : boot' = From(p)
               /\ UNCHANGED <<card, faults>>
            \/ ~newer /\ boot' = From(Cur)
               /\ \/ Works /\ card' = Removed(card, Panic)
                  \/ Fails /\ UNCHANGED card
    /\ UNCHANGED <<mem, job, clock, boots, committed, before>>

\* The game in the file loadpath names is alive and is the one to be played.
Resumable(f) == f.st = "whole" /\ f.data.life = "alive" /\ boot.mode = "GAME_LOAD"

Resume ==
    /\ pc = "load" /\ Resumable(card[boot.path])
    /\ mem' = card[boot.path].data
    /\ committed' = IF boot.path = Panic THEN mem'.ver ELSE committed
    /\ pc' = "play" /\ boot' = NoBoot
    /\ UNCHANGED <<card, job, counters, before>>

\* No file, a dead character, or "Start a new game?": textui_do_birth().
Birth ==
    /\ pc = "load" /\ card[boot.path].st # "partial"
    /\ ~Resumable(card[boot.path])
    /\ clock' = clock + 1
    /\ mem' = Alive(clock + 1)
    /\ pc' = "play" /\ boot' = NoBoot
    /\ UNCHANGED <<card, job, boots, faults, committed, before>>

\* MUTANT of BrokenSavefile: the result of savefile_load() is ignored.
BrokenSavefilePlayed ==
    /\ pc = "load" /\ card[boot.path].st = "partial"
    /\ pc' = "play" /\ boot' = NoBoot
    /\ UNCHANGED <<card, mem, job, counters, committed, before>>

\* savefile_load() fails: quit("Broken savefile").
BrokenSavefile ==
    /\ pc = "load" /\ card[boot.path].st = "partial"
    /\ pc' = "halted" /\ boot' = NoBoot
    /\ UNCHANGED <<card, mem, job, counters, committed, before>>

-----------------------------------------------------------------------------
(* play_game(): turns are played until the player saves, quits or dies. *)

Play ==
    /\ pc = "play" /\ mem.life = "alive" /\ clock < MaxClock
    /\ clock' = clock + 1
    /\ \E life \in {"alive", "dead"} : mem' = [ver |-> clock + 1, life |-> life]
    /\ UNCHANGED <<card, pc, job, boot, boots, faults, committed, before>>

Begin(then) ==
    /\ pc' = "open"
    /\ job' = Attempt(then)
    /\ before' = [file |-> card[Cur], strays |-> Strays, faults |-> faults]
    /\ UNCHANGED <<card, mem, boot, counters, committed>>

\* The save command, the save after a new level, the save at a low battery.
SaveGame == pc = "play" /\ mem.life = "alive" /\ Begin("play")

\* Quit or death; a failed save is tried again if the player says so.
CloseGame == pc = "play" /\ Begin("closed")
TryAgain == pc = "ask" /\ Begin("closed")

GiveUp ==
    /\ pc = "ask" /\ pc' = "closed"
    /\ UNCHANGED <<card, mem, job, boot, counters, committed, before>>

Quit ==
    /\ pc = "closed" /\ pc' = "halted"
    /\ UNCHANGED <<card, mem, job, boot, counters, committed, before>>

\* The death screen's new game: start_game(true) without a restart.
PlayAgain ==
    /\ pc = "closed" /\ mem.life = "dead"
    /\ pc' = "boot" /\ boot' = [path |-> Cur, mode |-> "GAME_NEW"]
    /\ job' = NoJob /\ mem' = NoContent
    /\ UNCHANGED <<card, counters, committed, before>>

-----------------------------------------------------------------------------
(* savefile_save() *)

\* file_get_savefile() tries a hundred random names before it takes one that
\* exists, so it does that only when it finds no other.
Untaken(taken) == IF taken = Tags THEN Tags ELSE Tags \ taken

NewTags == Untaken({t \in Tags : Exists(card, New(t))})
OldTags == Untaken({t \in Tags : Exists(card, Old(t))})

InSave(at, next) ==
    /\ pc = at /\ pc' = next
    /\ UNCHANGED <<mem, boot, clock, boots, committed, before>>

\* file_open(new_savefile, MODE_WRITE, FTYPE_SAVE) refuses a name that exists.
OpenNew ==
    \E n \in NewTags, o \in OldTags :
        /\ job' = [new |-> n, old |-> o, then |-> job.then]
        /\ \/ InSave("open", "write") /\ Works
              /\ ~Exists(card, New(n)) /\ card' = Created(card, New(n))
           \/ InSave("open", "failed") /\ Works
              /\ Exists(card, New(n)) /\ UNCHANGED card
           \/ InSave("open", "failed") /\ Fails /\ UNCHANGED card

\* try_save() carries on after a failed write and reports it at the end.
WriteNew ==
    /\ \/ InSave("write", "close") /\ Works
       \/ InSave("write", "spoilt") /\ Fails
    /\ UNCHANGED <<card, job>>

\* MUTANT of CloseNew: the result of file_close() is ignored.
CloseNewUnchecked ==
    /\ \/ InSave("close", "exists") /\ Works /\ card' = Closed(card, NewName, mem)
       \/ InSave("close", "exists") /\ Fails /\ UNCHANGED card
       \/ InSave("spoilt", "discard") /\ Works /\ UNCHANGED card
    /\ UNCHANGED job

CloseNew ==
    /\ \/ InSave("close", "exists") /\ Works /\ card' = Closed(card, NewName, mem)
       \/ InSave("close", "discard") /\ Fails /\ UNCHANGED card
       \/ InSave("spoilt", "discard") /\ Works /\ UNCHANGED card
    /\ UNCHANGED job

\* A call of remove(): the code carries on whether it worked or not.
Remove(at, name, next) ==
    /\ InSave(at, next)
    /\ \/ Works /\ card' = Removed(card, name)
       \/ Fails /\ UNCHANGED card
    /\ UNCHANGED job

\* A call of rename(), after file_move() has called Remove for its target.
Move(at, from, to, next, otherwise) ==
    /\ \/ /\ InSave(at, next) /\ Works
          /\ CanRename(card, from, to) /\ card' = Renamed(card, from, to)
       \/ /\ InSave(at, otherwise)
          /\ Fails \/ (Works /\ ~CanRename(card, from, to))
          /\ UNCHANGED card
    /\ UNCHANGED job

DiscardNew == Remove("discard", NewName, "failed")

\* if (file_exists(path) && ...): a failing stat() reads as "no savefile".
CheckExisting ==
    /\ \/ InSave("exists", "aside") /\ Exists(card, Cur) /\ Works
       \/ InSave("exists", "in") /\ ~Exists(card, Cur) /\ Works
       \/ InSave("exists", "in") /\ Exists(card, Cur) /\ Fails
    /\ UNCHANGED <<card, job>>

\* ... !file_move(path, old_savefile))
ClearOld == Remove("aside", OldName, "asideMv")
MoveAside == Move("asideMv", Cur, OldName, "in", "failed")

\* else if (!file_move(new_savefile, path))
ClearCur == Remove("in", Cur, "inMv")
\* MUTANT of MoveIn: no attempt to restore the old savefile.
MoveInNoRestore == Move("inMv", NewName, Cur, "delOld", "failed")

MoveIn == Move("inMv", NewName, Cur, "delOld", "back")

\* if that failed: file_move(old_savefile, path)
ClearBack == Remove("back", Cur, "backMv")
\* MUTANTS of MoveBack: the restored savefile counts as the save; the restore
\* is tried until it works.
MoveBackCounts == Move("backMv", OldName, Cur, "done", "failed")
MoveBackInsists == Move("backMv", OldName, Cur, "failed", "back")

\* (void)file_move(old_savefile, path)
MoveBack == Move("backMv", OldName, Cur, "failed", "failed")

\* MUTANT of DeleteOld: the old savefile stays.
DeleteOldForgotten ==
    InSave("delOld", "done") /\ Works /\ UNCHANGED <<card, job>>

DeleteOld == Remove("delOld", OldName, "done")

Report(at, next) ==
    /\ pc = at /\ pc' = next
    /\ job' = NoJob /\ before' = NoSave
    /\ UNCHANGED <<card, mem, boot, counters>>

SaveDone == Report("done", job.then) /\ committed' = mem.ver

\* MUTANT of SaveFailed: every save is taken to be done.
SaveFailedUnnoticed == Report("failed", job.then) /\ committed' = mem.ver

\* A failed save while playing is only shown; close_game() asks.
SaveFailed ==
    /\ Report("failed", IF job.then = "play" THEN "play" ELSE "ask")
    /\ UNCHANGED committed

SaveStep ==
    \/ OpenNew \/ WriteNew \/ CloseNew \/ DiscardNew \/ CheckExisting
    \/ ClearOld \/ MoveAside \/ ClearCur \/ MoveIn \/ ClearBack \/ MoveBack
    \/ DeleteOld \/ SaveDone \/ SaveFailed

Next ==
    \/ PowerOn \/ PowerLoss
    \/ CheckPanic \/ Resume \/ Birth \/ BrokenSavefile
    \/ Play \/ SaveGame \/ CloseGame \/ TryAgain \/ GiveUp \/ Quit \/ PlayAgain
    \/ SaveStep

Spec == Init /\ [][Next]_vars

\* Nothing stops a program with one thread from taking its next step.
FairSpec == Spec /\ WF_vars(SaveStep)

-----------------------------------------------------------------------------
(* Properties *)

\* A restart never finds the savefile cut off, whenever the power went: the
\* file under the savefile's name is a complete save or is not there.
\* (savefile_save() moves the ".new" file only after fclose() has succeeded.)
SaveNameWhole == card[Cur].st # "partial"

\* After a save has been reported done, some complete copy of that game or of a
\* later one is on the card at every moment, through every failing call and
\* every power loss.  (The order of the moves in savefile_save().)
CommittedSurvives ==
    committed > 0 =>
        \E n \in Names : card[n].st = "whole" /\ card[n].data.ver >= committed

\* "Saving game... done." is said only when the next start would load exactly
\* the game in memory, although most results of remove() are ignored.
SaveDoneIsLoadable ==
    pc = "done" => card[Cur] = Whole(mem)

\* If one call fails, a save that reports failure has put the savefile back as
\* it found it.  (The restoring file_move() in savefile_save(); with a second
\* failure, of that move, the savefile's name stays empty.)
FailedSaveKeepsSave ==
    pc = "failed" /\ before.file.st = "whole"
      /\ faults <= before.faults + 1
    => card[Cur] = before.file

\* A save in which no call fails leaves no file behind that was not there
\* before, even one that is refused because its ".new" name was taken.
CleanSaveLeavesNoStrays ==
    pc \in {"done", "failed"} /\ faults = before.faults => Strays \subseteq before.strays

\* Under the savefile's name a reader sees a file being replaced as Replace
\* allows it: emptied only while a complete successor is on the card, and
\* filled only with that successor or a former savefile.
Slot == INSTANCE Replace WITH
    Content <- Games,
    slot <- card[Cur],
    staged <- IF pc \in Moving THEN card[NewName] ELSE Absent,
    kept <- {card[Old(t)].data : t \in {u \in Tags : card[Old(u)].st = "whole"}}

SlotSpec == Slot!Spec

\* Every attempt to save comes to its report, unless the power goes: no failure
\* of the card makes savefile_save() go round in circles.
SaveAttemptEnds == pc = "open" ~> pc \in {"play", "closed", "ask", "off"}

\* What README.md:63 and INSTALL.md:112 promise: after the power has been off,
\* the game loads the last save.  So if the last game saved was alive, a start
\* does not come to the birth of a new character.
ResumesLastSave ==
    pc = "load" /\ boot.mode = "GAME_LOAD" /\ committed > 0 => Exists(card, boot.path)
=============================================================================
