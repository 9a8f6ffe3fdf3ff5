------------------------------- MODULE ScoreFile -------------------------------
(***************************************************************************)
(* The high score file: highscore_read(), highscore_add() and              *)
(* highscore_write() (score.c), called by enter_score() when a character   *)
(* has died.  The table is rewritten by the same kind of moves as the      *)
(* savefile, under a lock file; the machine has no second process, so the  *)
(* only thing that ever finds the lock in place is a later run.            *)
(*                                                                         *)
(* As in SaveFile, each call that touches the card is a step, may fail,    *)
(* and may be the last before the power goes.  Entries are numbered in the *)
(* order of the deaths; a table is the set of its entries (there are never *)
(* the hundred that make the lowest one fall out).                         *)
(***************************************************************************)
EXTENDS Integers, FiniteSets, Card

CONSTANTS MaxDeaths,  \* bound: entries
          MaxBoots,   \* bound: how often the machine is switched on
          MaxFaults   \* bound: calls into the card that fail

ASSUME BoundsAssumption ==
    MaxDeaths \in Nat /\ MaxBoots \in Nat /\ MaxFaults \in Nat

Names == {"raw", "new", "old", "lok"}   \* scores.raw, scores.new, ...
Tables == SUBSET (1 .. MaxDeaths)

VARIABLES card, pc,
          table,         \* scores[] of enter_score()
          deaths,
          boots, faults,
          entered,       \* history: the entries of the last table moved in
          stale          \* history: the lock file was left behind

vars == <<card, pc, table, deaths, boots, faults, entered, stale>>

Locked == {"openNew", "write", "spoilt", "close", "old", "delOld", "cur", "aside",
           "asideMv", "in", "inMv", "back", "backMv", "dropNew", "unlock", "abandon"}
Moving == {"old", "delOld", "cur", "aside", "asideMv", "in", "inMv", "back", "backMv"}
Scoring == Locked \cup {"read", "check", "lock", "discard"}

\* Every variable keeps its type, and from highscore_add() on the table that is
\* written holds the entry of the character who has just died, whatever of the
\* old table could be read.
TypeOK ==
    /\ card \in [Names -> Files(Tables)]
    /\ pc \in Scoring \cup {"off", "alive", "scored"}
    /\ table \in Tables /\ entered \in Tables
    /\ deaths \in 0 .. MaxDeaths /\ boots \in 0 .. MaxBoots /\ faults \in 0 .. MaxFaults
    /\ stale \in BOOLEAN
    /\ pc \in Scoring \ {"read"} => deaths \in table

Init ==
    /\ card = [n \in Names |-> Absent] /\ pc = "off"
    /\ table = {} /\ entered = {}
    /\ deaths = 0 /\ boots = 0 /\ faults = 0
    /\ stale = FALSE

Works == UNCHANGED faults
Fails == faults < MaxFaults /\ faults' = faults + 1

\* A step of the scoring; what else it changes is said by the action.
Step(at, next) ==
    /\ pc = at /\ pc' = next
    /\ UNCHANGED <<deaths, boots>>

-----------------------------------------------------------------------------
PowerOn ==
    /\ pc = "off" /\ boots < MaxBoots
    /\ pc' = "alive" /\ boots' = boots + 1
    /\ UNCHANGED <<card, table, deaths, faults, entered, stale>>

PowerLoss ==
    /\ pc # "off" /\ pc' = "off"
    /\ table' = {}
    /\ stale' = (stale \/ pc \in Locked)
    /\ UNCHANGED <<card, deaths, boots, faults, entered>>

\* death_knowledge() calls enter_score().
Die ==
    /\ pc = "alive" /\ deaths < MaxDeaths
    /\ pc' = "read" /\ deaths' = deaths + 1
    /\ UNCHANGED <<card, table, boots, faults, entered, stale>>

\* The dead character's screens, and then a new character.
PlayAgain ==
    /\ pc = "scored" /\ pc' = "alive" /\ table' = {}
    /\ UNCHANGED <<card, deaths, boots, faults, entered, stale>>

-----------------------------------------------------------------------------
Entries(file) == IF file.st = "whole" THEN file.data ELSE {}

\* MUTANT of Read: a table that could not be read to its end is written back as
\* it is, without the new entry.
ReadWithoutEntry ==
    /\ Step("read", "check")
    /\ LET kept == Entries(card["raw"])
       IN  \/ Works /\ table' = kept \cup {deaths}
           \/ Fails /\ table' \in SUBSET kept
    /\ UNCHANGED <<card, entered, stale>>

\* A scores.raw that cannot be opened reads as an empty table, one that cannot
\* be read to its end as a shorter one.
Read ==
    /\ Step("read", "check")
    /\ LET kept == Entries(card["raw"])
       IN  \/ Works /\ table' = kept \cup {deaths}
           \/ Fails /\ \E got \in SUBSET kept : table' = got \cup {deaths}
    /\ UNCHANGED <<card, entered, stale>>

\* MUTANT of CheckLock: nobody looks for a lock.
CheckLockNever == Step("check", "lock") /\ Works /\ UNCHANGED <<card, table, entered, stale>>

\* "Lock file in place for scorefile; not writing."
CheckLock ==
    /\ \/ Step("check", "scored") /\ Exists(card, "lok") /\ Works
       \/ Step("check", "lock") /\ ~Exists(card, "lok") /\ Works
       \/ Step("check", "lock") /\ Fails
    /\ UNCHANGED <<card, table, entered, stale>>

Lock ==
    /\ \/ Step("lock", "openNew") /\ Works /\ card' = Created(card, "lok")
       \/ Step("lock", "scored") /\ Fails /\ UNCHANGED card
    /\ UNCHANGED <<table, entered, stale>>

\* MUTANT of OpenNew: the lock stays when scores.new cannot be opened.
OpenNewKeepsLock ==
    /\ \/ Step("openNew", "write") /\ Works /\ card' = Created(card, "new")
       \/ Step("openNew", "scored") /\ Fails /\ UNCHANGED card
    /\ UNCHANGED <<table, entered, stale>>

\* A scores.new from before is truncated: FTYPE_RAW does not ask for a new name.
OpenNew ==
    /\ \/ Step("openNew", "write") /\ Works /\ card' = Created(card, "new")
       \/ Step("openNew", "unlock") /\ Fails /\ UNCHANGED card
    /\ UNCHANGED <<table, entered, stale>>

Write ==
    /\ \/ Step("write", "close") /\ Works
       \/ Step("write", "abandon") /\ Fails
    /\ UNCHANGED <<card, table, entered, stale>>

\* MUTANT of CloseNew: the result of file_close() is ignored.
CloseNewUnchecked ==
    /\ \/ Step("close", "old") /\ Works /\ card' = Closed(card, "new", table)
       \/ Step("close", "old") /\ Fails /\ UNCHANGED card
    /\ UNCHANGED <<table, entered, stale>>

CloseNew ==
    /\ \/ Step("close", "old") /\ Works /\ card' = Closed(card, "new", table)
       \/ Step("close", "abandon") /\ Fails /\ UNCHANGED card
    /\ UNCHANGED <<table, entered, stale>>

\* file_delete() of a file other than the lock.
Delete(at, name, next, otherwise) ==
    /\ \/ Step(at, next) /\ Works /\ card' = Removed(card, name)
       \/ Step(at, otherwise) /\ Fails /\ UNCHANGED card
    /\ UNCHANGED <<table, entered, stale>>

\* file_delete(lok_name): nobody looks whether it worked.
Unlocks(at, next) ==
    /\ Step(at, next)
    /\ \/ Works /\ card' = Removed(card, "lok") /\ UNCHANGED stale
       \/ Fails /\ stale' = TRUE /\ UNCHANGED card
    /\ UNCHANGED <<table, entered>>

\* if (file_exists(name) && ...): a failing stat() reads as "no such file".
IfExists(at, name, next, otherwise) ==
    /\ \/ Step(at, next) /\ Exists(card, name) /\ Works
       \/ Step(at, otherwise) /\ ~Exists(card, name) /\ Works
       \/ Step(at, otherwise) /\ Fails
    /\ UNCHANGED <<card, table, entered, stale>>

\* rename(), after file_move() has removed its target.
Rename(at, from, to, next, otherwise) ==
    /\ \/ /\ Step(at, next) /\ Works
          /\ CanRename(card, from, to) /\ card' = Renamed(card, from, to)
       \/ /\ Step(at, otherwise) /\ (Fails \/ (Works /\ ~CanRename(card, from, to)))
          /\ UNCHANGED card
    /\ UNCHANGED <<table, stale>>

\* A table that could not be written: the lock goes before scores.new does.
Abandon == Unlocks("abandon", "discard")
Discard == Delete("discard", "new", "scored", "scored")

CheckOld == IfExists("old", "old", "delOld", "cur")
DeleteOld == Delete("delOld", "old", "cur", "dropNew")
CheckCur == IfExists("cur", "raw", "aside", "in")
ClearOld == Delete("aside", "old", "asideMv", "asideMv")
MoveAside == Rename("asideMv", "raw", "old", "in", "dropNew") /\ UNCHANGED entered
ClearCur == Delete("in", "raw", "inMv", "inMv")
MoveIn ==
    /\ Rename("inMv", "new", "raw", "unlock", "back")
    /\ entered' = IF pc' = "unlock" THEN table ELSE entered
ClearBack == Delete("back", "raw", "backMv", "backMv")

\* MUTANT of MoveBack: the restore is tried until it works.
MoveBackInsists == Rename("backMv", "old", "raw", "dropNew", "back") /\ UNCHANGED entered

MoveBack == Rename("backMv", "old", "raw", "dropNew", "dropNew") /\ UNCHANGED entered
DropNew == Delete("dropNew", "new", "unlock", "unlock")
Unlock == Unlocks("unlock", "scored")

ScoreStep ==
    \/ Read \/ CheckLock \/ Lock \/ OpenNew \/ Write \/ CloseNew \/ Abandon \/ Discard
    \/ CheckOld \/ DeleteOld \/ CheckCur \/ ClearOld \/ MoveAside \/ ClearCur \/ MoveIn
    \/ ClearBack \/ MoveBack \/ DropNew \/ Unlock

Next == PowerOn \/ PowerLoss \/ Die \/ PlayAgain \/ ScoreStep

Spec == Init /\ [][Next]_vars

\* One thread, which nothing stops from taking its next step.
FairSpec == Spec /\ WF_vars(ScoreStep)

-----------------------------------------------------------------------------
(* Properties *)

\* However often the power goes while the table is rewritten, as long as no call
\* fails every entry ever moved in stays on the card.  It takes the lock for
\* that: a power loss between the two moves leaves no scores.raw, and the next
\* rewriting would start from an empty table and delete scores.old.
EnteredSurvive ==
    faults = 0 => \E n \in {"raw", "old"} : entered \subseteq Entries(card[n])

\* Only a power loss or a failing file_delete() leaves the lock in place, which
\* keeps every later score from being entered: each of the seven ways out of
\* highscore_write() gives it back.
LockGivenBack == pc \in {"alive", "scored"} /\ Exists(card, "lok") => stale

\* Whoever reads scores.raw finds it being replaced as Replace allows.
Slot == INSTANCE Replace WITH
    Content <- Tables,
    slot <- card["raw"],
    staged <- IF pc \in Moving THEN card["new"] ELSE Absent,
    kept <- IF card["old"].st = "whole" THEN {card["old"].data} ELSE {}

SlotSpec == Slot!Spec

\* Entering a score comes to an end, unless the power goes.
ScoringEnds == pc = "read" ~> pc \in {"scored", "off"}
=============================================================================
