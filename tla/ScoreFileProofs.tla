--------------------------- MODULE ScoreFileProofs ---------------------------
(***************************************************************************)
(* Proofs about ScoreFile, for every bound on deaths, starts and failures. *)
(***************************************************************************)
EXTENDS ScoreFile, TLAPS

\* TypeOK is not inductive: Read enters the number of the death that led to it.
TypeInv ==
    /\ TypeOK
    /\ pc \in Scoring => deaths > 0

LEMMA FileTypes ==
    /\ \A t \in Tables : Whole(t) \in Files(Tables)
    /\ Absent \in Files(Tables) /\ Partial \in Files(Tables)
    /\ \A f \in Files(Tables) : /\ f.st = "whole" => f = Whole(f.data)
                                /\ Entries(f) \in Tables
                                /\ f.st \notin {"partial", "whole"} => f = Absent
    /\ Absent.st = "absent" /\ Partial.st = "partial"
    /\ \A t : Whole(t).st = "whole" /\ Whole(t).data = t
  BY DEF Files, WholeFiles, Whole, Absent, Partial, Entries, Tables

LEMMA FileSteps ==
    ASSUME TypeInv, NEW a \in Names, NEW b \in Names, NEW t
    PROVE  /\ \A n \in Names \ {a} : /\ Removed(card, a)[n] = card[n]
                                     /\ Created(card, a)[n] = card[n]
                                     /\ Closed(card, a, t)[n] = card[n]
           /\ Removed(card, a)[a] = Absent
           /\ Created(card, a)[a] = Partial
           /\ Closed(card, a, t)[a] = Whole(t)
           /\ \A n \in Names \ {a, b} : Renamed(card, a, b)[n] = card[n]
           /\ a # b => /\ Renamed(card, a, b)[a] = Absent
                       /\ Renamed(card, a, b)[b] = card[a]
  BY DEF TypeInv, TypeOK, Removed, Created, Closed, Renamed

LEMMA CardTypes ==
    ASSUME TypeInv, NEW a \in Names, NEW b \in Names, NEW t \in Tables
    PROVE  /\ Removed(card, a) \in [Names -> Files(Tables)]
           /\ Created(card, a) \in [Names -> Files(Tables)]
           /\ Closed(card, a, t) \in [Names -> Files(Tables)]
           /\ Renamed(card, a, b) \in [Names -> Files(Tables)]
  BY FileTypes DEF TypeInv, TypeOK, Removed, Created, Closed, Renamed

LEMMA TypeInit == Init => TypeInv
<1> SUFFICES ASSUME Init PROVE TypeInv
  OBVIOUS
<1>1. stale \in BOOLEAN
  BY DEF Init
<1>2. card \in [Names -> Files(Tables)] /\ {} \in Tables
  BY FileTypes DEF Init, Tables
<1> QED
  BY <1>1, <1>2, BoundsAssumption DEF Init, TypeInv, TypeOK, Scoring, Locked

LEMMA TypeStep == TypeInv /\ [Next]_vars => TypeInv'
<1> SUFFICES ASSUME TypeInv, [Next]_vars PROVE TypeInv'
  OBVIOUS
<1> USE BoundsAssumption DEF TypeInv, TypeOK
<1>0. CASE UNCHANGED vars
  BY <1>0 DEF vars
<1>1. CASE PowerOn \/ PowerLoss \/ Die \/ PlayAgain
  <2>1. stale' \in BOOLEAN
    BY <1>1 DEF PowerOn, PowerLoss, Die, PlayAgain
  <2>2. CASE PowerOn
    BY <2>1, <2>2 DEF PowerOn, Scoring, Locked
  <2>4. CASE Die
    BY <2>1, <2>4 DEF Die, Scoring, Locked
  <2>5. CASE PlayAgain
    BY <2>1, <2>5 DEF PlayAgain, Tables, Scoring, Locked
  <2>3. CASE PowerLoss
    <3>1. /\ pc' = "off" /\ table' = {}
          /\ UNCHANGED <<card, deaths, boots, faults, entered>>
      BY <2>3 DEF PowerLoss
    <3> QED
      BY <2>1, <3>1 DEF Tables, Scoring, Locked
  <2> QED
    BY <1>1, <2>2, <2>3, <2>4, <2>5
<1>2. CASE ScoreStep
  <2> USE DEF Step, Works, Fails, Scoring, Locked
  <2>1. CASE Read
    <3>1. Entries(card["raw"]) \in Tables
      BY FileTypes DEF Names
    <3>2. table' \in Tables /\ deaths \in table'
      BY <2>1, <3>1 DEF Read, Tables
    <3> QED
      BY <2>1, <3>2 DEF Read
  <2>2. CASE CheckLock \/ Write \/ CheckOld \/ CheckCur
    BY <2>2 DEF CheckLock, Write, CheckOld, CheckCur, IfExists
  <2>3. CASE Lock \/ OpenNew
    <3>1. card' \in [Names -> Files(Tables)]
      BY <2>3, CardTypes DEF Lock, OpenNew, Names
    <3> QED
      BY <2>3, <3>1 DEF Lock, OpenNew
  <2>4. CASE CloseNew
    <3>1. card' \in [Names -> Files(Tables)]
      BY <2>4, CardTypes DEF CloseNew, Names
    <3> QED
      BY <2>4, <3>1 DEF CloseNew
  <2>5. CASE Abandon \/ Unlock
    <3>1. card' \in [Names -> Files(Tables)]
      BY <2>5, CardTypes DEF Abandon, Unlock, Unlocks, Names
    <3>2. stale' \in BOOLEAN
      BY <2>5 DEF Abandon, Unlock, Unlocks
    <3> QED
      BY <2>5, <3>1, <3>2 DEF Abandon, Unlock, Unlocks
  <2>6. CASE Discard \/ DeleteOld \/ ClearOld \/ ClearCur \/ ClearBack \/ DropNew
    <3>1. card' \in [Names -> Files(Tables)]
      BY <2>6, CardTypes DEF Discard, DeleteOld, ClearOld, ClearCur, ClearBack,
         DropNew, Delete, Names
    <3> QED
      BY <2>6, <3>1 DEF Discard, DeleteOld, ClearOld, ClearCur, ClearBack,
         DropNew, Delete
  <2>7. CASE MoveAside \/ MoveIn \/ MoveBack
    <3>1. card' \in [Names -> Files(Tables)]
      BY <2>7, CardTypes DEF MoveAside, MoveIn, MoveBack, Rename, Names
    <3> QED
      BY <2>7, <3>1 DEF MoveAside, MoveIn, MoveBack, Rename
  <2> QED
    BY <1>2, <2>1, <2>2, <2>3, <2>4, <2>5, <2>6, <2>7 DEF ScoreStep
<1> QED
  BY <1>0, <1>1, <1>2 DEF Next

\* Every variable keeps its type and stays within its bound, and the table that
\* is written has the newest entry.
THEOREM TypeCorrect == Spec => []TypeOK
<1>1. TypeInv => TypeOK
  BY DEF TypeInv
<1> QED
  BY <1>1, TypeInit, TypeStep, PTL DEF Spec

-----------------------------------------------------------------------------
(* The lock *)

\* LockGivenBack holds at the two places where nobody holds the lock because it
\* holds at all of them.
LockInv == pc \notin Locked /\ Exists(card, "lok") => stale

LEMMA LockInit == Init => LockInv
  BY DEF Init, LockInv, Exists, Absent, Names

LEMMA LockStep == TypeInv /\ LockInv /\ [Next]_vars => LockInv'
<1> SUFFICES ASSUME TypeInv, LockInv, [Next]_vars PROVE LockInv'
  OBVIOUS
<1> USE FileTypes DEF LockInv, Exists
<1>0. CASE UNCHANGED vars
  BY <1>0 DEF vars
<1>1. CASE PowerOn \/ PowerLoss \/ Die \/ PlayAgain
  BY <1>1 DEF PowerOn, PowerLoss, Die, PlayAgain, Locked, TypeInv, TypeOK
<1>2. CASE Read \/ CheckLock
  BY <1>2 DEF Read, CheckLock, Step, Locked
<1>3. CASE Lock
  BY <1>3 DEF Lock, Step, Locked
<1>4. CASE Abandon \/ Unlock
  <2>1. \/ stale'
        \/ card' = Removed(card, "lok")
    BY <1>4 DEF Abandon, Unlock, Unlocks
  <2> QED
    BY <2>1, FileSteps DEF Names
<1>5. CASE Discard
  <2>1. /\ pc = "discard" /\ stale' = stale
        /\ card' = card \/ card' = Removed(card, "new")
    BY <1>5 DEF Discard, Delete, Step
  <2>2. card'["lok"] = card["lok"]
    BY <2>1, FileSteps DEF Names
  <2> QED
    BY <2>1, <2>2 DEF Locked
<1>6. CASE OpenNew \/ Write \/ CloseNew \/ CheckOld \/ DeleteOld \/ CheckCur
           \/ ClearOld \/ MoveAside \/ ClearCur \/ MoveIn \/ ClearBack
           \/ MoveBack \/ DropNew
  BY <1>6 DEF OpenNew, Write, CloseNew, CheckOld, DeleteOld, CheckCur,
     ClearOld, MoveAside, ClearCur, MoveIn, ClearBack, MoveBack, DropNew,
     IfExists, Delete, Rename, Step, Locked
<1> QED
  BY <1>0, <1>1, <1>2, <1>3, <1>4, <1>5, <1>6 DEF Next, ScoreStep

\* Only a power loss or a failing file_delete() leaves the lock in place.
THEOREM LockAlwaysGivenBack == Spec => []LockGivenBack
<1>1. LockInv => LockGivenBack
  BY DEF LockInv, LockGivenBack, Locked
<1> QED
  BY <1>1, TypeInit, TypeStep, LockInit, LockStep, PTL DEF Spec

-----------------------------------------------------------------------------
(* What the table consists of *)

\* While scores.new waits to be moved it is the table; no file that a reader
\* finds under "scores.raw", or that may be moved there, is cut off.
ShapeInv ==
    /\ card["raw"].st # "partial"
    /\ card["old"].st # "partial"
    /\ pc \in Moving => card["new"] = Whole(table)

LEMMA ShapeInit == Init => ShapeInv
  BY FileTypes DEF Init, ShapeInv, Names, Moving

LEMMA ShapeStep == TypeInv /\ ShapeInv /\ [Next]_vars => ShapeInv'
<1> SUFFICES ASSUME TypeInv, ShapeInv, [Next]_vars PROVE ShapeInv'
  OBVIOUS
<1> USE FileTypes DEF ShapeInv
<1>0. CASE UNCHANGED vars
  BY <1>0 DEF vars
<1>1. CASE PowerOn \/ PowerLoss \/ Die \/ PlayAgain \/ Read \/ CheckLock \/ Write
  BY <1>1 DEF PowerOn, PowerLoss, Die, PlayAgain, Read, CheckLock, Write, Step,
     Moving
<1>2. CASE Lock \/ OpenNew \/ Abandon \/ Unlock \/ Discard \/ DropNew
  <2>1. /\ pc' \notin Moving
        /\ \/ card' = card
           \/ \E n \in {"lok", "new"} :
                 card' = Created(card, n) \/ card' = Removed(card, n)
    BY <1>2 DEF Lock, OpenNew, Abandon, Unlock, Unlocks, Discard, DropNew,
       Delete, Step, Moving
  <2>2. card'["raw"] = card["raw"] /\ card'["old"] = card["old"]
    BY <2>1, FileSteps DEF Names
  <2> QED
    BY <2>1, <2>2
<1>3. CASE CloseNew
  <2>1. /\ table' = table
        /\ \/ card' = Closed(card, "new", table)
           \/ card' = card /\ pc' \notin Moving
    BY <1>3 DEF CloseNew, Step, Moving
  <2> QED
    BY <2>1, FileSteps DEF Names
<1>4. CASE CheckOld \/ CheckCur
  BY <1>4 DEF CheckOld, CheckCur, IfExists, Step, Moving
<1>5. CASE DeleteOld \/ ClearOld \/ ClearCur \/ ClearBack
  <2>1. /\ table' = table /\ pc \in Moving
        /\ \/ card' = card
           \/ \E n \in {"raw", "old"} : card' = Removed(card, n)
    BY <1>5 DEF DeleteOld, ClearOld, ClearCur, ClearBack, Delete, Step, Moving
  <2>2. /\ card'["new"] = card["new"]
        /\ \A n \in {"raw", "old"} : card'[n] \in {card[n], Absent}
    BY <2>1, FileSteps DEF Names
  <2> QED
    BY <2>1, <2>2
<1>6. CASE MoveAside \/ MoveIn \/ MoveBack
  <2>1. /\ table' = table /\ pc \in Moving
        /\ \/ card' = card
           \/ MoveAside /\ card' = Renamed(card, "raw", "old")
           \/ card' = Renamed(card, "new", "raw") /\ pc' \notin Moving
           \/ card' = Renamed(card, "old", "raw") /\ pc' \notin Moving
    BY <1>6 DEF MoveAside, MoveIn, MoveBack, Rename, Step, Moving
  <2>2. CASE card' = card
    BY <2>1, <2>2
  <2>3. CASE card' = Renamed(card, "raw", "old")
    BY <2>1, <2>3, FileSteps DEF Names
  <2>4. CASE card' = Renamed(card, "new", "raw") /\ pc' \notin Moving
    BY <2>1, <2>4, FileSteps DEF Names
  <2>5. CASE card' = Renamed(card, "old", "raw") /\ pc' \notin Moving
    BY <2>1, <2>5, FileSteps DEF Names
  <2> QED
    BY <2>1, <2>2, <2>3, <2>4, <2>5
<1> QED
  BY <1>0, <1>1, <1>2, <1>3, <1>4, <1>5, <1>6 DEF Next, ScoreStep

\* EnteredSurvive is not inductive: that a rewriting which starts from
\* scores.raw alone loses nothing is so because the lock keeps it from starting
\* while the entries are in scores.old.
Held ==
    /\ pc \in Locked <=> pc \in {"openNew", "write", "close", "old", "delOld",
                                 "cur", "aside", "asideMv", "in", "inMv", "unlock"}
    /\ pc # "discard"
    /\ pc \in Locked => Exists(card, "lok")
    /\ pc = "lock" => ~Exists(card, "lok")
    /\ ~Exists(card, "lok") => entered \subseteq Entries(card["raw"])
    /\ pc \in Locked \cup {"lock"} => entered \subseteq table
    /\ pc = "check" => Exists(card, "lok") \/ entered \subseteq table
    /\ pc \in Locked \ {"in", "inMv"} => entered \subseteq Entries(card["raw"])
    /\ pc \in {"in", "inMv"} => entered \subseteq Entries(card["old"])
    /\ pc \in {"aside", "asideMv"} => Exists(card, "raw")
    /\ pc = "asideMv" => ~Exists(card, "old")
    /\ pc = "inMv" => ~Exists(card, "raw")

HeldInv == faults = 0 => Held /\ EnteredSurvive

LEMMA HeldInit == Init => HeldInv
<1> SUFFICES ASSUME Init PROVE HeldInv
  OBVIOUS
<1>1. /\ pc = "off" /\ entered = {}
  BY DEF Init
<1> QED
  BY <1>1 DEF HeldInv, Held, EnteredSurvive, Locked

LEMMA HeldStep == TypeInv /\ ShapeInv /\ HeldInv /\ [Next]_vars => HeldInv'
<1> SUFFICES ASSUME TypeInv, ShapeInv, HeldInv, [Next]_vars, faults' = 0
             PROVE  Held' /\ EnteredSurvive'
  BY DEF HeldInv
<1>a. faults \in Nat /\ faults = 0 /\ ~Fails
  <2>1. faults \in Nat
    BY BoundsAssumption DEF TypeInv, TypeOK
  <2>2. faults' = faults \/ Fails
    BY DEF Next, vars, PowerOn, PowerLoss, Die, PlayAgain, ScoreStep, Read,
       CheckLock, Lock, OpenNew, Write, CloseNew, Abandon, Discard, CheckOld,
       DeleteOld, CheckCur, ClearOld, MoveAside, ClearCur, MoveIn, ClearBack,
       MoveBack, DropNew, Unlock, Unlocks, IfExists, Delete, Rename, Works
  <2> QED
    BY <2>1, <2>2 DEF Fails
<1>b. Held /\ EnteredSurvive
  BY <1>a DEF HeldInv
<1> USE FileTypes DEF Held, Exists
<1>0. CASE UNCHANGED vars
  BY <1>0, <1>b DEF vars, EnteredSurvive
<1>1. CASE PowerOn \/ PowerLoss \/ Die \/ PlayAgain
  <2>1. /\ card' = card /\ entered' = entered
        /\ pc' \in {"off", "alive", "read"}
    BY <1>1 DEF PowerOn, PowerLoss, Die, PlayAgain
  <2> QED
    BY <2>1, <1>b, <1>a DEF EnteredSurvive, Locked
<1>2. CASE Read \/ CheckLock \/ Write
  <2>1. card' = card /\ entered' = entered
    BY <1>2 DEF Read, CheckLock, Write
  <2>2. CASE Read
    <3>1. /\ pc' = "check" /\ Entries(card["raw"]) \subseteq table'
      BY <2>2, <1>a DEF Read, Step
    <3> QED
      BY <2>1, <3>1, <1>a, <1>b DEF EnteredSurvive, Locked
  <2>3. CASE CheckLock
    <3>1. /\ pc = "check" /\ table' = table
          /\ \/ pc' = "scored"
             \/ pc' = "lock" /\ ~Exists(card, "lok")
      BY <2>3, <1>a DEF CheckLock, Step
    <3> QED
      BY <2>1, <3>1, <1>a, <1>b DEF EnteredSurvive, Locked
  <2>4. CASE Write
    <3>1. pc = "write" /\ pc' = "close" /\ table' = table
      BY <2>4, <1>a DEF Write, Step
    <3> QED
      BY <2>1, <3>1, <1>a, <1>b DEF EnteredSurvive, Locked
  <2> QED
    BY <1>2, <2>2, <2>3, <2>4
<1>3. CASE Lock
  <2>1. /\ pc = "lock" /\ pc' = "openNew" /\ card' = Created(card, "lok")
        /\ entered' = entered /\ table' = table
    BY <1>3, <1>a DEF Lock, Step
  <2>2. /\ card'["lok"] = Partial
        /\ card'["raw"] = card["raw"] /\ card'["old"] = card["old"]
    BY <2>1, FileSteps DEF Names
  <2> QED
    BY <2>1, <2>2, <1>b DEF EnteredSurvive, Locked
<1>4. CASE OpenNew \/ CloseNew
  <2>1. /\ entered' = entered /\ table' = table
        /\ \/ pc = "openNew" /\ pc' = "write" /\ card' = Created(card, "new")
           \/ pc = "close" /\ pc' = "old" /\ card' = Closed(card, "new", table)
    BY <1>4, <1>a DEF OpenNew, CloseNew, Step
  <2>2. \A n \in {"lok", "raw", "old"} : card'[n] = card[n]
    BY <2>1, FileSteps DEF Names
  <2> QED
    BY <2>1, <2>2, <1>b DEF EnteredSurvive, Locked
<1>5. CASE CheckOld \/ CheckCur
  <2>1. /\ entered' = entered /\ table' = table /\ card' = card
        /\ \/ pc = "old" /\ pc' \in {"delOld", "cur"}
           \/ pc = "cur" /\ pc' = "aside" /\ Exists(card, "raw")
           \/ pc = "cur" /\ pc' = "in" /\ ~Exists(card, "raw")
    BY <1>5, <1>a DEF CheckOld, CheckCur, IfExists, Step
  <2>2. ~Exists(card, "raw") => Entries(card["raw"]) = {}
    BY DEF Entries
  <2> QED
    BY <2>1, <2>2, <1>b DEF EnteredSurvive, Locked
<1>6. CASE DeleteOld \/ ClearOld
  <2>1. /\ entered' = entered /\ table' = table
        /\ \/ pc = "delOld" /\ pc' = "cur"
           \/ pc = "aside" /\ pc' = "asideMv"
        /\ card' = Removed(card, "old")
    BY <1>6, <1>a DEF DeleteOld, ClearOld, Delete, Step
  <2>2. /\ \A n \in {"lok", "raw"} : card'[n] = card[n]
        /\ card'["old"] = Absent
    BY <2>1, FileSteps DEF Names
  <2> QED
    BY <2>1, <2>2, <1>b DEF EnteredSurvive, Locked
<1>7. CASE MoveAside
  <2>0. pc = "asideMv" /\ CanRename(card, "raw", "old")
    BY <1>7, <1>b DEF MoveAside, Rename, Step, CanRename
  <2>1. /\ entered' = entered /\ table' = table
        /\ pc' = "in" /\ card' = Renamed(card, "raw", "old")
    BY <1>7, <2>0, <1>a DEF MoveAside, Rename, Step
  <2>2. card'["lok"] = card["lok"] /\ card'["old"] = card["raw"]
    BY <2>1, FileSteps DEF Names
  <2> QED
    BY <2>0, <2>1, <2>2, <1>b DEF EnteredSurvive, Locked
<1>8. CASE ClearCur
  <2>1. /\ entered' = entered /\ table' = table
        /\ pc = "in" /\ pc' = "inMv" /\ card' = Removed(card, "raw")
    BY <1>8, <1>a DEF ClearCur, Delete, Step
  <2>2. /\ \A n \in {"lok", "old"} : card'[n] = card[n]
        /\ card'["raw"] = Absent
    BY <2>1, FileSteps DEF Names
  <2> QED
    BY <2>1, <2>2, <1>b DEF EnteredSurvive, Locked
<1>9. CASE MoveIn
  <2>0. pc = "inMv" /\ card["new"] = Whole(table)
    BY <1>9 DEF MoveIn, Rename, Step, ShapeInv, Moving
  <2>1. CanRename(card, "new", "raw")
    BY <2>0, <1>b DEF CanRename
  <2>2. /\ entered' = table /\ table' = table
        /\ pc' = "unlock" /\ card' = Renamed(card, "new", "raw")
    BY <1>9, <2>1, <1>a DEF MoveIn, Rename, Step
  <2>3. card'["lok"] = card["lok"] /\ card'["raw"] = Whole(table)
    BY <2>0, <2>2, FileSteps DEF Names
  <2>4. Entries(card'["raw"]) = table
    BY <2>3 DEF Entries
  <2> QED
    BY <2>0, <2>2, <2>3, <2>4, <1>b DEF EnteredSurvive, Locked
<1>10. CASE Abandon \/ Discard \/ ClearBack \/ MoveBack \/ DropNew
  BY <1>10, <1>b DEF Abandon, Unlocks, Discard, ClearBack, MoveBack, DropNew,
     Delete, Rename, Step, Locked
<1>11. CASE Unlock
  <2>1. /\ entered' = entered /\ table' = table
        /\ pc = "unlock" /\ pc' = "scored" /\ card' = Removed(card, "lok")
    BY <1>11, <1>a DEF Unlock, Unlocks, Step
  <2>2. card'["raw"] = card["raw"]
    BY <2>1, FileSteps DEF Names
  <2> QED
    BY <2>1, <2>2, <1>b DEF EnteredSurvive, Locked
<1> QED
  BY <1>0, <1>1, <1>2, <1>3, <1>4, <1>5, <1>6, <1>7, <1>8, <1>9, <1>10, <1>11
     DEF Next, ScoreStep

\* However often the power goes while the table is rewritten, as long as no call
\* fails every entry ever moved in stays on the card.
THEOREM EnteredAlwaysSurvive == Spec => []EnteredSurvive
<1>1. HeldInv => EnteredSurvive
  BY DEF HeldInv, EnteredSurvive
<1> QED
  BY <1>1, TypeInit, TypeStep, ShapeInit, ShapeStep, HeldInit, HeldStep, PTL
     DEF Spec

-----------------------------------------------------------------------------
(* ScoreFile implements Replace *)

\* What the refinement mapping of ScoreFile puts for Replace's variables.
slot == card["raw"]
staged == IF pc \in Moving THEN card["new"] ELSE Absent
kept == IF card["old"].st = "whole" THEN {card["old"].data} ELSE {}

\* The steps of Replace, with the mapping carried out.
LEMMA SlotSteps ==
    /\ Slot!vars = <<slot, staged, kept>>
    /\ kept' \subseteq kept /\ slot' = slot =>
          /\ staged' = staged => Slot!Next
          /\ staged' = Absent => Slot!Next
          /\ staged = Absent /\ staged' \in WholeFiles(Tables) => Slot!Next
    /\ /\ staged.st = "whole" /\ staged' = staged
       /\ slot.st = "whole" /\ slot' = Absent
       /\ kept' \subseteq kept \cup {slot.data}
       => Slot!Next
    /\ /\ staged.st = "whole" /\ staged' = Absent
       /\ slot = Absent /\ kept' \subseteq kept
       /\ slot' = staged \/ \E c \in kept : slot' = Whole(c)
       => Slot!Next
<1> USE DEF slot, staged, kept, Slot!Next, Slot!Forgetting, Absent, Whole,
        WholeFiles, Slot!Absent, Slot!Whole, Slot!WholeFiles
<1>1. Slot!vars = <<slot, staged, kept>>
  BY DEF Slot!vars
<1>2. kept' \subseteq kept /\ slot' = slot /\ staged' = staged => Slot!Next
  BY DEF Slot!Forget
<1>3. kept' \subseteq kept /\ slot' = slot /\ staged' = Absent => Slot!Next
  BY DEF Slot!Abandon
<1>4. kept' \subseteq kept /\ slot' = slot /\ staged = Absent
        /\ staged' \in WholeFiles(Tables) => Slot!Next
  BY DEF Slot!Stage
<1>5. /\ staged.st = "whole" /\ staged' = staged
      /\ slot.st = "whole" /\ slot' = Absent
      /\ kept' \subseteq kept \cup {slot.data}
      => Slot!Next
  BY DEF Slot!Vacate
<1>6. /\ staged.st = "whole" /\ staged' = Absent
      /\ slot = Absent /\ kept' \subseteq kept
      /\ slot' = staged
      => Slot!Next
  BY DEF Slot!Install
<1>7. /\ staged.st = "whole" /\ staged' = Absent
      /\ slot = Absent /\ kept' \subseteq kept
      /\ \E c \in kept : slot' = Whole(c)
      => Slot!Next
  BY DEF Slot!PutBack
<1> QED
  BY <1>1, <1>2, <1>3, <1>4, <1>5, <1>6, <1>7

LEMMA SlotInit == Init => Slot!Init
  BY DEF Init, Names, Moving, Slot!Init, Slot!Absent, Slot!WholeFiles, Absent,
     WholeFiles

LEMMA SlotStep ==
    TypeInv /\ ShapeInv /\ [Next]_vars => [Slot!Next]_(Slot!vars)
<1> SUFFICES ASSUME TypeInv, ShapeInv, [Next]_vars
             PROVE  [Slot!Next]_(Slot!vars)
  OBVIOUS
<1>a. /\ \A n \in Names : card[n] \in Files(Tables)
      /\ slot = Absent \/ slot.st = "whole"
      /\ pc \in Moving => staged.st = "whole"
  BY FileTypes DEF TypeInv, TypeOK, ShapeInv, Files, WholeFiles, slot, staged,
     Names
<1> USE FileTypes
<1>0. CASE UNCHANGED vars
  <2>1. slot' = slot /\ staged' = staged /\ kept' = kept
    BY <1>0 DEF vars, slot, staged, kept
  <2> QED
    BY <2>1, SlotSteps
<1>1. CASE PowerOn \/ PowerLoss \/ Die \/ PlayAgain \/ Read \/ CheckLock
           \/ Write \/ Lock \/ OpenNew \/ Abandon \/ Unlock \/ Discard \/ DropNew
  <2>1. /\ pc' \notin Moving
        /\ \/ card' = card
           \/ \E n \in {"lok", "new"} :
                 card' = Created(card, n) \/ card' = Removed(card, n)
    BY <1>1 DEF PowerOn, PowerLoss, Die, PlayAgain, Read, CheckLock, Write,
       Lock, OpenNew, Abandon, Unlock, Unlocks, Discard, DropNew, Delete, Step,
       Moving
  <2>2. card'["raw"] = card["raw"] /\ card'["old"] = card["old"]
    BY <2>1, FileSteps DEF Names
  <2>3. slot' = slot /\ staged' = Absent /\ kept' = kept
    BY <2>1, <2>2 DEF slot, staged, kept
  <2> QED
    BY <2>3, SlotSteps
<1>2. CASE CloseNew
  <2>1. /\ pc \notin Moving
        /\ \/ card' = Closed(card, "new", table)
           \/ card' = card /\ pc' \notin Moving
    BY <1>2 DEF CloseNew, Step, Moving
  <2>2. /\ card'["raw"] = card["raw"] /\ card'["old"] = card["old"]
        /\ pc' \in Moving => card'["new"] = Whole(table)
    BY <2>1, FileSteps DEF Names
  <2>3. table \in Tables
    BY DEF TypeInv, TypeOK
  <2>4. /\ slot' = slot /\ kept' = kept /\ staged = Absent
        /\ staged' = Absent \/ staged' \in WholeFiles(Tables)
    BY <2>1, <2>2, <2>3 DEF slot, staged, kept, WholeFiles, Whole
  <2> QED
    BY <2>4, SlotSteps
<1>3. CASE CheckOld \/ CheckCur
  <2>1. card' = card /\ (pc \in Moving <=> pc' \in Moving)
    BY <1>3 DEF CheckOld, CheckCur, IfExists, Step, Moving
  <2>2. slot' = slot /\ staged' = staged /\ kept' = kept
    BY <2>1 DEF slot, staged, kept
  <2> QED
    BY <2>2, SlotSteps
<1>4. CASE DeleteOld \/ ClearOld
  <2>1. /\ pc \in Moving
        /\ card' = card \/ card' = Removed(card, "old")
    BY <1>4 DEF DeleteOld, ClearOld, Delete, Step, Moving
  <2>2. /\ card'["raw"] = card["raw"] /\ card'["new"] = card["new"]
        /\ card'["old"] \in {card["old"], Absent}
    BY <2>1, FileSteps DEF Names
  <2>3. slot' = slot /\ kept' \subseteq kept /\ staged' \in {staged, Absent}
    BY <2>1, <2>2 DEF slot, staged, kept
  <2> QED
    BY <2>3, SlotSteps
<1>5. CASE ClearCur \/ ClearBack
  <2>1. /\ pc \in Moving /\ pc' \in Moving
        /\ card' = card \/ card' = Removed(card, "raw")
    BY <1>5 DEF ClearCur, ClearBack, Delete, Step, Moving
  <2>2. /\ card'["old"] = card["old"] /\ card'["new"] = card["new"]
        /\ card'["raw"] \in {card["raw"], Absent}
    BY <2>1, FileSteps DEF Names
  <2>3. slot' \in {slot, Absent} /\ kept' = kept /\ staged' = staged
    BY <2>1, <2>2 DEF slot, staged, kept
  <2> QED
    BY <2>1, <2>3, <1>a, SlotSteps
<1>6. CASE MoveAside
  <2>1. /\ pc \in Moving
        /\ \/ card' = card /\ pc' \in Moving \cup {"dropNew"}
           \/ /\ card' = Renamed(card, "raw", "old") /\ pc' \in Moving
              /\ Exists(card, "raw")
    BY <1>6 DEF MoveAside, Rename, Step, Moving, CanRename
  <2>2. CASE card' = card
    <3>1. slot' = slot /\ staged' \in {staged, Absent} /\ kept' = kept
      BY <2>1, <2>2 DEF slot, staged, kept
    <3> QED
      BY <3>1, SlotSteps
  <2>3. CASE /\ card' = Renamed(card, "raw", "old") /\ pc' \in Moving
             /\ Exists(card, "raw")
    <3>1. /\ card'["raw"] = Absent /\ card'["old"] = card["raw"]
          /\ card'["new"] = card["new"]
      BY <2>3, FileSteps DEF Names
    <3>2. /\ slot' = Absent /\ slot.st = "whole" /\ staged' = staged
          /\ kept' \subseteq kept \cup {slot.data}
      BY <2>1, <2>3, <3>1, <1>a DEF slot, staged, kept, Exists
    <3> QED
      BY <2>1, <3>2, <1>a, SlotSteps
  <2> QED
    BY <2>1, <2>2, <2>3
<1>7. CASE MoveIn
  <2>1. /\ pc \in Moving
        /\ \/ card' = card /\ pc' \in Moving
           \/ /\ card' = Renamed(card, "new", "raw") /\ pc' \notin Moving
              /\ ~Exists(card, "raw")
    BY <1>7 DEF MoveIn, Rename, Step, Moving, CanRename
  <2>2. CASE card' = card /\ pc' \in Moving
    <3>1. slot' = slot /\ staged' = staged /\ kept' = kept
      BY <2>1, <2>2 DEF slot, staged, kept
    <3> QED
      BY <3>1, SlotSteps
  <2>3. CASE /\ card' = Renamed(card, "new", "raw") /\ pc' \notin Moving
             /\ ~Exists(card, "raw")
    <3>1. card'["raw"] = card["new"] /\ card'["old"] = card["old"]
      BY <2>3, FileSteps DEF Names
    <3>2. slot = Absent /\ slot' = staged /\ staged' = Absent /\ kept' = kept
      BY <2>1, <2>3, <3>1, <1>a DEF slot, staged, kept, Exists
    <3> QED
      BY <2>1, <3>2, <1>a, SlotSteps
  <2> QED
    BY <2>1, <2>2, <2>3
<1>8. CASE MoveBack
  <2>1. /\ pc \in Moving /\ pc' \notin Moving
        /\ \/ card' = card
           \/ /\ card' = Renamed(card, "old", "raw")
              /\ Exists(card, "old") /\ ~Exists(card, "raw")
    BY <1>8 DEF MoveBack, Rename, Step, Moving, CanRename
  <2>2. CASE card' = card
    <3>1. slot' = slot /\ staged' = Absent /\ kept' = kept
      BY <2>1, <2>2 DEF slot, staged, kept
    <3> QED
      BY <3>1, SlotSteps
  <2>3. CASE /\ card' = Renamed(card, "old", "raw")
             /\ Exists(card, "old") /\ ~Exists(card, "raw")
    <3>1. card'["raw"] = card["old"] /\ card'["old"] = Absent
      BY <2>3, FileSteps DEF Names
    <3>2. card["old"] = Whole(card["old"].data) /\ card["old"].st = "whole"
      BY <2>3, <1>a DEF ShapeInv, Exists, Names, Files, WholeFiles, Whole
    <3>3. /\ slot = Absent /\ staged' = Absent /\ kept' \subseteq kept
          /\ \E c \in kept : slot' = Whole(c)
      BY <2>1, <2>3, <3>1, <3>2, <1>a DEF slot, staged, kept, Exists
    <3> QED
      BY <2>1, <3>3, <1>a, SlotSteps
  <2> QED
    BY <2>1, <2>2, <2>3
<1> QED
  BY <1>0, <1>1, <1>2, <1>3, <1>4, <1>5, <1>6, <1>7, <1>8 DEF Next, ScoreStep

\* ScoreFile implements Replace: scores.raw is emptied only while the complete
\* new table is on the card, and filled only with that or a former table.
THEOREM ScoreImplementsReplace == Spec => SlotSpec
  BY TypeInit, TypeStep, ShapeInit, ShapeStep, SlotInit, SlotStep, PTL
     DEF Spec, SlotSpec, Slot!Spec
=============================================================================
