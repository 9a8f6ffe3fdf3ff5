--------------------------- MODULE SaveFileProofs ---------------------------
(***************************************************************************)
(* Proofs about SaveFile, for every set of tags and every bound: its       *)
(* invariants, what a save leaves behind when it reports, and that it      *)
(* implements Replace.                                                     *)
(***************************************************************************)
EXTENDS SaveFile, TLAPS

\* The steps of a save between the choice of its file names and its report.
Chosen == Saving \ {"open"}

\* TypeOK is not inductive as it stands: the file names a save works on are
\* names of the card's only because OpenNew has chosen the tags.
TypeInv ==
    /\ TypeOK
    /\ pc \in Chosen => job.new \in Tags /\ job.old \in Tags

LEMMA FileTypes ==
    /\ \A c \in Games : Whole(c) \in Files(Games)
    /\ Absent \in Files(Games)
    /\ Partial \in Files(Games)
    /\ \A f \in Files(Games) : f.st = "whole" => f.data \in Games
  BY DEF Files, WholeFiles, Whole, Absent, Partial

LEMMA NameTypes ==
    /\ Cur \in Names /\ Panic \in Names
    /\ \A t \in Tags : New(t) \in Names /\ Old(t) \in Names
  BY DEF Names

LEMMA RecordTypes ==
    /\ NoJob \in Jobs
    /\ \A then \in {"play", "closed"} : Attempt(then) \in Jobs
    /\ \A n, o \in Tags, then \in {"play", "closed"} :
          [new |-> n, old |-> o, then |-> then] \in Jobs
    /\ NoBoot \in Boots
    /\ [path |-> Cur, mode |-> "GAME_NEW"] \in Boots
    /\ NoSave \in Befores
    /\ \A n \in Nat, life \in {"alive", "dead"} :
          [ver |-> n, life |-> life] \in Games
    /\ \A j \in Jobs : j.then \in {"play", "closed"}
    /\ \A b \in Boots : /\ b.path \in {Cur, Panic}
                        /\ \A p \in {Cur, Panic} :
                              [path |-> p, mode |-> b.mode] \in Boots
    /\ \A g \in Games : g.ver \in Nat
  BY FileTypes DEF Jobs, Attempt, NoJob, Boots, NoBoot, Befores, NoSave, Games

LEMMA TypeInit == Init => TypeInv
<1> SUFFICES ASSUME Init PROVE TypeInv
  OBVIOUS
<1>1. card \in [Names -> Files(Games)]
  <2>1. Alive(0) \in Games /\ Alive(1) \in Games
    BY RecordTypes DEF Alive
  <2>2. PICK save \in {Absent, Whole(Alive(1))},
             panic \in {Absent, Partial, Whole(Alive(0))} :
           card = [n \in Names |-> IF n = Cur THEN save
                                   ELSE IF n = Panic THEN panic ELSE Absent]
    BY DEF Init
  <2> QED
    BY <2>1, <2>2, FileTypes
<1>2. committed \in Nat
  BY DEF Init
<1> QED
  BY <1>1, <1>2, FileTypes, RecordTypes DEF Init, TypeInv, TypeOK,
     Places, Chosen, InGame, Saving

LEMMA TypeStep == TypeInv /\ [Next]_vars => TypeInv'
<1> SUFFICES ASSUME TypeInv, [Next]_vars PROVE TypeInv'
  OBVIOUS
<1> USE FileTypes, NameTypes, RecordTypes DEF TypeInv, TypeOK
<1>0. CASE UNCHANGED vars
  BY <1>0 DEF vars
<1>1. CASE PowerOn
  BY <1>1 DEF PowerOn, Places, Chosen, InGame, Saving
<1>2. CASE PowerLoss
  BY <1>2 DEF PowerLoss, Places, Chosen, InGame, Saving, counters
<1>3. CASE CheckPanic
  <2>1. card' \in [Names -> Files(Games)] /\ faults' \in Nat
    BY <1>3 DEF CheckPanic, Works, Fails, Removed
  <2>2. boot' \in Boots
    BY <1>3 DEF CheckPanic, From
  <2> QED
    BY <1>3, <2>1, <2>2 DEF CheckPanic, Places, Chosen, InGame, Saving
<1>4. CASE Resume
  BY <1>4 DEF Resume, Resumable, Places, Chosen, InGame, Saving, counters
<1>5. CASE Birth
  <2>1. clock + 1 \in Nat
    OBVIOUS
  <2>2. Alive(clock + 1) \in Games
    BY <2>1 DEF Alive
  <2> QED
    BY <1>5, <2>1, <2>2 DEF Birth, Places, Chosen, InGame, Saving
<1>6. CASE BrokenSavefile
  BY <1>6 DEF BrokenSavefile, Places, Chosen, InGame, Saving, counters
<1>7. CASE Play
  <2>1. clock + 1 \in Nat
    OBVIOUS
  <2>2. mem' \in Games
    BY <1>7, <2>1 DEF Play
  <2> QED
    BY <1>7, <2>1, <2>2 DEF Play, Places, Chosen, InGame, Saving
<1>8. CASE SaveGame \/ CloseGame \/ TryAgain
  <2>1. before' \in Befores
    BY <1>8 DEF SaveGame, CloseGame, TryAgain, Begin, Strays, Present,
       Befores
  <2>2. job' \in Jobs
    BY <1>8 DEF SaveGame, CloseGame, TryAgain, Begin
  <2> QED
    BY <1>8, <2>1, <2>2 DEF SaveGame, CloseGame, TryAgain, Begin, Places,
       Chosen, InGame, Saving, counters
<1>9. CASE GiveUp \/ Quit \/ PlayAgain
  BY <1>9 DEF GiveUp, Quit, PlayAgain, Places, Chosen, InGame, Saving,
     counters
<1>10. CASE SaveStep
  <2> USE DEF Places, Chosen, InGame, Saving, InSave, Works, Fails
  <2>1. CASE OpenNew
    <3>1. PICK n \in Tags, o \in Tags :
             job' = [new |-> n, old |-> o, then |-> job.then]
      BY <2>1 DEF OpenNew, NewTags, OldTags, Untaken
    <3>2. job' \in Jobs /\ job'.new \in Tags /\ job'.old \in Tags
      BY <3>1
    <3>3. card' \in [Names -> Files(Games)]
      BY <2>1 DEF OpenNew, Created
    <3> QED
      BY <2>1, <3>2, <3>3 DEF OpenNew
  <2>2. CASE WriteNew \/ CheckExisting
    BY <2>2 DEF WriteNew, CheckExisting
  <2>3. CASE CloseNew
    BY <2>3 DEF CloseNew, Closed, NewName
  <2>4. CASE DiscardNew \/ ClearOld \/ ClearCur \/ ClearBack \/ DeleteOld
    BY <2>4 DEF DiscardNew, ClearOld, ClearCur, ClearBack, DeleteOld, Remove,
       Removed
  <2>5. CASE MoveAside \/ MoveIn \/ MoveBack
    BY <2>5 DEF MoveAside, MoveIn, MoveBack, Move, Renamed, NewName, OldName
  <2>6. CASE SaveDone \/ SaveFailed
    BY <2>6 DEF SaveDone, SaveFailed, Report, counters
  <2> QED
    BY <1>10, <2>1, <2>2, <2>3, <2>4, <2>5, <2>6 DEF SaveStep
<1> QED
  BY <1>0, <1>1, <1>2, <1>3, <1>4, <1>5, <1>6, <1>7, <1>8, <1>9, <1>10
     DEF Next

\* Every variable keeps its type, and a game is in memory wherever one is played,
\* saved or closed.
THEOREM TypeCorrect == Spec => []TypeOK
<1>1. TypeInv => TypeOK
  BY DEF TypeInv
<1> QED
  BY <1>1, TypeInit, TypeStep, PTL DEF Spec

-----------------------------------------------------------------------------
(* A name is partial only while its file is being written *)

LEMMA NamesDiffer ==
    /\ Cur # Panic
    /\ \A t \in Tags : /\ Cur # New(t) /\ Panic # New(t)
                       /\ Cur # Old(t) /\ Panic # Old(t)
    /\ \A t, u \in Tags : /\ New(t) # Old(u)
                          /\ New(t) = New(u) => t = u
                          /\ Old(t) = Old(u) => t = u
  BY DEF Cur, Panic, New, Old

\* SaveNameWhole is not inductive: that the file MoveIn puts in place is
\* complete is known since CloseNew, and the one MoveBack restores since it
\* was moved aside.
ShapeInv ==
    /\ SaveNameWhole
    /\ \A t \in Tags : card[Old(t)].st # "partial"
    /\ pc \in {"write", "close", "spoilt", "discard"} => card[NewName] = Partial
    /\ pc \in Moving => card[NewName] = Whole(mem)
    /\ pc \in {"delOld", "done"} => card[Cur] = Whole(mem)

LEMMA FileStates ==
    /\ Absent.st = "absent" /\ Partial.st = "partial"
    /\ \A c : Whole(c).st = "whole" /\ Whole(c).data = c
  BY DEF Absent, Partial, Whole

\* What one call does to the files it does not name: nothing.
LEMMA OtherFiles ==
    ASSUME TypeInv, NEW a \in Names, NEW b \in Names, NEW c
    PROVE  /\ \A n \in Names \ {a} : /\ Removed(card, a)[n] = card[n]
                                     /\ Created(card, a)[n] = card[n]
                                     /\ Closed(card, a, c)[n] = card[n]
           /\ Removed(card, a)[a] = Absent
           /\ Created(card, a)[a] = Partial
           /\ Closed(card, a, c)[a] = Whole(c)
           /\ \A n \in Names \ {a, b} : Renamed(card, a, b)[n] = card[n]
           /\ a # b => /\ Renamed(card, a, b)[a] = Absent
                       /\ Renamed(card, a, b)[b] = card[a]
  BY DEF TypeInv, TypeOK, Removed, Created, Closed, Renamed

LEMMA ShapeStep == TypeInv /\ ShapeInv /\ [Next]_vars => ShapeInv'
<1> SUFFICES ASSUME TypeInv, ShapeInv, [Next]_vars PROVE ShapeInv'
  OBVIOUS
<1> USE NameTypes, NamesDiffer, FileStates DEF ShapeInv, SaveNameWhole
<1>0. CASE UNCHANGED vars
  BY <1>0 DEF vars, NewName
<1>1. CASE PowerOn \/ PowerLoss \/ Resume \/ Birth \/ BrokenSavefile \/ Play
           \/ SaveGame \/ CloseGame \/ TryAgain \/ GiveUp \/ Quit \/ PlayAgain
  <2>1. card' = card
    BY <1>1 DEF PowerOn, PowerLoss, Resume, Birth, BrokenSavefile, Play,
       SaveGame, CloseGame, TryAgain, Begin, GiveUp, Quit, PlayAgain
  <2>2. pc' \in {"off", "boot", "load", "halted", "play", "open", "closed"}
    BY <1>1 DEF PowerOn, PowerLoss, Resume, Birth, BrokenSavefile, Play,
       SaveGame, CloseGame, TryAgain, Begin, GiveUp, Quit, PlayAgain
  <2> QED
    BY <2>1, <2>2 DEF Moving
<1>2. CASE CheckPanic
  <2>1. card' \in {card, Removed(card, Panic)} /\ pc' = "load"
    BY <1>2 DEF CheckPanic
  <2>2. \A n \in Names \ {Panic} : card'[n] = card[n]
    BY <2>1, OtherFiles
  <2> QED
    BY <2>1, <2>2 DEF Moving
<1>3. CASE SaveStep
  <2>0. pc \in Chosen => job.new \in Tags /\ job.old \in Tags
    BY DEF TypeInv
  <2>1. CASE OpenNew
    <3>1. PICK n \in Tags, o \in Tags :
             /\ job'.new = n
             /\ \/ pc' = "write" /\ card' = Created(card, New(n))
                \/ pc' = "failed" /\ card' = card
      BY <2>1 DEF OpenNew, NewTags, OldTags, Untaken, InSave
    <3>2. \A m \in Names \ {New(n)} : card'[m] = card[m]
      BY <3>1, OtherFiles
    <3>3. pc' = "write" => card'[NewName'] = Partial
      BY <3>1, OtherFiles DEF NewName
    <3> QED
      BY <3>1, <3>2, <3>3 DEF Moving
  <2>2. CASE WriteNew \/ CheckExisting
    BY <2>2 DEF WriteNew, CheckExisting, InSave, Moving, NewName
  <2>3. CASE CloseNew
    <3>1. job.new \in Tags
      BY <2>3, <2>0 DEF CloseNew, InSave, Chosen, Saving
    <3>2. \A m \in Names \ {NewName} : card'[m] = card[m]
      BY <2>3, <3>1, OtherFiles DEF CloseNew, NewName
    <3>3. pc' = "exists" => card'[NewName] = Whole(mem)
      BY <2>3, <3>1, OtherFiles DEF CloseNew, InSave, NewName
    <3>4. pc' # "exists" => pc' = "discard" /\ card' = card
      BY <2>3 DEF CloseNew, InSave
    <3> QED
      BY <2>3, <3>1, <3>2, <3>3, <3>4 DEF CloseNew, InSave, NewName, Moving
  <2>4. CASE DiscardNew \/ ClearOld \/ ClearCur \/ ClearBack \/ DeleteOld
    <3>1. job.new \in Tags /\ job.old \in Tags
      BY <2>4, <2>0 DEF DiscardNew, ClearOld, ClearCur, ClearBack, DeleteOld,
         Remove, InSave, Chosen, Saving
    <3>2. PICK n \in {NewName, OldName, Cur} :
             /\ card' \in {card, Removed(card, n)}
             /\ n = NewName => pc' = "failed"
             /\ n = Cur => pc' # "done"
      BY <2>4, <3>1 DEF DiscardNew, ClearOld, ClearCur, ClearBack, DeleteOld,
         Remove, InSave, NewName, OldName
    <3>3. n \in Names /\ Removed(card, n)[n] = Absent
      BY <3>1, OtherFiles DEF NewName, OldName
    <3>4. \A m \in Names \ {n} : card'[m] = card[m]
      BY <3>2, <3>3, OtherFiles
    <3>5. job' = job /\ mem' = mem
      BY <2>4 DEF DiscardNew, ClearOld, ClearCur, ClearBack, DeleteOld,
         Remove, InSave
    <3>6. \/ pc' = "failed"
          \/ pc \in Moving /\ pc' \in Moving
          \/ pc = "delOld" /\ pc' = "done"
      BY <2>4 DEF DiscardNew, ClearOld, ClearCur, ClearBack, DeleteOld,
         Remove, InSave, Moving
    <3>7. SaveNameWhole' /\ \A t \in Tags : card'[Old(t)].st # "partial"
      BY <3>2, <3>3, <3>4
    <3>8. pc' \in Moving => card'[NewName] = Whole(mem)
      BY <3>1, <3>2, <3>4, <3>6 DEF NewName, OldName, Moving
    <3>9. pc' = "done" => card'[Cur] = Whole(mem)
      BY <3>1, <3>2, <3>4, <3>6 DEF NewName, OldName, Moving
    <3> QED
      BY <3>5, <3>6, <3>7, <3>8, <3>9 DEF NewName, Moving
  <2>5. CASE MoveAside \/ MoveIn \/ MoveBack
    <3>1. job.new \in Tags /\ job.old \in Tags
      BY <2>5, <2>0 DEF MoveAside, MoveIn, MoveBack, Move, InSave, Chosen, Saving
    <3>2. job' = job /\ mem' = mem
      BY <2>5 DEF MoveAside, MoveIn, MoveBack, Move, InSave
    <3>3. CASE card' = card /\ pc \in Moving /\ pc' \in {"back", "failed"}
      BY <3>2, <3>3 DEF Moving, NewName
    <3>4. CASE MoveAside /\ pc' = "in" /\ card' = Renamed(card, Cur, OldName)
      BY <3>1, <3>2, <3>4, OtherFiles DEF MoveAside, Move, InSave, Moving,
         NewName, OldName
    <3>5. CASE MoveIn /\ pc' = "delOld" /\ card' = Renamed(card, NewName, Cur)
      BY <3>1, <3>2, <3>5, OtherFiles DEF MoveIn, Move, InSave, Moving,
         NewName, OldName
    <3>6. CASE MoveBack /\ pc' = "failed" /\ card' = Renamed(card, OldName, Cur)
      <4>1. OldName \in Names /\ OldName # Cur
        BY <3>1 DEF OldName
      <4>2. /\ card'[OldName] = Absent /\ card'[Cur] = card[OldName]
            /\ \A n \in Names \ {OldName, Cur} : card'[n] = card[n]
        BY <3>6, <4>1, OtherFiles
      <4>3. \A t \in Tags : card'[Old(t)].st # "partial"
        BY <4>2
      <4>4. card'[Cur].st # "partial"
        BY <3>1, <4>2 DEF OldName
      <4> QED
        BY <3>6, <4>3, <4>4 DEF Moving
    <3>7. CASE MoveAside
      BY <3>7, <3>3, <3>4 DEF MoveAside, Move, InSave, Moving
    <3>8. CASE MoveIn
      BY <3>8, <3>3, <3>5 DEF MoveIn, Move, InSave, Moving
    <3>9. CASE MoveBack
      <4>1. /\ pc \in Moving /\ pc' = "failed"
            /\ card' = card \/ card' = Renamed(card, OldName, Cur)
        BY <3>9 DEF MoveBack, Move, InSave, Moving
      <4> QED
        BY <3>9, <3>3, <3>6, <4>1
    <3> QED
      BY <2>5, <3>7, <3>8, <3>9
  <2>6. CASE SaveDone \/ SaveFailed
    <3>1. card' = card /\ pc' \in {"play", "closed", "ask"}
      BY <2>6, RecordTypes DEF SaveDone, SaveFailed, Report, TypeInv, TypeOK
    <3> QED
      BY <3>1 DEF Moving
  <2> QED
    BY <1>3, <2>1, <2>2, <2>3, <2>4, <2>5, <2>6 DEF SaveStep
<1> QED
  BY <1>0, <1>1, <1>2, <1>3 DEF Next

LEMMA ShapeInit == Init => ShapeInv
  BY NameTypes, NamesDiffer, FileStates DEF Init, ShapeInv, SaveNameWhole, Moving

\* A restart never finds the savefile cut off.
THEOREM SaveNameAlwaysWhole == Spec => []SaveNameWhole
<1>1. ShapeInv => SaveNameWhole
  BY DEF ShapeInv
<1> QED
  BY <1>1, TypeInit, TypeStep, ShapeInit, ShapeStep, PTL DEF Spec

\* "Saving game... done." is said only when the next start would load exactly
\* the game in memory.
THEOREM SaveDoneAlwaysLoadable == Spec => []SaveDoneIsLoadable
<1>1. ShapeInv => SaveDoneIsLoadable
  BY DEF ShapeInv, SaveDoneIsLoadable
<1> QED
  BY <1>1, TypeInit, TypeStep, ShapeInit, ShapeStep, PTL DEF Spec

-----------------------------------------------------------------------------
(* A game whose save was reported done stays on the card *)

\* file_get_savefile() finds an untaken name for the old savefile: not all of
\* the hundred and one random names it tries belong to strays.
OldNameFree == pc = "open" => \E t \in Tags : ~Exists(card, Old(t))

\* No file is from the future, and none that a reader may come to see under the
\* savefile's name is older than the last save reported done.
NoneNewer == \A n \in Names : card[n].st = "whole" => card[n].data.ver <= clock

Fresh(f) == f.st = "whole" => f.data.ver >= committed

\* CommittedSurvives is not inductive: the old savefile may be deleted because
\* the new one is no older, so the game in memory has to be no older than the
\* last save; that needs the savefile a start loads to be no older, and that
\* the one a failed save restores.
AgeInv ==
    /\ committed <= clock
    /\ NoneNewer
    /\ pc \in InGame => mem.ver <= clock /\ mem.ver >= committed
    /\ card[Panic].st = "whole" => card[Panic].data.ver = 0
    /\ Fresh(card[Cur])
    /\ pc \in Chosen => Fresh(card[OldName])
    /\ CommittedSurvives

LEMMA AgeInit == Init => AgeInv
<1> SUFFICES ASSUME Init PROVE AgeInv
  OBVIOUS
<1>1. PICK save \in {Absent, Whole(Alive(1))},
           panic \in {Absent, Partial, Whole(Alive(0))} :
         /\ card = [n \in Names |-> IF n = Cur THEN save
                                 ELSE IF n = Panic THEN panic ELSE Absent]
         /\ committed = IF save = Absent THEN 0 ELSE 1
  BY DEF Init
<1>2. Alive(0).ver = 0 /\ Alive(1).ver = 1
  BY DEF Alive
<1>3. /\ card[Cur] = save /\ card[Panic] = panic
      /\ \A n \in Names \ {Cur, Panic} : card[n] = Absent
  BY <1>1, NameTypes, NamesDiffer
<1>4. save = Absent => committed = 0
  BY <1>1
<1>5. save # Absent => committed = 1 /\ save = Whole(Alive(1))
  BY <1>1
<1>6. clock = 1 /\ pc = "off"
  BY DEF Init
<1>7. CommittedSurvives
  BY <1>2, <1>3, <1>4, <1>5, NameTypes, FileStates DEF CommittedSurvives
<1>8. NoneNewer
  BY <1>1, <1>2, <1>3, <1>6, FileStates DEF NoneNewer
<1> QED
  BY <1>1, <1>2, <1>3, <1>4, <1>5, <1>6, <1>7, <1>8, FileStates
     DEF AgeInv, InGame, Chosen, Saving, Fresh

\* The steps of a save change neither the game, nor the clock, nor what has been
\* reported, until the report.
LEMMA AgeSave ==
    ASSUME TypeInv, ShapeInv, AgeInv, TypeInv', ShapeInv',
           pc \in Saving, pc' \in Saving,
           mem' = mem, clock' = clock, committed' = committed,
           NoneNewer',
           card'[Panic] = card[Panic],
           Fresh(card'[Cur]),
           pc' \in Chosen => Fresh(card'[OldName']),
           \/ \A n \in Names : card[n].st = "whole" => card'[n] = card[n]
           \/ pc' \in Moving \cup {"delOld", "done"}
           \/ \E n \in Names : card'[n] = Whole(mem)
    PROVE  AgeInv'
<1>1. mem.ver >= committed /\ mem.ver <= clock
  BY DEF AgeInv, InGame
<1>2. CommittedSurvives'
  <2>1. CASE \A n \in Names : card[n].st = "whole" => card'[n] = card[n]
    <3> SUFFICES ASSUME committed > 0
                 PROVE  \E n \in Names : /\ card'[n].st = "whole"
                                         /\ card'[n].data.ver >= committed
      BY DEF CommittedSurvives
    <3>1. PICK n \in Names : card[n].st = "whole" /\ card[n].data.ver >= committed
      BY DEF AgeInv, CommittedSurvives
    <3> QED
      BY <2>1, <3>1
  <2>2. CASE \E n \in Names : card'[n] = Whole(mem)
    BY <2>2, <1>1, FileStates DEF CommittedSurvives
  <2>3. CASE pc' \in Moving
    <3>1. card'[NewName'] = Whole(mem) /\ NewName' \in Names
      BY <2>3, NameTypes DEF ShapeInv, TypeInv, Moving, Chosen, Saving, NewName
    <3> QED
      BY <3>1, <2>2
  <2>4. CASE pc' \in {"delOld", "done"}
    <3>1. card'[Cur] = Whole(mem)
      BY <2>4 DEF ShapeInv
    <3> QED
      BY <3>1, <2>2, NameTypes
  <2> QED
    BY <2>1, <2>2, <2>3, <2>4
<1> QED
  BY <1>1, <1>2 DEF AgeInv, Fresh, InGame

LEMMA AgeStep ==
    TypeInv /\ ShapeInv /\ AgeInv /\ OldNameFree /\ [Next]_vars => AgeInv'
<1> SUFFICES ASSUME TypeInv, ShapeInv, AgeInv, OldNameFree, [Next]_vars
             PROVE  AgeInv'
  OBVIOUS
<1>a. TypeInv' /\ ShapeInv'
  BY TypeStep, ShapeStep
<1>b. /\ clock \in Nat /\ committed \in Nat
      /\ \A n \in Names : card[n].st = "whole" => card[n].data \in Games
      /\ \A g \in Games : g.ver \in Nat
      /\ pc \in InGame => mem \in Games
  BY FileTypes, RecordTypes DEF TypeInv, TypeOK
<1> USE NameTypes, NamesDiffer, FileStates
<1>0. CASE UNCHANGED vars
  BY <1>0 DEF vars, AgeInv, NoneNewer, Fresh, OldName, CommittedSurvives
<1>1. CASE PowerOn \/ PowerLoss \/ BrokenSavefile \/ SaveGame \/ CloseGame
           \/ TryAgain \/ GiveUp \/ Quit \/ PlayAgain \/ SaveFailed
  <2>1. /\ card' = card /\ clock' = clock /\ committed' = committed
        /\ pc' \notin Chosen
        /\ pc' \in InGame => pc \in InGame /\ mem' = mem
    BY <1>1, RecordTypes DEF PowerOn, PowerLoss, BrokenSavefile, SaveGame,
       CloseGame, TryAgain, Begin, GiveUp, Quit, PlayAgain, SaveFailed, Report,
       counters, InGame, Chosen, Saving, TypeInv, TypeOK
  <2> QED
    BY <2>1 DEF AgeInv, NoneNewer, Fresh, CommittedSurvives
<1>2. CASE CheckPanic
  <2>1. /\ card' \in {card, Removed(card, Panic)}
        /\ clock' = clock /\ committed' = committed /\ pc' = "load"
    BY <1>2 DEF CheckPanic
  <2>2. /\ \A n \in Names \ {Panic} : card'[n] = card[n]
        /\ card'[Panic] = card[Panic] \/ card'[Panic] = Absent
    BY <2>1, OtherFiles
  <2>3. CommittedSurvives'
    <3> SUFFICES ASSUME committed > 0
                 PROVE  \E n \in Names : /\ card'[n].st = "whole"
                                         /\ card'[n].data.ver >= committed
      BY <2>1 DEF CommittedSurvives
    <3>1. PICK n \in Names : card[n].st = "whole" /\ card[n].data.ver >= committed
      BY DEF AgeInv, CommittedSurvives
    <3>2. n # Panic
      BY <3>1, <1>b DEF AgeInv
    <3> QED
      BY <3>1, <3>2, <2>2
  <2> QED
    BY <2>1, <2>2, <2>3 DEF AgeInv, NoneNewer, Fresh, InGame, Chosen, Saving
<1>3. CASE Resume
  <2>1. /\ boot.path \in {Cur, Panic} /\ card[boot.path].st = "whole"
        /\ mem' = card[boot.path].data
        /\ committed' = IF boot.path = Panic THEN mem'.ver ELSE committed
        /\ card' = card /\ clock' = clock /\ pc' = "play"
    BY <1>3, RecordTypes DEF Resume, Resumable, counters, TypeInv, TypeOK
  <2>2. committed' <= committed /\ mem'.ver >= committed'
        /\ mem'.ver <= clock /\ committed' \in Nat
    BY <2>1, <1>b DEF AgeInv, NoneNewer, Fresh
  <2>3. /\ Fresh(card[Cur])'
        /\ CommittedSurvives'
    BY <2>1, <2>2, <1>b DEF AgeInv, Fresh, CommittedSurvives
  <2> QED
    BY <2>1, <2>2, <2>3, <1>b DEF AgeInv, NoneNewer, Chosen, Saving
<1>4. CASE Birth \/ Play
  <2>1. /\ mem'.ver = clock + 1 /\ clock' = clock + 1
        /\ card' = card /\ committed' = committed /\ pc' = "play"
    BY <1>4 DEF Birth, Play, Alive
  <2> QED
    BY <2>1, <1>b DEF AgeInv, NoneNewer, Fresh, Chosen, Saving, CommittedSurvives
<1>5. CASE SaveDone
  <2>1. /\ card[Cur] = Whole(mem) /\ pc \in InGame
        /\ committed' = mem.ver /\ mem' = mem /\ card' = card /\ clock' = clock
        /\ pc' \in {"play", "closed"}
    BY <1>5, RecordTypes DEF SaveDone, Report, ShapeInv, counters, InGame,
       Saving, TypeInv, TypeOK
  <2> QED
    BY <2>1, <1>b DEF AgeInv, NoneNewer, Fresh, Chosen, Saving, CommittedSurvives
<1>6. CASE OpenNew \/ WriteNew \/ CloseNew \/ DiscardNew \/ CheckExisting
           \/ ClearOld \/ MoveAside \/ ClearCur \/ MoveIn \/ ClearBack
           \/ MoveBack \/ DeleteOld
  <2>1. /\ pc \in Saving /\ pc' \in Saving
        /\ mem' = mem /\ clock' = clock /\ committed' = committed
    BY <1>6 DEF OpenNew, WriteNew, CloseNew, DiscardNew, CheckExisting,
       ClearOld, MoveAside, ClearCur, MoveIn, ClearBack, MoveBack, DeleteOld,
       Remove, Move, InSave, Saving
  <2>2. mem.ver >= committed /\ mem.ver <= clock
    BY <2>1 DEF AgeInv, InGame
  <2>3. CASE OpenNew
    <3>1. PICK n \in NewTags, o \in OldTags :
             /\ job'.old = o
             /\ \/ ~Exists(card, New(n)) /\ card' = Created(card, New(n))
                \/ card' = card
      BY <2>3 DEF OpenNew
    <3>2. n \in Tags /\ o \in Tags
      BY DEF NewTags, OldTags, Untaken
    <3>3. pc = "open"
      BY <2>3 DEF OpenNew, InSave
    <3>4. card[Old(o)].st = "absent"
      BY <3>2, <3>3 DEF OldTags, Untaken, OldNameFree, Exists
    <3>5. /\ \A m \in Names \ {New(n)} : card'[m] = card[m]
          /\ card'[New(n)] = card[New(n)] \/ card'[New(n)] = Partial
          /\ card[New(n)].st = "whole" => card'[New(n)] = card[New(n)]
      BY <3>1, <3>2, OtherFiles DEF Exists
    <3>6. Fresh(card'[OldName'])
      BY <3>1, <3>2, <3>4, <3>5 DEF OldName, Fresh
    <3>7. NoneNewer' /\ Fresh(card'[Cur]) /\ card'[Panic] = card[Panic]
      BY <2>1, <3>2, <3>5 DEF NoneNewer, AgeInv, Fresh
    <3>8. \A m \in Names : card[m].st = "whole" => card'[m] = card[m]
      BY <3>2, <3>5
    <3> QED
      BY <2>1, <3>6, <3>7, <3>8, <1>a, AgeSave
  <2>4. CASE ~OpenNew
    <3>1. pc \in Chosen /\ job' = job
      BY <2>4, <1>6 DEF WriteNew, CloseNew, DiscardNew, CheckExisting,
         ClearOld, MoveAside, ClearCur, MoveIn, ClearBack, MoveBack, DeleteOld,
         Remove, Move, InSave, Saving, Chosen
    <3>2. /\ NewName \in Names \ {Cur, Panic, OldName}
          /\ OldName \in Names \ {Cur, Panic}
          /\ NewName' = NewName /\ OldName' = OldName
      BY <3>1 DEF TypeInv, NewName, OldName
    <3>3. Fresh(card[OldName]) /\ Fresh(card[Cur]) /\ NoneNewer
      BY <3>1 DEF AgeInv
    <3>4. Fresh(Absent) /\ Fresh(Partial) /\ Fresh(Whole(mem))
      BY <2>2 DEF Fresh
    <3>5. CASE WriteNew \/ CheckExisting
      <4>1. card' = card
        BY <3>5 DEF WriteNew, CheckExisting
      <4> QED
        BY <4>1, <2>1, <3>2, <3>3, <1>a, AgeSave DEF NoneNewer
    <3>6. CASE CloseNew
      <4>1. /\ card[NewName] = Partial
            /\ card' \in {card, Closed(card, NewName, mem)}
        BY <3>6 DEF CloseNew, InSave, ShapeInv
      <4>2. /\ \A n \in Names \ {NewName} : card'[n] = card[n]
            /\ card'[NewName] \in {Partial, Whole(mem)}
        BY <4>1, <3>2, OtherFiles
      <4>3. NoneNewer'
        BY <4>2, <2>1, <2>2, <3>3 DEF NoneNewer
      <4>4. \A n \in Names : card[n].st = "whole" => card'[n] = card[n]
        BY <4>1, <4>2
      <4> QED
        BY <4>2, <4>3, <4>4, <2>1, <3>2, <3>3, <1>a, AgeSave
    <3>7. CASE DiscardNew \/ ClearOld \/ ClearCur \/ ClearBack \/ DeleteOld
      <4>1. PICK n \in {NewName, OldName, Cur} :
               /\ card' \in {card, Removed(card, n)}
               /\ \/ n = NewName /\ pc = "discard"
                  \/ pc' \in Moving \cup {"done"}
        BY <3>7 DEF DiscardNew, ClearOld, ClearCur, ClearBack, DeleteOld,
           Remove, InSave, Moving
      <4>2. /\ \A m \in Names \ {n} : card'[m] = card[m]
            /\ card'[n] \in {card[n], Absent}
        BY <4>1, <3>2, OtherFiles
      <4>3. NoneNewer' /\ card'[Panic] = card[Panic]
        BY <4>1, <4>2, <2>1, <3>2, <3>3 DEF NoneNewer
      <4>4. Fresh(card'[Cur]) /\ Fresh(card'[OldName'])
        BY <4>1, <4>2, <3>2, <3>3, <3>4
      <4>5. \/ \A m \in Names : card[m].st = "whole" => card'[m] = card[m]
            \/ pc' \in Moving \cup {"delOld", "done"}
        BY <4>1, <4>2 DEF ShapeInv
      <4> QED
        BY <4>3, <4>4, <4>5, <2>1, <1>a, AgeSave
    <3>8. CASE MoveAside \/ MoveIn \/ MoveBack
      <4>0. card[NewName] = Whole(mem)
        BY <3>8 DEF MoveAside, MoveIn, MoveBack, Move, InSave, Moving, ShapeInv
      <4>1. CASE card' = card
        BY <4>0, <4>1, <2>1, <3>2, <3>3, <1>a, AgeSave DEF NoneNewer
      <4>2. CASE MoveAside /\ card' = Renamed(card, Cur, OldName)
        <5>1. /\ card'[OldName] = card[Cur] /\ card'[Cur] = Absent
              /\ \A n \in Names \ {OldName, Cur} : card'[n] = card[n]
          BY <4>2, <3>2, OtherFiles
        <5>2. NoneNewer'
          BY <5>1, <2>1, <3>2, <3>3 DEF NoneNewer
        <5> QED
          BY <4>0, <5>1, <5>2, <2>1, <3>2, <3>3, <3>4, <1>a, AgeSave
      <4>3. CASE MoveIn /\ card' = Renamed(card, NewName, Cur)
        <5>1. /\ card'[Cur] = Whole(mem) /\ card'[NewName] = Absent
              /\ \A n \in Names \ {NewName, Cur} : card'[n] = card[n]
          BY <4>0, <4>3, <3>2, OtherFiles
        <5>2. NoneNewer'
          BY <5>1, <2>1, <2>2, <3>2, <3>3 DEF NoneNewer
        <5> QED
          BY <5>1, <5>2, <2>1, <3>2, <3>3, <3>4, <1>a, AgeSave
      <4>4. CASE MoveBack /\ card' = Renamed(card, OldName, Cur)
        <5>1. /\ card'[Cur] = card[OldName] /\ card'[OldName] = Absent
              /\ \A n \in Names \ {OldName, Cur} : card'[n] = card[n]
          BY <4>4, <3>2, OtherFiles
        <5>2. NoneNewer'
          BY <5>1, <2>1, <3>2, <3>3 DEF NoneNewer
        <5> QED
          BY <4>0, <5>1, <5>2, <2>1, <3>2, <3>3, <3>4, <1>a, AgeSave
      <4> QED
        BY <3>8, <4>1, <4>2, <4>3, <4>4 DEF MoveAside, MoveIn, MoveBack, Move
    <3> QED
      BY <2>4, <1>6, <3>5, <3>6, <3>7, <3>8
  <2> QED
    BY <2>3, <2>4
<1> QED
  BY <1>0, <1>1, <1>2, <1>3, <1>4, <1>5, <1>6 DEF Next, SaveStep

\* A game whose save was reported done stays on the card, it or a later one,
\* whatever calls fail and whenever the power goes.
THEOREM CommittedAlwaysSurvives ==
    Spec /\ []OldNameFree => []CommittedSurvives
<1>1. AgeInv => CommittedSurvives
  BY DEF AgeInv
<1> QED
  BY <1>1, TypeInit, TypeStep, ShapeInit, ShapeStep, AgeInit, AgeStep, PTL
     DEF Spec

-----------------------------------------------------------------------------
(* What a save leaves behind when it reports, with the fault count of the  *)
(* model: at most one failure, and none.                                   *)

\* The names savefile_save() works with are distinct names of the card.
LEMMA SaveNames ==
    ASSUME TypeInv, pc \in Chosen
    PROVE  /\ NewName \in Names \ {Cur, Panic, OldName}
           /\ OldName \in Names \ {Cur, Panic}
           /\ Cur \in Names
  BY NameTypes, NamesDiffer DEF TypeInv, NewName, OldName

\* A save keeps its notes from the moment it begins to its report.
LEMMA OutsideSaves ==
    ASSUME TypeInv, [Next]_vars, pc' \in Saving, ~SaveStep
    PROVE  \/ UNCHANGED vars
           \/ /\ pc' = "open" /\ card' = card /\ faults' = faults
              /\ before' = [file |-> card[Cur], strays |-> Strays,
                            faults |-> faults]
<1>1. CASE UNCHANGED vars
  BY <1>1
<1>2. CASE PowerOn \/ PowerLoss \/ CheckPanic \/ Resume \/ Birth
           \/ BrokenSavefile \/ GiveUp \/ Quit \/ PlayAgain
  BY <1>2 DEF PowerOn, PowerLoss, CheckPanic, Resume, Birth, BrokenSavefile,
     GiveUp, Quit, PlayAgain, Saving
<1>3. CASE Play
  BY <1>3 DEF Play, Saving
<1>4. CASE SaveGame \/ CloseGame \/ TryAgain
  BY <1>4 DEF SaveGame, CloseGame, TryAgain, Begin, counters
<1> QED
  BY <1>1, <1>2, <1>3, <1>4 DEF Next

LEMMA InsideSaves ==
    ASSUME TypeInv, SaveStep, pc' \in Saving
    PROVE  /\ pc \in Saving /\ before' = before
           /\ faults' \in {faults, faults + 1}
           /\ ~OpenNew => pc \in Chosen /\ job' = job
  BY RecordTypes DEF SaveStep, OpenNew, WriteNew, CloseNew, DiscardNew,
     CheckExisting, ClearOld, MoveAside, ClearCur, MoveIn, ClearBack, MoveBack,
     DeleteOld, SaveDone, SaveFailed, Report, Remove, Move, InSave, Works,
     Fails, Saving, Chosen, TypeInv, TypeOK

LEMMA FaultTypes ==
    ASSUME TypeInv
    PROVE  before.faults \in Nat /\ faults \in Nat
  BY DEF TypeInv, TypeOK, Befores

-----------------------------------------------------------------------------
(* One failure: the savefile is put back *)

SetAside == card[Cur] = Absent /\ card[OldName] = before.file

OneFailed == before.faults + 1 <= faults
TwoFailed == before.faults + 2 <= faults

\* Where the savefile of the beginning is.  A failing stat() makes the save go
\* past MoveAside, and file_move() then deletes the savefile it did not see;
\* but with the name empty and the ".new" file whole, only a second failure can
\* keep MoveIn from filling it.
Kept ==
    /\ pc \in {"open", "write", "close", "spoilt", "discard", "exists",
               "aside", "asideMv"} => card[Cur] = before.file
    /\ pc = "in" => SetAside \/ OneFailed
    /\ pc = "inMv" => SetAside \/ TwoFailed \/ (OneFailed /\ card[Cur] = Absent)
    /\ pc \in {"back", "backMv"} => TwoFailed \/ (SetAside /\ OneFailed)
    /\ pc = "failed" => TwoFailed \/ card[Cur] = before.file

KeepInv ==
    pc \in Saving => /\ before.faults <= faults
                     /\ before.file.st = "whole" => Kept

LEMMA KeepInit == Init => KeepInv
  BY DEF Init, KeepInv, Saving

LEMMA KeepStep == TypeInv /\ ShapeInv /\ KeepInv /\ [Next]_vars => KeepInv'
<1> SUFFICES ASSUME TypeInv, ShapeInv, KeepInv, [Next]_vars, pc' \in Saving
             PROVE  /\ before'.faults <= faults'
                    /\ before'.file.st = "whole" => Kept'
  BY DEF KeepInv
<1> USE FileStates
<1>1. CASE ~SaveStep
  <2>1. CASE UNCHANGED vars
    BY <2>1 DEF vars, KeepInv, Kept, SetAside, OneFailed, TwoFailed, OldName
  <2>2. CASE /\ pc' = "open" /\ card' = card /\ faults' = faults
             /\ before' = [file |-> card[Cur], strays |-> Strays,
                           faults |-> faults]
    BY <2>2, FaultTypes DEF Kept
  <2> QED
    BY <1>1, <2>1, <2>2, OutsideSaves
<1>2. CASE SaveStep
  <2>1. /\ pc \in Saving /\ before' = before
        /\ before.faults \in Nat /\ faults \in Nat
        /\ before.faults <= faults /\ faults' \in {faults, faults + 1}
    BY <1>2, InsideSaves, FaultTypes DEF KeepInv
  <2> SUFFICES ASSUME before.file.st = "whole" PROVE Kept'
    BY <2>1
  <2>2. Kept
    BY <2>1 DEF KeepInv
  <2>3. /\ OneFailed \/ faults' = faults + 1 => OneFailed'
        /\ TwoFailed \/ (OneFailed /\ faults' = faults + 1) => TwoFailed'
    BY <2>1 DEF OneFailed, TwoFailed
  <2>4. CASE OpenNew
    <3>1. PICK n \in Tags :
             /\ pc = "open" /\ pc' \in {"write", "failed"}
             /\ card' = card \/ card' = Created(card, New(n))
      BY <2>4 DEF OpenNew, NewTags, Untaken, InSave
    <3>2. card'[Cur] = card[Cur]
      BY <3>1, NameTypes, NamesDiffer, OtherFiles
    <3> QED
      BY <2>1, <2>2, <3>1, <3>2 DEF Kept
  <2>5. CASE ~OpenNew
    <3>1. /\ NewName \in Names \ {Cur, Panic, OldName}
          /\ OldName \in Names \ {Cur, Panic} /\ Cur \in Names
          /\ OldName' = OldName
      BY <1>2, <2>5, InsideSaves, SaveNames DEF OldName
    <3>2. CASE WriteNew \/ CheckExisting
      <4>1. CASE WriteNew
        BY <4>1, <2>1, <2>2 DEF WriteNew, InSave, Kept
      <4>2. CASE CheckExisting
        <5>1. /\ pc = "exists" /\ card' = card /\ pc' \in {"aside", "in"}
              /\ pc' = "in" => ~Exists(card, Cur) \/ faults' = faults + 1
          BY <4>2 DEF CheckExisting, InSave, Fails
        <5>2. card[Cur] = before.file /\ Exists(card, Cur)
          BY <5>1, <2>2 DEF Kept, Exists
        <5> QED
          BY <5>1, <5>2, <2>1, <2>3 DEF Kept
      <4> QED
        BY <3>2, <4>1, <4>2
    <3>3. CASE CloseNew
      <4>1. /\ pc \in {"close", "spoilt"} /\ pc' \in {"exists", "discard"}
            /\ card' \in {card, Closed(card, NewName, mem)}
        BY <3>3 DEF CloseNew, InSave
      <4>2. card'[Cur] = card[Cur]
        BY <4>1, <3>1, OtherFiles
      <4> QED
        BY <4>1, <4>2, <2>1, <2>2 DEF Kept
    <3>4. CASE DiscardNew
      <4>1. /\ pc = "discard" /\ pc' = "failed"
            /\ card' \in {card, Removed(card, NewName)}
        BY <3>4 DEF DiscardNew, Remove, InSave
      <4>2. card'[Cur] = card[Cur]
        BY <4>1, <3>1, OtherFiles
      <4> QED
        BY <4>1, <4>2, <2>1, <2>2 DEF Kept
    <3>5. CASE ClearOld
      <4>1. /\ pc = "aside" /\ pc' = "asideMv"
            /\ card' \in {card, Removed(card, OldName)}
        BY <3>5 DEF ClearOld, Remove, InSave
      <4>2. card'[Cur] = card[Cur]
        BY <4>1, <3>1, OtherFiles
      <4> QED
        BY <4>1, <4>2, <2>1, <2>2 DEF Kept
    <3>6. CASE MoveAside
      <4>1. /\ pc = "asideMv"
            /\ \/ pc' = "in" /\ card' = Renamed(card, Cur, OldName)
               \/ pc' = "failed" /\ card' = card
        BY <3>6 DEF MoveAside, Move, InSave
      <4>2. card[Cur] = before.file
        BY <4>1, <2>2 DEF Kept
      <4>3. pc' = "in" => card'[Cur] = Absent /\ card'[OldName] = before.file
        BY <4>1, <4>2, <3>1, OtherFiles
      <4> QED
        BY <4>1, <4>2, <4>3, <2>1, <3>1 DEF Kept, SetAside
    <3>7. CASE ClearCur
      <4>1. /\ pc = "in" /\ pc' = "inMv"
            /\ \/ card' = Removed(card, Cur)
               \/ card' = card /\ faults' = faults + 1
        BY <3>7 DEF ClearCur, Remove, InSave, Fails
      <4>2. SetAside \/ OneFailed
        BY <4>1, <2>2 DEF Kept
      <4>3. /\ card'[OldName] = card[OldName]
            /\ card'[Cur] = Absent \/ (card' = card /\ faults' = faults + 1)
        BY <4>1, <3>1, OtherFiles
      <4> QED
        BY <4>1, <4>2, <4>3, <2>1, <2>3, <3>1 DEF Kept, SetAside
    <3>8. CASE MoveIn
      <4>1. /\ pc = "inMv" /\ pc' \in {"delOld", "back"}
            /\ pc' = "back" => /\ card' = card
                               /\ \/ faults' = faults + 1
                                  \/ ~CanRename(card, NewName, Cur)
        BY <3>8 DEF MoveIn, Move, InSave, Fails
      <4>2. card[NewName] = Whole(mem)
        BY <4>1 DEF ShapeInv, Moving
      <4>3. card[Cur] = Absent => CanRename(card, NewName, Cur)
        BY <4>2 DEF CanRename, Exists
      <4>4. SetAside \/ TwoFailed \/ (OneFailed /\ card[Cur] = Absent)
        BY <4>1, <2>2 DEF Kept
      <4>5. CASE pc' = "back"
        <5>1. \/ TwoFailed'
              \/ SetAside' /\ OneFailed'
          BY <4>1, <4>3, <4>4, <4>5, <2>1, <2>3, <3>1 DEF SetAside
        <5> QED
          BY <4>5, <5>1 DEF Kept
      <4> QED
        BY <4>1, <4>5 DEF Kept
    <3>9. CASE ClearBack
      <4>1. /\ pc = "back" /\ pc' = "backMv"
            /\ card' \in {card, Removed(card, Cur)}
        BY <3>9 DEF ClearBack, Remove, InSave
      <4>2. TwoFailed \/ (SetAside /\ OneFailed)
        BY <4>1, <2>2 DEF Kept
      <4>3. /\ card'[OldName] = card[OldName]
            /\ card'[Cur] = card[Cur] \/ card'[Cur] = Absent
        BY <4>1, <3>1, OtherFiles
      <4> QED
        BY <4>1, <4>2, <4>3, <2>1, <2>3, <3>1 DEF Kept, SetAside
    <3>10. CASE MoveBack
      <4>1. /\ pc = "backMv" /\ pc' = "failed"
            /\ \/ card' = Renamed(card, OldName, Cur)
               \/ faults' = faults + 1
               \/ ~CanRename(card, OldName, Cur)
        BY <3>10 DEF MoveBack, Move, InSave, Fails
      <4>2. TwoFailed \/ (SetAside /\ OneFailed)
        BY <4>1, <2>2 DEF Kept
      <4>3. SetAside => CanRename(card, OldName, Cur)
        BY DEF SetAside, CanRename, Exists
      <4>4. /\ SetAside /\ card' = Renamed(card, OldName, Cur)
            => card'[Cur] = before.file
        BY <3>1, OtherFiles DEF SetAside
      <4>5. TwoFailed' \/ card'[Cur] = before.file
        BY <4>1, <4>2, <4>3, <4>4, <2>3
      <4> QED
        BY <4>1, <4>5, <2>1 DEF Kept
    <3>11. CASE DeleteOld
      BY <3>11 DEF DeleteOld, Remove, InSave, Kept
    <3>12. CASE SaveDone \/ SaveFailed
      BY <3>12, RecordTypes DEF SaveDone, SaveFailed, Report, Saving, TypeInv,
         TypeOK
    <3> QED
      BY <1>2, <2>5, <3>2, <3>3, <3>4, <3>5, <3>6, <3>7, <3>8, <3>9, <3>10,
         <3>11, <3>12 DEF SaveStep
  <2> QED
    BY <2>4, <2>5
<1> QED
  BY <1>1, <1>2

\* If one call fails, a save that reports failure has put the savefile back as
\* it found it.
THEOREM FailedSaveAlwaysKeeps == Spec => []FailedSaveKeepsSave
<1>1. TypeInv /\ KeepInv => FailedSaveKeepsSave
  BY FaultTypes DEF KeepInv, Kept, TwoFailed, FailedSaveKeepsSave, Saving
<1> QED
  BY <1>1, TypeInit, TypeStep, ShapeInit, ShapeStep, KeepInit, KeepStep, PTL
     DEF Spec

-----------------------------------------------------------------------------
(* No failure: nothing is left behind *)

\* What a save in which no call has failed may have on the card beside the
\* strays of the beginning.  That it gets no farther from a full name than
\* file_move() expects is why none of its moves is refused.
Tidy ==
    /\ pc \notin {"spoilt", "discard", "back", "backMv"}
    /\ pc \in {"open", "done", "failed"} => Strays \subseteq before.strays
    /\ pc \in {"write", "close", "exists", "aside", "asideMv"} =>
          Strays \subseteq before.strays \cup {NewName}
    /\ pc \in {"in", "inMv"} =>
          Strays \subseteq before.strays \cup {NewName, OldName}
    /\ pc = "delOld" => Strays \subseteq before.strays \cup {OldName}
    /\ pc \in {"aside", "asideMv"} => Exists(card, Cur)
    /\ pc = "asideMv" => ~Exists(card, OldName)
    /\ pc = "inMv" => ~Exists(card, Cur)

TidyInv ==
    pc \in Saving => /\ before.faults <= faults
                     /\ faults = before.faults => Tidy

LEMMA TidyInit == Init => TidyInv
  BY DEF Init, TidyInv, Saving

LEMMA TidyStep == TypeInv /\ ShapeInv /\ TidyInv /\ [Next]_vars => TidyInv'
<1> SUFFICES ASSUME TypeInv, ShapeInv, TidyInv, [Next]_vars, pc' \in Saving
             PROVE  /\ before'.faults <= faults'
                    /\ faults' = before'.faults => Tidy'
  BY DEF TidyInv
<1> USE FileStates DEF Exists
<1>a. /\ DOMAIN card = Names /\ DOMAIN card' = Names
  BY TypeStep DEF TypeInv, TypeOK
<1>1. CASE ~SaveStep
  <2>1. CASE UNCHANGED vars
    BY <2>1 DEF vars, TidyInv, Tidy, Strays, Present, OldName, NewName
  <2>2. CASE /\ pc' = "open" /\ card' = card /\ faults' = faults
             /\ before' = [file |-> card[Cur], strays |-> Strays,
                           faults |-> faults]
    <3>1. Strays' = Strays
      BY <2>2 DEF Strays, Present
    <3> QED
      BY <2>2, <3>1, FaultTypes DEF Tidy
  <2> QED
    BY <1>1, <2>1, <2>2, OutsideSaves
<1>2. CASE SaveStep
  <2>1. /\ pc \in Saving /\ before' = before
        /\ before.faults \in Nat /\ faults \in Nat
        /\ before.faults <= faults /\ faults' \in {faults, faults + 1}
    BY <1>2, InsideSaves, FaultTypes DEF TidyInv
  <2> SUFFICES ASSUME faults' = before.faults PROVE Tidy'
    BY <2>1
  <2>2. Tidy /\ faults' = faults /\ ~Fails
    BY <2>1 DEF TidyInv, Fails
  <2>3. /\ Strays = {n \in Names \ {Cur, Panic} : Exists(card, n)}
        /\ Strays' = {n \in Names \ {Cur, Panic} : Exists(card', n)}
    BY <1>a DEF Strays, Present
  <2>4. CASE OpenNew
    <3>1. PICK n \in Tags :
             /\ pc = "open" /\ job'.new = n
             /\ \/ pc' = "write" /\ card' = Created(card, New(n))
                \/ pc' = "failed" /\ card' = card
      BY <2>4, <2>2 DEF OpenNew, NewTags, Untaken, InSave
    <3>2. /\ NewName' = New(n) /\ New(n) \in Names
          /\ Strays \subseteq before.strays
      BY <3>1, <2>2, NameTypes DEF NewName, Tidy
    <3>3. CASE pc' = "write"
      <4>1. \A m \in Names \ {New(n)} : card'[m] = card[m]
        BY <3>1, <3>2, <3>3, OtherFiles
      <4>2. Strays' \subseteq Strays \cup {New(n)}
        BY <4>1, <2>3
      <4> QED
        BY <3>2, <3>3, <4>2, <2>1 DEF Tidy
    <3>4. CASE pc' = "failed"
      BY <3>1, <3>2, <3>4, <2>1, <2>3 DEF Tidy
    <3> QED
      BY <3>1, <3>3, <3>4
  <2>5. CASE ~OpenNew
    <3>1. /\ NewName \in Names \ {Cur, Panic, OldName}
          /\ OldName \in Names \ {Cur, Panic} /\ Cur \in Names
          /\ OldName' = OldName /\ NewName' = NewName
      BY <1>2, <2>5, InsideSaves, SaveNames DEF OldName, NewName
    <3>2. CASE WriteNew \/ CheckExisting
      <4>1. /\ card' = card
            /\ \/ pc = "write" /\ pc' = "close"
               \/ pc = "exists" /\ pc' = "aside" /\ Exists(card, Cur)
               \/ pc = "exists" /\ pc' = "in"
        BY <3>2, <2>2 DEF WriteNew, CheckExisting, InSave
      <4>2. Strays' \subseteq before.strays \cup {NewName}
        BY <4>1, <2>2, <2>3 DEF Tidy
      <4> QED
        BY <4>1, <4>2, <2>1, <3>1 DEF Tidy
    <3>3. CASE CloseNew
      <4>1. /\ pc = "close" /\ pc' = "exists"
            /\ card' = Closed(card, NewName, mem)
        BY <3>3, <2>2 DEF CloseNew, InSave, Tidy
      <4>2. \A m \in Names \ {NewName} : card'[m] = card[m]
        BY <4>1, <3>1, OtherFiles
      <4>3. Strays' \subseteq Strays \cup {NewName}
        BY <4>2, <2>3
      <4> QED
        BY <4>1, <4>3, <2>1, <2>2, <3>1 DEF Tidy
    <3>4. CASE DiscardNew \/ ClearBack \/ MoveBack
      BY <3>4, <2>2 DEF DiscardNew, ClearBack, MoveBack, Remove, Move, InSave,
         Tidy
    <3>5. CASE ClearOld
      <4>1. pc = "aside" /\ pc' = "asideMv" /\ card' = Removed(card, OldName)
        BY <3>5, <2>2 DEF ClearOld, Remove, InSave
      <4>2. /\ card'[OldName] = Absent
            /\ \A m \in Names \ {OldName} : card'[m] = card[m]
        BY <4>1, <3>1, OtherFiles
      <4>3. Strays' \subseteq Strays
        BY <4>2, <2>3
      <4> QED
        BY <4>1, <4>2, <4>3, <2>1, <2>2, <3>1 DEF Tidy
    <3>6. CASE MoveAside
      <4>1. CanRename(card, Cur, OldName)
        BY <3>6, <2>2 DEF MoveAside, Move, InSave, Tidy, CanRename
      <4>2. pc = "asideMv" /\ pc' = "in" /\ card' = Renamed(card, Cur, OldName)
        BY <3>6, <2>2, <4>1 DEF MoveAside, Move, InSave
      <4>3. \A m \in Names \ {Cur, OldName} : card'[m] = card[m]
        BY <4>2, <3>1, OtherFiles
      <4>4. Strays' \subseteq Strays \cup {OldName}
        BY <4>3, <2>3
      <4> QED
        BY <4>2, <4>4, <2>1, <2>2, <3>1 DEF Tidy
    <3>7. CASE ClearCur
      <4>1. pc = "in" /\ pc' = "inMv" /\ card' = Removed(card, Cur)
        BY <3>7, <2>2 DEF ClearCur, Remove, InSave
      <4>2. /\ card'[Cur] = Absent
            /\ \A m \in Names \ {Cur} : card'[m] = card[m]
        BY <4>1, <3>1, OtherFiles
      <4>3. Strays' = Strays
        BY <4>2, <2>3
      <4> QED
        BY <4>1, <4>2, <4>3, <2>1, <2>2, <3>1 DEF Tidy
    <3>8. CASE MoveIn
      <4>1. pc = "inMv" /\ card[NewName] = Whole(mem)
        BY <3>8 DEF MoveIn, Move, InSave, ShapeInv, Moving
      <4>2. CanRename(card, NewName, Cur)
        BY <4>1, <2>2 DEF Tidy, CanRename
      <4>3. pc' = "delOld" /\ card' = Renamed(card, NewName, Cur)
        BY <3>8, <2>2, <4>2 DEF MoveIn, Move, InSave
      <4>4. /\ card'[NewName] = Absent
            /\ \A m \in Names \ {NewName, Cur} : card'[m] = card[m]
        BY <4>3, <3>1, OtherFiles
      <4>5. Strays' \subseteq Strays \ {NewName}
        BY <4>4, <2>3
      <4> QED
        BY <4>1, <4>3, <4>5, <2>1, <2>2, <3>1 DEF Tidy
    <3>9. CASE DeleteOld
      <4>1. pc = "delOld" /\ pc' = "done" /\ card' = Removed(card, OldName)
        BY <3>9, <2>2 DEF DeleteOld, Remove, InSave
      <4>2. /\ card'[OldName] = Absent
            /\ \A m \in Names \ {OldName} : card'[m] = card[m]
        BY <4>1, <3>1, OtherFiles
      <4>3. Strays' \subseteq Strays \ {OldName}
        BY <4>2, <2>3
      <4> QED
        BY <4>1, <4>3, <2>1, <2>2 DEF Tidy
    <3>10. CASE SaveDone \/ SaveFailed
      BY <3>10, RecordTypes DEF SaveDone, SaveFailed, Report, Saving, TypeInv,
         TypeOK
    <3> QED
      BY <1>2, <2>5, <3>2, <3>3, <3>4, <3>5, <3>6, <3>7, <3>8, <3>9, <3>10
         DEF SaveStep
  <2> QED
    BY <2>4, <2>5
<1> QED
  BY <1>1, <1>2

\* A save in which no call fails leaves no file behind that was not there
\* before.
THEOREM CleanSaveAlwaysTidy == Spec => []CleanSaveLeavesNoStrays
<1>1. TidyInv => CleanSaveLeavesNoStrays
  BY DEF TidyInv, Tidy, CleanSaveLeavesNoStrays, Saving
<1> QED
  BY <1>1, TypeInit, TypeStep, ShapeInit, ShapeStep, TidyInit, TidyStep, PTL
     DEF Spec

-----------------------------------------------------------------------------
(* SaveFile implements Replace: what a reader sees under the savefile's    *)
(* name, step by step.                                                     *)

\* What the refinement mapping of SaveFile puts for Replace's variables.
slot == card[Cur]
staged == IF pc \in Moving THEN card[NewName] ELSE Absent
kept == {card[Old(t)].data : t \in {u \in Tags : card[Old(u)].st = "whole"}}

\* The steps of Replace, with the mapping carried out.
LEMMA SlotSteps ==
    /\ Slot!vars = <<slot, staged, kept>>
    /\ kept' \subseteq kept /\ slot' = slot =>
          /\ staged' = staged => Slot!Next
          /\ staged' = Absent => Slot!Next
          /\ staged = Absent /\ staged' \in WholeFiles(Games) => Slot!Next
    /\ /\ staged.st = "whole" /\ staged' = staged
       /\ slot.st = "whole" /\ slot' = Absent
       /\ kept' \subseteq kept \cup {slot.data}
       => Slot!Next
    /\ /\ staged.st = "whole" /\ staged' = Absent
       /\ slot = Absent /\ kept' \subseteq kept
       /\ slot' = staged \/ \E c \in kept : slot' = Whole(c)
       => Slot!Next
<1> USE DEF slot, staged, kept, Slot!Next, Slot!Forgetting, Absent, Whole,
        WholeFiles, Slot!Absent, Slot!Whole, Slot!WholeFiles
<1>1. Slot!vars = <<slot, staged, kept>>
  BY DEF Slot!vars
<1>2. kept' \subseteq kept /\ slot' = slot /\ staged' = staged => Slot!Next
  BY DEF Slot!Forget
<1>3. kept' \subseteq kept /\ slot' = slot /\ staged' = Absent => Slot!Next
  BY DEF Slot!Abandon
<1>4. kept' \subseteq kept /\ slot' = slot /\ staged = Absent
        /\ staged' \in WholeFiles(Games) => Slot!Next
  BY DEF Slot!Stage
<1>5. /\ staged.st = "whole" /\ staged' = staged
      /\ slot.st = "whole" /\ slot' = Absent
      /\ kept' \subseteq kept \cup {slot.data}
      => Slot!Next
  BY DEF Slot!Vacate
<1>6. /\ staged.st = "whole" /\ staged' = Absent
      /\ slot = Absent /\ kept' \subseteq kept
      /\ slot' = staged
      => Slot!Next
  BY DEF Slot!Install
<1>7. /\ staged.st = "whole" /\ staged' = Absent
      /\ slot = Absent /\ kept' \subseteq kept
      /\ \E c \in kept : slot' = Whole(c)
      => Slot!Next
  BY DEF Slot!PutBack
<1> QED
  BY <1>1, <1>2, <1>3, <1>4, <1>5, <1>6, <1>7

\* Old contents are kept where the ".old" files are not written.
LEMMA KeptOnes ==
    ASSUME NEW f,
           \A t \in Tags : card'[Old(t)].st = "whole" =>
               \/ card'[Old(t)] = card[Old(t)]
               \/ card'[Old(t)].data = f
    PROVE  kept' \subseteq kept \cup {f}
  BY DEF kept

LEMMA KeptForgets ==
    ASSUME \A t \in Tags : card'[Old(t)].st = "whole" =>
               card'[Old(t)] = card[Old(t)]
    PROVE  kept' \subseteq kept
  BY DEF kept

LEMMA SlotInit == Init => Slot!Init
<1> SUFFICES ASSUME Init PROVE Slot!Init
  OBVIOUS
<1>1. card[Cur] \in {Absent} \cup WholeFiles(Games)
  <2>1. PICK save \in {Absent, Whole(Alive(1))} : card[Cur] = save
    BY NameTypes DEF Init
  <2>2. Alive(1) \in Games
    BY RecordTypes DEF Alive
  <2> QED
    BY <2>1, <2>2 DEF WholeFiles, Whole
<1>2. \A t \in Tags : card[Old(t)] = Absent
  BY NameTypes, NamesDiffer DEF Init
<1>3. pc \notin Moving
  BY DEF Init, Moving
<1>4. {t \in Tags : card[Old(t)].st = "whole"} = {}
  BY <1>2, FileStates
<1> QED
  BY <1>1, <1>3, <1>4 DEF Slot!Init, Slot!Absent, Slot!WholeFiles, Absent,
     WholeFiles

LEMMA SlotStep ==
    TypeInv /\ ShapeInv /\ [Next]_vars => [Slot!Next]_(Slot!vars)
<1> SUFFICES ASSUME TypeInv, ShapeInv, [Next]_vars
             PROVE  [Slot!Next]_(Slot!vars)
  OBVIOUS
<1> USE NameTypes, NamesDiffer, FileStates
<1>0. CASE UNCHANGED vars
  <2>1. slot' = slot /\ staged' = staged /\ kept' = kept
    BY <1>0 DEF vars, slot, staged, kept, NewName
  <2> QED
    BY <2>1, SlotSteps
<1>1. CASE /\ PowerOn \/ PowerLoss \/ Resume \/ Birth \/ BrokenSavefile \/ Play
              \/ SaveGame \/ CloseGame \/ TryAgain \/ GiveUp \/ Quit
              \/ PlayAgain \/ SaveDone \/ SaveFailed
  <2>1. card' = card
    BY <1>1 DEF PowerOn, PowerLoss, Resume, Birth, BrokenSavefile, Play,
       SaveGame, CloseGame, TryAgain, Begin, GiveUp, Quit, PlayAgain, SaveDone,
       SaveFailed, Report
  <2>2. pc' \notin Moving
    BY <1>1, RecordTypes DEF PowerOn, PowerLoss, Resume, Birth, BrokenSavefile,
       Play, SaveGame, CloseGame, TryAgain, Begin, GiveUp, Quit, PlayAgain,
       SaveDone, SaveFailed, Report, Moving, TypeInv, TypeOK
  <2>3. slot' = slot /\ staged' = Absent
    BY <2>1, <2>2 DEF slot, staged
  <2>4. kept' \subseteq kept
    BY <2>1, KeptForgets
  <2> QED
    BY <2>3, <2>4, SlotSteps
<1>2. CASE CheckPanic
  <2>1. card' \in {card, Removed(card, Panic)} /\ pc' = "load"
    BY <1>2 DEF CheckPanic
  <2>2. \A n \in Names \ {Panic} : card'[n] = card[n]
    BY <2>1, OtherFiles
  <2>3. slot' = slot /\ staged' = Absent
    BY <2>1, <2>2 DEF slot, staged, Moving
  <2>4. kept' \subseteq kept
    BY <2>2, KeptForgets
  <2> QED
    BY <2>3, <2>4, SlotSteps
<1>3. CASE OpenNew
  <2>1. PICK n \in Tags :
           /\ pc' \in {"write", "failed"}
           /\ card' = card \/ card' = Created(card, New(n))
    BY <1>3 DEF OpenNew, NewTags, Untaken, InSave
  <2>2. \A m \in Names \ {New(n)} : card'[m] = card[m]
    BY <2>1, OtherFiles
  <2>3. slot' = slot /\ staged' = Absent
    BY <2>1, <2>2 DEF slot, staged, Moving
  <2>4. kept' \subseteq kept
    BY <2>2, KeptForgets
  <2> QED
    BY <2>3, <2>4, SlotSteps
<1>4. CASE WriteNew \/ CloseNew \/ DiscardNew \/ CheckExisting \/ ClearOld
           \/ MoveAside \/ ClearCur \/ MoveIn \/ ClearBack \/ MoveBack
           \/ DeleteOld
  <2>1. pc \in Chosen /\ job' = job
    BY <1>4 DEF WriteNew, CloseNew, DiscardNew, CheckExisting, ClearOld,
       MoveAside, ClearCur, MoveIn, ClearBack, MoveBack, DeleteOld, Remove,
       Move, InSave, Saving, Chosen
  <2>2. /\ NewName \in Names \ {Cur, Panic, OldName}
        /\ OldName \in Names \ {Cur, Panic} /\ Cur \in Names
        /\ NewName' = NewName
        /\ \A t \in Tags : Old(t) \notin {Cur, NewName}
    BY <2>1, SaveNames DEF NewName, TypeInv
  <2>3. pc \in Moving => staged = Whole(mem) /\ staged.st = "whole"
    BY DEF ShapeInv, staged
  <2>4. CASE WriteNew \/ CheckExisting
    <3>1. card' = card /\ (pc \in Moving <=> pc' \in Moving)
      BY <2>4 DEF WriteNew, CheckExisting, InSave, Moving
    <3>2. slot' = slot /\ staged' = staged
      BY <3>1, <2>2 DEF slot, staged
    <3>3. kept' \subseteq kept
      BY <3>1, KeptForgets
    <3> QED
      BY <3>2, <3>3, SlotSteps
  <2>5. CASE CloseNew
    <3>1. /\ pc \notin Moving
          /\ \/ pc' \notin Moving /\ card' = card
             \/ pc' \in Moving /\ card' = Closed(card, NewName, mem)
      BY <2>5 DEF CloseNew, InSave, Moving
    <3>2. /\ \A m \in Names \ {NewName} : card'[m] = card[m]
          /\ pc' \in Moving => card'[NewName] = Whole(mem)
      BY <3>1, <2>2, OtherFiles
    <3>3. mem \in Games
      BY <2>1 DEF TypeInv, TypeOK, InGame, Chosen
    <3>4. /\ slot' = slot /\ staged = Absent
          /\ staged' = Absent \/ staged' \in WholeFiles(Games)
      BY <3>1, <3>2, <3>3, <2>2 DEF slot, staged, WholeFiles, Whole
    <3>5. kept' \subseteq kept
      BY <3>2, <2>2, KeptForgets
    <3> QED
      BY <3>4, <3>5, SlotSteps
  <2>6. CASE DiscardNew \/ ClearOld \/ DeleteOld
    <3>1. PICK n \in {NewName, OldName} :
             /\ card' \in {card, Removed(card, n)}
             /\ \/ pc' \notin Moving
                \/ n = OldName /\ pc \in Moving /\ pc' \in Moving
      BY <2>6 DEF DiscardNew, ClearOld, DeleteOld, Remove, InSave, Moving
    <3>2. /\ \A m \in Names \ {n} : card'[m] = card[m]
          /\ card'[n] \in {card[n], Absent}
      BY <3>1, <2>2, OtherFiles
    <3>3. slot' = slot
      BY <3>2, <2>2 DEF slot
    <3>4. staged' = staged \/ staged' = Absent
      BY <3>1, <3>2, <2>2 DEF staged
    <3>5. kept' \subseteq kept
      BY <3>2, KeptForgets
    <3> QED
      BY <3>3, <3>4, <3>5, SlotSteps
  <2>7. CASE ClearCur \/ ClearBack
    <3>1. /\ card' \in {card, Removed(card, Cur)}
          /\ pc \in Moving /\ pc' \in Moving
      BY <2>7 DEF ClearCur, ClearBack, Remove, InSave, Moving
    <3>2. /\ \A m \in Names \ {Cur} : card'[m] = card[m]
          /\ card'[Cur] \in {card[Cur], Absent}
      BY <3>1, <2>2, OtherFiles
    <3>3. staged' = staged /\ staged.st = "whole"
      BY <3>1, <3>2, <2>2, <2>3 DEF staged
    <3>4. kept' \subseteq kept
      BY <3>2, KeptForgets
    <3>5. slot = Absent \/ slot.st = "whole"
      BY <2>2 DEF slot, ShapeInv, SaveNameWhole, TypeInv, TypeOK, Files,
         WholeFiles
    <3>6. slot' = slot \/ slot' = Absent
      BY <3>2 DEF slot
    <3> QED
      BY <3>3, <3>4, <3>5, <3>6, SlotSteps
  <2>8. CASE MoveAside
    <3>1. /\ pc \in Moving
          /\ \/ card' = card /\ pc' \notin Moving
             \/ /\ card' = Renamed(card, Cur, OldName) /\ pc' \in Moving
                /\ Exists(card, Cur)
      BY <2>8 DEF MoveAside, Move, InSave, Moving, CanRename
    <3>2. CASE card' = card /\ pc' \notin Moving
      <4>1. slot' = slot /\ staged' = Absent
        BY <3>2 DEF slot, staged
      <4>2. kept' \subseteq kept
        BY <3>2, KeptForgets
      <4> QED
        BY <4>1, <4>2, SlotSteps
    <3>3. CASE /\ card' = Renamed(card, Cur, OldName) /\ pc' \in Moving
               /\ Exists(card, Cur)
      <4>1. /\ card'[Cur] = Absent /\ card'[OldName] = card[Cur]
            /\ \A m \in Names \ {Cur, OldName} : card'[m] = card[m]
        BY <3>3, <2>2, OtherFiles
      <4>2. staged' = staged /\ staged.st = "whole"
        BY <3>1, <3>3, <4>1, <2>2, <2>3 DEF staged
      <4>3. slot.st = "whole" /\ slot' = Absent
        BY <3>3, <4>1, <2>2 DEF slot, ShapeInv, SaveNameWhole, TypeInv, TypeOK,
           Files, WholeFiles, Exists
      <4>4. \A t \in Tags : card'[Old(t)].st = "whole" =>
                \/ card'[Old(t)] = card[Old(t)]
                \/ card'[Old(t)].data = slot.data
        BY <4>1 DEF slot
      <4>5. kept' \subseteq kept \cup {slot.data}
        BY <4>4, KeptOnes
      <4> QED
        BY <4>2, <4>3, <4>5, SlotSteps
    <3> QED
      BY <3>1, <3>2, <3>3
  <2>9. CASE MoveIn
    <3>1. /\ pc \in Moving
          /\ \/ card' = card /\ pc' \in Moving
             \/ /\ card' = Renamed(card, NewName, Cur) /\ pc' \notin Moving
                /\ ~Exists(card, Cur)
      BY <2>9 DEF MoveIn, Move, InSave, Moving, CanRename
    <3>2. CASE card' = card /\ pc' \in Moving
      <4>1. slot' = slot /\ staged' = staged
        BY <3>1, <3>2, <2>2 DEF slot, staged
      <4>2. kept' \subseteq kept
        BY <3>2, KeptForgets
      <4> QED
        BY <4>1, <4>2, SlotSteps
    <3>3. CASE /\ card' = Renamed(card, NewName, Cur) /\ pc' \notin Moving
               /\ ~Exists(card, Cur)
      <4>1. /\ card'[Cur] = card[NewName]
            /\ \A m \in Names \ {Cur, NewName} : card'[m] = card[m]
        BY <3>3, <2>2, OtherFiles
      <4>2. /\ staged' = Absent /\ staged.st = "whole"
            /\ slot' = staged
        BY <3>1, <3>3, <4>1, <2>3 DEF staged, slot
      <4>3. slot = Absent
        BY <3>3, <2>2 DEF slot, TypeInv, TypeOK, Files, WholeFiles, Exists
      <4>4. kept' \subseteq kept
        BY <4>1, <2>2, KeptForgets
      <4> QED
        BY <4>2, <4>3, <4>4, SlotSteps
    <3> QED
      BY <3>1, <3>2, <3>3
  <2>10. CASE MoveBack
    <3>1. /\ pc \in Moving /\ pc' \notin Moving
          /\ \/ card' = card
             \/ /\ card' = Renamed(card, OldName, Cur)
                /\ Exists(card, OldName) /\ ~Exists(card, Cur)
      BY <2>10 DEF MoveBack, Move, InSave, Moving, CanRename
    <3>2. CASE card' = card
      <4>1. slot' = slot /\ staged' = Absent
        BY <3>1, <3>2 DEF slot, staged
      <4>2. kept' \subseteq kept
        BY <3>2, KeptForgets
      <4> QED
        BY <4>1, <4>2, SlotSteps
    <3>3. CASE /\ card' = Renamed(card, OldName, Cur)
               /\ Exists(card, OldName) /\ ~Exists(card, Cur)
      <4>1. /\ card'[Cur] = card[OldName] /\ card'[OldName] = Absent
            /\ \A m \in Names \ {Cur, OldName} : card'[m] = card[m]
        BY <3>3, <2>2, OtherFiles
      <4>2. staged' = Absent /\ staged.st = "whole"
        BY <3>1, <2>3 DEF staged
      <4>3. slot = Absent
        BY <3>3, <2>2 DEF slot, TypeInv, TypeOK, Files, WholeFiles, Exists
      <4>4. job.old \in Tags /\ OldName = Old(job.old)
        BY <2>1 DEF TypeInv, OldName
      <4>5. card[OldName].st = "whole" /\ card[OldName] = Whole(card[OldName].data)
        BY <3>3, <4>4, <2>2 DEF ShapeInv, TypeInv, TypeOK, Files, WholeFiles,
           Exists, Whole
      <4>6. \E c \in kept : slot' = Whole(c)
        BY <4>1, <4>4, <4>5 DEF kept, slot
      <4>7. kept' \subseteq kept
        BY <4>1, KeptForgets
      <4> QED
        BY <4>2, <4>3, <4>6, <4>7, SlotSteps
    <3> QED
      BY <3>1, <3>2, <3>3
  <2> QED
    BY <1>4, <2>4, <2>5, <2>6, <2>7, <2>8, <2>9, <2>10
<1> QED
  BY <1>0, <1>1, <1>2, <1>3, <1>4 DEF Next, SaveStep

\* SaveFile implements Replace: under the savefile's name a reader sees a file
\* that is emptied only while a complete successor is on the card, and filled
\* only with that successor or a former savefile.
THEOREM SaveImplementsReplace == Spec => SlotSpec
  BY TypeInit, TypeStep, ShapeInit, ShapeStep, SlotInit, SlotStep, PTL
     DEF Spec, SlotSpec, Slot!Spec
=============================================================================
