-------------------------------- MODULE Input --------------------------------
(***************************************************************************)
(* From the fingers to what the player does: the keyboard (Keyboard), the  *)
(* front end's key queue and its delayed flush (main-pico.c, ui-term.c,    *)
(* ui-input.c), the command queue (CmdQueue), and the loop around it:      *)
(* process_player(), disturb(), check_for_player_interrupt(), and the      *)
(* commands that go on for more than a turn by putting the next command    *)
(* into the queue themselves: counted walks, runs, paths, rest, sleep.     *)
(*                                                                         *)
(* What the level holds is open: a step may meet a trap, a wall, a door,   *)
(* and between two turns a monster may disturb the player, paralyse him or *)
(* fetch him.                                                              *)
(***************************************************************************)
EXTENDS Keyboard, CmdQueue

CONSTANTS MaxRun,      \* bound: steps of a run (9999) or of a path
          MaxRest,     \* the turns of a rest that is counted
          MaxSleep,    \* bound: turns of paralysis
          Bounds       \* bounds: [mods, faults, commands, waiting, codes], see `left`

ASSUME InputAssumption ==
    /\ MaxRun \in Nat \ {0} /\ MaxRest \in Nat \ {0, 1} /\ MaxSleep \in Nat \ {0}
    /\ Bounds \subseteq [mods : Nat, faults : Nat, commands : Nat, waiting : Nat,
                         codes : SUBSET Codes]

VARIABLES
    term,     \* Term->key_queue and inkey_xtra
    queue,    \* the command queue, see CmdQueue
    up,       \* running, steps (is there a path), resting and player_rest_disturb,
              \* the repeat count of rest, and timed[TMD_PARALYZED]
    pc,       \* where process_player() and the loop around it are
    left,     \* bounds: modifier keys, I2C calls that fail and commands to come;
              \* how many entries fingers let wait in the FIFO; what the player orders
    history   \* see NoHistory

vars == <<board, term, queue, up, pc, left, history>>

Special == -1      \* REST_ALL_POINTS and the other conditions for a rest
Idle == [running |-> 0, steps |-> FALSE, resting |-> 0, restDisturb |-> FALSE,
         restCount |-> 0, paralyzed |-> 0]

\* cut: disturbed since the player last gave a command, and it was begun.  given:
\* what he ordered waits, and is yet to be begun.  last: code and argument
\* of the last command that was not a side effect.  behind: a path waits behind a
\* door or rubble.  stuck: a run's next step was not put in: it came to
\* stand in a web, or the queue was full.  twice: the command
\* that begins a run is repeated (against a known door, or with a count and out of a
\* web) and puts in a further step every time.
NoHistory == [cut |-> FALSE, given |-> FALSE, last |-> <<CMD_NULL, 0>>, behind |-> FALSE,
              stuck |-> FALSE, twice |-> FALSE]

Larger(a, b) == IF a > b THEN a ELSE b
MostRepeats == Larger(MaxCount, AutoRepeat)

TypeOK ==
    /\ KeyboardOK
    /\ term.keys \in Seq(Events) /\ term.inkey_xtra \in BOOLEAN
    /\ queue.head \in Slots /\ queue.tail \in Slots /\ queue.last \in Slots \cup {-1}
    /\ \A c \in {queue.slot[i] : i \in Slots} \cup {queue.copy} :
          /\ c.code \in Codes \cup {CMD_NULL}
          /\ c.nrepeats \in 0 .. MostRepeats
          /\ c.background \in 0 .. 2 /\ c.arg \in Special .. MaxRest
    /\ up.running \in 0 .. Larger(MaxRun, MostRepeats)
    /\ up.resting \in Special .. MaxRest /\ up.paralyzed \in 0 .. MaxSleep
    /\ pc \in {"turn", "pop", "prompt", "world"}

Init ==
    /\ board = NoKeys /\ term = [keys |-> <<>>, inkey_xtra |-> FALSE]
    /\ queue = EmptyQueue /\ up = Idle /\ pc = "prompt"
    /\ left \in Bounds /\ history = NoHistory

-----------------------------------------------------------------------------
(* The game as one value, for what several of its parts change together *)

Game == [board |-> board, term |-> term, queue |-> queue, up |-> up, history |-> history]
Becomes(g) ==
    /\ board' = g.board /\ term' = g.term /\ queue' = g.queue
    /\ up' = g.up /\ history' = g.history

OnQueue(g, q) == [g EXCEPT !.queue = q]
Push(g, code, arg) == OnQueue(g, cmdq_push_copy(g.queue, Command(code, 0, arg)))
SideEffect(g, b) == OnQueue(g, Background(g.queue, b))
Flush(g) == [g EXCEPT !.queue = cmdq_flush(@), !.history.given = FALSE]

player_is_resting(u) == u.resting # 0

Stopped(u) ==
    [u EXCEPT !.resting = 0, !.running = 0, !.steps = @ /\ u.running = 0,
              !.restDisturb = @ \/ player_is_resting(u)]

\* The repeats, the rest and the run are cancelled; only a run has its commands
\* flushed.
Quietened(g) ==
    LET cancelled == cmd_cancel_repeat(g.queue)
        ran == g.up.running > 0
    IN  [g EXCEPT !.queue = IF ran THEN cmdq_flush(cancelled) ELSE cancelled,
                  !.up = Stopped(@), !.history.given = @ /\ ~ran]

\* disturb(), which asks for the keys to be flushed when next one is wanted.
Disturb(g) ==
    [Quietened(g) EXCEPT !.term = [keys |-> Old(@.keys), inkey_xtra |-> TRUE],
                         !.board = Aged(@),
                         !.history.cut = TRUE, !.history.stuck = FALSE]

-----------------------------------------------------------------------------
(* Fingers, and the keys on their way *)

Fingers ==
    /\ Waiting(board) < left.waiting
    /\ \E k \in Keys :
          /\ k \in ModKeys => left.mods > 0
          /\ \/ board' = Press(board, k)
             \/ k \in board.held \cup PlainKeys /\ board' = Release(board, k)
          /\ left' = IF k \in ModKeys THEN [left EXCEPT !.mods = @ - 1] ELSE left
    /\ UNCHANGED <<term, queue, up, pc, history>>

\* A poll of the keyboard, which one failing I2C call may cut short.
Polls(b) ==
    \/ b = keyboard_poll(board) /\ UNCHANGED left
    \/ /\ left.faults > 0 /\ left' = [left EXCEPT !.faults = @ - 1]
       /\ b \in PollsThatFail(board)

\* The boards a poll may leave.
AfterPoll == {keyboard_poll(board)} \cup PollsThatFail(board)

\* TERM_XTRA_EVENT: what a poll brings goes into the term's queue.
check_events(g, b) == [g EXCEPT !.board = Drained(b), !.term.keys = @ \o b.queue]

\* The delayed flush of the keyboard: one poll, thrown away.  (History: it cannot
\* reach what waits behind as many entries as one poll reads, or behind an I2C call
\* that fails.)
FlushedBoard(g, b) ==
    IF Waiting(g.board) <= KbdQueueSize /\ b = keyboard_poll(g.board)
    THEN Drained(b) ELSE PassedOver(Drained(b))

\* MUTANT of Term_flush: a failing I2C call ends the flush.
Term_flushGivesUp(g, b) ==
    [g EXCEPT !.board = FlushedBoard(g, b),
              !.term = [keys |-> IF b = keyboard_poll(g.board) THEN <<>> ELSE @.keys,
                        inkey_xtra |-> FALSE]]

\* With it go the keys the term has.
Term_flush(g, b) ==
    [g EXCEPT !.board = FlushedBoard(g, b),
              !.term = [keys |-> <<>>, inkey_xtra |-> FALSE]]

\* check_for_player_interrupt() looks for a key: while the player runs or repeats,
\* and every 128th turn while he rests.
Interruptible == up.running > 0 \/ cmd_get_nrepeats(queue) > 0 \/ player_is_resting(up)
MustCheck == up.running > 0 \/ cmd_get_nrepeats(queue) > 0

WantsKey == pc = "prompt" \/ (pc = "turn" /\ Interruptible)

FlushInput ==
    /\ WantsKey /\ term.inkey_xtra
    /\ \E b \in AfterPoll : Polls(b) /\ Becomes(Term_flush(Game, b))
    /\ UNCHANGED pc

-----------------------------------------------------------------------------
(* The start of process_player() *)

\* player_resting_complete_special(): the rest has done what it was for.
RestComplete ==
    /\ pc = "turn" /\ up.resting = Special
    /\ Becomes(Disturb(Game))
    /\ UNCHANGED <<pc, left>>

\* A key stops it all, and is not a command.
Interrupt ==
    /\ pc = "turn" /\ Interruptible /\ ~term.inkey_xtra
    /\ \E b \in AfterPoll :
          /\ Polls(b)
          /\ LET g == check_events(Game, b)
             IN  Becomes(IF g.term.keys = <<>> THEN g
                         ELSE Disturb([g EXCEPT !.term.keys = Tail(@)]))
    /\ pc' = "pop"

NoCheck ==
    /\ pc = "turn" /\ ~MustCheck
    /\ pc' = "pop"
    /\ UNCHANGED <<board, term, queue, up, left, history>>

-----------------------------------------------------------------------------
(* The commands.  Each is the set of games it may lead to, with whether it *)
(* took a turn. *)

Result(g, energy) == [game |-> g, energy |-> energy]
Free(g) == Result(g, FALSE)
Turn(g) == Result(g, TRUE)

SetRepeat(g, n) == OnQueue(g, cmd_set_repeat(g.queue, n))
PushWith(g, code, arg) ==
    OnQueue(g, Argument(cmdq_push_copy(g.queue, Command(code, 0, 0)), arg))

Paralyze(g) == [Disturb(g) EXCEPT !.up.paralyzed = IF @ = 0 THEN MaxSleep ELSE @]

\* hit_trap(): it disturbs, and may paralyse, or drop the player into its pit.
TrapHits(g) == {Disturb(g), Paralyze(g), Flush(Disturb(g))}

\* A step, onto a trap or not, and the look at what lies there that follows it.
Steps(g) == {SideEffect(Push(m, "CMD_AUTOPICKUP", 0), 2) : m \in {g} \cup TrapHits(g)}

\* do_cmd_alter_aux() on a known door or trap in the way, which repeats.
Alter(g) ==
    LET r == IF cmd_get_nrepeats(g.queue) = 0 THEN SetRepeat(g, AutoRepeat) ELSE g
    IN  {Turn(r), Turn(Disturb(r))}

\* move_player(): a step, something in the way, or the edge of what is known to
\* be safe.
move_player(g) ==
    {Turn(m) : m \in Steps(g)} \cup {Turn(Disturb(g)), Free(Disturb(g))}

Walk(g) ==
    {Free(g), Turn(g)}      \* will not, or clears a web
        \cup move_player(g) \cup Alter(g)

\* do_cmd_tunnel() and those like it.
Work(g) == {Turn(g), Turn(Disturb(g)), Free(Disturb(g))}

\* MUTANT of Onward: the path is not given up with the last step.
OnwardKeeps(g) ==
    LET u == [g.up EXCEPT !.running = IF @ > 0 THEN @ - 1 ELSE @]
        next == PushWith([g EXCEPT !.up = u, !.history.stuck = @ \/ Full(g.queue)],
                         "CMD_RUN", 0)
    IN  IF g.up.running = 0 /\ ~g.up.steps THEN g
        ELSE IF u.running > 0 THEN IF u.steps THEN SideEffect(next, 1) ELSE next
        ELSE [g EXCEPT !.up = u]

\* The end of run_step(): the next step is another command.
Onward(g) ==
    LET u == [g.up EXCEPT !.running = IF @ > 0 THEN @ - 1 ELSE @]
        next == PushWith([g EXCEPT !.up = u, !.history.stuck = @ \/ Full(g.queue)],
                         "CMD_RUN", 0)
    IN  IF g.up.running = 0 /\ ~g.up.steps THEN g
        ELSE IF u.running > 0 THEN IF u.steps THEN SideEffect(next, 1) ELSE next
        ELSE [g EXCEPT !.up = [u EXCEPT !.steps = FALSE]]

\* The part of run_step() that moves; a player who will not walk into fire stops.
RunMove(g, moves) ==
    {[m EXCEPT !.game = Onward(@)] :
        m \in moves \cup {Free([g EXCEPT !.up.running = 0])}}

\* "first stop running before pushing the commands to deal with the terrain and
\* restart pathfinding"
Clear(g) ==
    LET open == SideEffect(Push(Disturb(g), "CMD_TUNNEL", 0), 1)
    IN  [Push(open, "CMD_PATHFIND", 0) EXCEPT !.history.behind = TRUE,
                                              !.history.cut = FALSE]

\* run_step(0): the run or the path goes on, if nothing speaks against it.  A path
\* that would end in a wall turns into a run.  Left out is that move_player()
\* may alter a door here (cmd-cave.c:1079): runs and paths look out for doors the player
\* remembers, so it would be one that was made unseen where he remembers a floor.
RunOn(g) ==
    LET straight == [g EXCEPT !.up.steps = FALSE]
    IN  {Free(Disturb(g))} \cup RunMove(g, move_player(g))
        \cup IF g.up.steps
             THEN {Free(Clear(g))} \cup RunMove(straight, move_player(straight))
             ELSE {}

\* do_cmd_run() with a direction: the count becomes the length of the run.
RunFrom(g) ==
    LET i == Behind(g.queue.tail)
        n == g.queue.slot[i].nrepeats
        start == [g EXCEPT !.queue.slot[i].nrepeats = 0,
                           !.history.twice = @ \/ g.queue.repeating,
                           !.up.running = IF n > 0 THEN n ELSE MaxRun]
    IN  {Free(g), Free(Disturb(g))}
            \cup RunMove(start, move_player(start)
                                    \cup Alter([start EXCEPT !.history.twice = TRUE]))

\* A web is cleared first, and takes the turn without the next step being put in.
Run(g, dir) ==
    {Turn([g EXCEPT !.history.stuck = g.up.running > 0])}
        \cup IF dir = 0 THEN RunOn(g) ELSE RunFrom(g)

\* do_cmd_pathfind(), as built without assertions; do_cmd_explore() and
\* do_cmd_navigate_*() end like it.
Pathfind(g) ==
    {Free(g), Free([g EXCEPT !.up.steps = FALSE])}
        \cup RunOn([g EXCEPT !.up.steps = TRUE, !.up.running = MaxRun])

\* MUTANT of player_resting_set_count: a rest is not kept from going on.
player_resting_set_countAnyway(u, n) == [u EXCEPT !.resting = n, !.restDisturb = FALSE]

player_resting_set_count(u, n) ==
    IF u.restDisturb THEN [u EXCEPT !.resting = 0, !.restDisturb = FALSE]
    ELSE [u EXCEPT !.resting = n]

\* do_cmd_rest() for n turns: one of them, and the rest of the rest into the queue.
Rest(g, n) ==
    LET fresh == ~player_is_resting(g.up)
        turns == IF fresh /\ n = 1 THEN g.up.restCount ELSE n
        u == player_resting_set_count(
                 [g.up EXCEPT !.restCount = IF fresh /\ n > 1 THEN n ELSE @], turns)
        rested == [g EXCEPT !.up = [u EXCEPT !.resting = IF @ > 0 THEN @ - 1 ELSE @]]
    IN  IF u.resting = 0 THEN {Free([g EXCEPT !.up = u])}
        ELSE IF u.resting = Special
        THEN {Turn([PushWith(rested, "CMD_REST", turns) EXCEPT !.up.restCount = 0])}
        ELSE IF u.resting > 1 THEN {Turn(PushWith(rested, "CMD_REST", turns - 1))}
        ELSE {Turn(rested)}

Does(g, c) ==
    CASE c.code = "CMD_WALK" -> Walk(g)
      [] c.code = "CMD_RUN" -> Run(g, c.arg)
      [] c.code = "CMD_TUNNEL" -> Work(g)
      [] c.code = "CMD_PATHFIND" -> Pathfind(g)
      [] c.code = "CMD_REST" -> Rest(g, c.arg)
      [] c.code = "CMD_AUTOPICKUP" -> {Free(g), Turn(g)}
      [] c.code = "CMD_SLEEP" -> {Turn(g)}

-----------------------------------------------------------------------------
(* The loop of process_player() *)

\* "Paralyzed or Knocked Out player gets no turn": a sleep is put in, behind what
\* is there.
Ready == IF up.paralyzed > 0 THEN Push(Game, "CMD_SLEEP", 0) ELSE Game

\* History: what a command means once it is begun.
Begun(h, c) ==
    LET anew == c.code = "CMD_PATHFIND" /\ h.behind
    IN  [h EXCEPT !.last = IF c.background = 0 THEN <<c.code, c.arg>> ELSE @,
                  !.behind = @ /\ ~anew, !.given = FALSE,
                  !.cut = @ /\ ~anew /\ ~h.given]

\* The next command is carried out, and counted; or the player, out of bloodlust,
\* attacks instead.
Perform ==
    /\ pc = "pop" /\ Pending(Ready.queue)
    /\ LET q == Taken(Ready.queue)
           i == Behind(q.tail)
           c == q.slot[i]
           begun == [Ready EXCEPT !.queue = Started(q), !.history = Begun(@, c)]
       IN  \/ \E r \in Does(begun, c) :
                 /\ Becomes(OnQueue(r.game, Counted(r.game.queue, i, c.nrepeats)))
                 /\ pc' = IF r.energy THEN "world" ELSE "pop"
           \/ c.background < 2 /\ Becomes(Disturb(begun)) /\ pc' = "world"
    /\ UNCHANGED left

Exhausted ==
    /\ pc = "pop" /\ ~Pending(Ready.queue)
    /\ pc' = "prompt"
    /\ UNCHANGED <<board, term, queue, up, left, history>>

-----------------------------------------------------------------------------
(* textui_process_command(): the player is asked *)

Ask ==
    /\ pc = "prompt" /\ ~term.inkey_xtra /\ term.keys = <<>>
    /\ \E b \in AfterPoll : Polls(b) /\ Becomes(check_events(Game, b))
    /\ UNCHANGED pc

PlayerCommands ==
    {Command(code, n, 1) : code \in {"CMD_WALK", "CMD_RUN"}, n \in {0, MaxCount}}
        \cup {Command("CMD_TUNNEL", 0, 0), Command("CMD_PATHFIND", 0, 0)}
        \cup {Command("CMD_REST", 0, n) : n \in {Special, MaxRest}}

\* A key becomes a command, the last command again, or none.
Answer ==
    /\ pc = "prompt" /\ ~term.inkey_xtra /\ term.keys # <<>>
    /\ left.commands > 0 /\ left' = [left EXCEPT !.commands = @ - 1]
    /\ \E q \in {cmdq_push_copy(queue, c) : c \in {c \in PlayerCommands : c.code \in left.codes}}
                 \cup {cmdq_push_again(queue)} :
          Becomes([Game EXCEPT !.term.keys = Tail(@), !.queue = q,
                               !.history.cut = FALSE, !.history.behind = FALSE,
                               !.history.given = Pending(q),
                               !.history.twice = @ /\ up.running > 0])
    /\ pc' = "turn"

-----------------------------------------------------------------------------
(* Monsters and time, between two turns of the player *)

Monster ==
    /\ pc = "world"
    /\ Becomes(Disturb(Game)) \/ Becomes(Flush(Disturb(Game))) \/ Becomes(Paralyze(Game))
    /\ UNCHANGED <<pc, left>>

Time ==
    /\ pc = "world" /\ pc' = "turn"
    /\ \/ UNCHANGED <<board, term, queue, up, history>>
       \/ /\ up.paralyzed > 0
          /\ LET g == [Game EXCEPT !.up.paralyzed = @ - 1]
             IN  Becomes(IF g.up.paralyzed = 0 THEN Disturb(g) ELSE g)
    /\ UNCHANGED left

Next ==
    \/ Fingers \/ FlushInput \/ RestComplete \/ Interrupt \/ NoCheck
    \/ Perform \/ Exhausted \/ Ask \/ Answer \/ Monster \/ Time

Spec == Init /\ [][Next]_vars

-----------------------------------------------------------------------------
(* Properties *)

Waits(code) == {c \in ToSet(AsList(queue)) : c.code = code}

\* The ring behaves like a list, full, empty and wrapped round: a command that is
\* put in comes last, and neither it nor CMD_REPEAT touches the command that is
\* being repeated; and CMD_REPEAT brings back the last command that was not a side
\* effect of another, even when its slot has been written over since.
QueueKeepsOrder ==
    /\ Full(queue) <=> Length(queue) = QueueSize - 1
    /\ ~Full(queue) =>
          LET c == Command("CMD_WALK", 0, 1)
          IN  PutsIn(cmdq_push_copy(queue, c), queue, c)
    /\ CanRepeat(queue) =>
          LET again == LastCommand(queue)
          IN  /\ PutsIn(cmdq_push_again(queue), queue, again)
              /\ <<again.code, again.arg>> = history.last /\ again.background = 0

\* "All disturbance cancels repeated commands, resting, and running"
\* (player-util.c:1640): from a disturbance until the player's next command nothing
\* goes on by itself, and a rest that still has a command in the queue will not.
\* (What the player has ordered and is not begun yet is not called off, unless he
\* runs: a count left in the slot before the tail lets a key disturb him between the
\* two.  The path behind a door or rubble begins anew, disturbed or not: Begun.  A run
\* that is begun twice may leave a step behind: history.twice.)
DisturbanceEndsAll ==
    history.cut /\ ~history.given =>
        /\ ~queue.repeating
        /\ up.running = 0 /\ (Waits("CMD_RUN") # {} => history.twice)
        /\ up.resting = 0 /\ (Waits("CMD_REST") # {} => up.restDisturb)

\* Between two commands a run or a path that is under way has its next step in the
\* queue, and there is no path without a run; so no second path is found while the
\* first is kept (assert(!player->upkeep->steps), cmd-cave.c:1559).  A web breaks
\* this, a full queue, and a run that is begun twice.
RunHasItsNextStep ==
    ~(history.stuck \/ history.twice) =>
        /\ up.running > 0 => Waits("CMD_RUN") # {}
        /\ pc = "world" /\ (\E c \in Waits("CMD_RUN") : c.arg = 0) => up.running > 0
        /\ up.steps => up.running > 0

\* A key carries the modifiers that were held when it was pressed, however late it
\* is read, and the latches follow the fingers, until an entry of a modifier is
\* lost or two Shift keys are held at once.
KeysKeepTheirModifiers ==
    /\ LatchesFollowFingers
    /\ \A e \in ToSet(board.queue \o term.keys) : e.sure => e.mods = e.with

\* What was typed before a disturbance is never taken as a command after it, from
\* whichever of the three places it waited in; unless the one poll of the flush left
\* it in the south bridge because more waited there than a poll reads, or because an
\* I2C call failed.  Even then the flush takes all that is on this side of the bus.
FlushedKeysStayGone ==
    [][Answer => ~Head(term.keys).old]_vars
=============================================================================
