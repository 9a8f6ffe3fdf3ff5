------------------------------- MODULE CmdQueue -------------------------------
(***************************************************************************)
(* The command queue of cmd-core.c: a ring of commands, the command that   *)
(* is being repeated, and the last command for CMD_REPEAT, which is a slot *)
(* of the ring for as long as nothing is written over it and a copy of its *)
(* own after that.                                                         *)
(*                                                                         *)
(* A queue is a record; each function of cmd-core.c is an operator from    *)
(* the queue before to the queue after.  The slot of the command that is   *)
(* being carried out is the one before the tail, and stays in the ring.    *)
(***************************************************************************)
EXTENDS Integers, Sequences

CONSTANTS QueueSize,   \* CMD_QUEUE_SIZE
          AutoRepeat,  \* auto_repeat_n of a command that repeats by itself: 99
          MaxCount     \* bound: the count the player may give a command

ASSUME QueueAssumption ==
    /\ QueueSize \in Nat \ {0, 1}
    /\ AutoRepeat \in Nat \ {0}
    /\ MaxCount \in Nat

\* game_cmds[], as far as the game is modelled.  CMD_TUNNEL stands for every
\* command that repeats until it has succeeded: open, tunnel, disarm, alter, ...
Codes == {"CMD_WALK", "CMD_RUN", "CMD_TUNNEL", "CMD_PATHFIND", "CMD_REST",
          "CMD_SLEEP", "CMD_AUTOPICKUP"}
repeat_allowed(code) == code \in {"CMD_WALK", "CMD_RUN", "CMD_TUNNEL"}
auto_repeat_n(code) == IF code = "CMD_TUNNEL" THEN AutoRepeat ELSE 0

\* struct command.  arg is the one argument the model needs: a direction for
\* CMD_RUN (0 goes on with the run there is), the turns for CMD_REST.
CMD_NULL == "CMD_NULL"
Command(code, n, arg) == [code |-> code, nrepeats |-> n, background |-> 0, arg |-> arg]
NoCommand == Command(CMD_NULL, 0, 0)

Slots == 0 .. QueueSize - 1
Ahead(i) == IF i + 1 = QueueSize THEN 0 ELSE i + 1
Behind(i) == (i + QueueSize - 1) % QueueSize      \* prev_cmd_idx()

\* cmd_queue[], cmd_head, cmd_tail, last_command_idx, last_command,
\* repeat_prev_allowed, repeating
EmptyQueue == [slot |-> [i \in Slots |-> NoCommand], head |-> 0, tail |-> 0,
               last |-> -1, copy |-> NoCommand, allowed |-> FALSE, repeating |-> FALSE]

-----------------------------------------------------------------------------
(* Putting in *)

Full(q) == q.head + 1 = q.tail \/ (q.head + 1 = QueueSize /\ q.tail = 0)

Put(q, c) == [q EXCEPT !.slot[q.head] = c, !.head = Ahead(@)]

\* MUTANT of cmdq_push_copy: the last command is written over before it is copied.
cmdq_push_copyOver(q, c) ==
    IF Full(q) THEN q
    ELSE IF q.last = q.head
         THEN [Put(q, c) EXCEPT !.copy = c, !.last = -1]
         ELSE Put(q, c)

\* cmdq_push_copy() of any command but CMD_REPEAT.  No caller in the game looks at
\* the error it returns when the queue is full.
cmdq_push_copy(q, c) ==
    IF Full(q) THEN q
    ELSE IF q.last = q.head
         THEN [Put(q, c) EXCEPT !.copy = q.slot[q.head], !.last = -1]
         ELSE Put(q, c)

\* cmdq_push_copy() of CMD_REPEAT: the last command again, wherever it is.
CanRepeat(q) == q.allowed /\ ~Full(q) /\ (q.last >= 0 \/ q.copy.code # CMD_NULL)
cmdq_push_again(q) ==
    IF ~CanRepeat(q) THEN q
    ELSE IF q.last = q.head THEN [q EXCEPT !.head = Ahead(@)]
    ELSE Put(q, IF q.last >= 0 THEN q.slot[q.last] ELSE q.copy)

\* What callers do to cmdq_peek(), whether or not their command went in.
Background(q, b) == [q EXCEPT !.slot[Behind(q.head)].background = b]
Argument(q, a) == [q EXCEPT !.slot[Behind(q.head)].arg = a]

cmdq_flush(q) == [q EXCEPT !.tail = q.head]

-----------------------------------------------------------------------------
(* Repeating *)

Current(q) == q.slot[Behind(q.tail)]
cmd_get_nrepeats(q) == Current(q).nrepeats

cmd_set_repeat(q, n) ==
    [q EXCEPT !.slot[Behind(q.tail)].nrepeats = n, !.repeating = (n # 0)]

cmd_cancel_repeat(q) ==
    IF Current(q).nrepeats # 0 \/ q.repeating THEN cmd_set_repeat(q, 0) ELSE q

-----------------------------------------------------------------------------
(* Taking out *)

Pending(q) == q.repeating \/ q.head # q.tail

\* MUTANT of Taken: the tail runs off the end of the ring.
TakenBeyond(q) ==
    LET t == IF q.repeating THEN q ELSE [q EXCEPT !.tail = @ + 1]
    IN  IF Current(t).background # 0 THEN t ELSE [t EXCEPT !.last = Behind(t.tail)]

\* cmdq_pop(), up to the call of the command's function: the slot before the new
\* tail is the command, which from here on is the last one unless it came up by
\* itself.
Taken(q) ==
    LET t == IF q.repeating THEN q ELSE [q EXCEPT !.tail = Ahead(@)]
    IN  IF Current(t).background # 0 THEN t ELSE [t EXCEPT !.last = Behind(t.tail)]

\* process_command(), up to the same call.
Started(q) ==
    LET c == Current(q)
        r == IF ~repeat_allowed(c.code)
             THEN cmd_set_repeat(q, 0)
             ELSE IF auto_repeat_n(c.code) > 0 /\ c.nrepeats = 0
             THEN cmd_set_repeat(q, auto_repeat_n(c.code)) ELSE q
    IN  [r EXCEPT !.allowed = TRUE]

\* The end of process_command() for the command in slot i: "If the command hasn't
\* changed nrepeats, count this execution."
Counted(q, i, oldrepeats) ==
    IF q.slot[i].nrepeats > 0 /\ cmd_get_nrepeats(q) = oldrepeats
    THEN cmd_set_repeat(q, oldrepeats - 1) ELSE q

-----------------------------------------------------------------------------
(* The queue as a list: what the ring is for *)

Length(q) == (q.head - q.tail + QueueSize) % QueueSize
AsList(q) == [i \in 1 .. Length(q) |-> q.slot[(q.tail + i - 1) % QueueSize]]
LastCommand(q) == IF q.last >= 0 THEN q.slot[q.last] ELSE q.copy

\* Putting c in leaves everything else: what is carried out, what is repeated.
PutsIn(r, q, c) ==
    /\ AsList(r) = Append(AsList(q), c)
    /\ Current(r) = Current(q)
    /\ LastCommand(r) = LastCommand(q)
=============================================================================
