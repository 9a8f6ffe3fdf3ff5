------------------------------- MODULE InputMC -------------------------------
(***************************************************************************)
(* Input for TLC.  The keyboard and the commands are explored in six       *)
(* directions from the same specification, chosen by Init: many modifiers, *)
(* a failing I2C call among modifiers, the same while the player rests,    *)
(* more keys than one poll reads, any two commands with few keys, and      *)
(* three runs.                                                             *)
(***************************************************************************)
EXTENDS Input

MCBounds ==
    {[mods |-> 4, faults |-> 0, commands |-> 0, waiting |-> FifoSize + 1, codes |-> {}],
     [mods |-> 2, faults |-> 1, commands |-> 0, waiting |-> FifoSize + 1, codes |-> {}],
     [mods |-> 0, faults |-> 1, commands |-> 2, waiting |-> 2, codes |-> {"CMD_REST"}],
     [mods |-> 0, faults |-> 1, commands |-> 2, waiting |-> 4, codes |-> {"CMD_TUNNEL"}],
     [mods |-> 0, faults |-> 0, commands |-> 2, waiting |-> 1, codes |-> Codes],
     [mods |-> 0, faults |-> 0, commands |-> 3, waiting |-> 1, codes |-> {"CMD_RUN"}]}

\* A slot that is neither pending nor current nor the last command nor the newest
\* is written before it is read again; and so is the copy of the last command while
\* the last command is in a slot.
Seen == {i \in Slots : \/ i \in {Behind(queue.tail), Behind(queue.head), queue.last}
                       \/ \E k \in 1 .. Length(queue) : i = (queue.tail + k - 1) % QueueSize}
View == <<board, term, [queue EXCEPT !.slot = [i \in Slots |->
                            IF i \in Seen THEN queue.slot[i] ELSE NoCommand],
                         !.copy = IF queue.last >= 0 THEN NoCommand ELSE @],
          up, pc, left, history>>
=============================================================================
