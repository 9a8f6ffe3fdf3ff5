------------------------------- MODULE Keyboard -------------------------------
(***************************************************************************)
(* The keyboard as the program sees it: the south bridge, which turns      *)
(* fingers into entries of a FIFO (external: its firmware is not part of   *)
(* this repository), and keyboard.c, which reads the entries, keeps a      *)
(* latch per modifier, and queues an event for every other key with the    *)
(* latches as they are at that moment.                                     *)
(*                                                                         *)
(* `board` is all of it.  An entry carries three fields the hardware does  *)
(* not send, for the properties: with, the modifiers that were down when   *)
(* the key went down; old, whether the player was disturbed since and no   *)
(* flush was made that could not reach it; sure, whether no entry of a     *)
(* modifier before it has been lost.                                       *)
(***************************************************************************)
EXTENDS Integers, Sequences, SequencesExt, FiniteSets

CONSTANTS PlainKeys,    \* keys that mean something by themselves
          ModKeys,      \* modifier keys, of "shl", "shr", "ctrl", "alt"
          FifoSize,     \* entries the south bridge has room for
          KbdQueueSize  \* KBD_QUEUE_SIZE: entries per poll; the ring holds one less

ASSUME KeyboardAssumption ==
    /\ ModKeys \subseteq {"shl", "shr", "ctrl", "alt"}
    /\ PlainKeys \cap ModKeys = {}
    /\ FifoSize \in Nat \ {0}
    /\ KbdQueueSize \in Nat \ {0, 1}

Keys == PlainKeys \cup ModKeys

\* mod_shift, mod_ctrl, mod_alt: both Shift keys share a latch.
Latch(k) == IF k \in {"shl", "shr"} THEN "shift" ELSE k
Latches == {Latch(k) : k \in ModKeys}

\* KEY_STATE_PRESSED and KEY_STATE_HOLD are the same to the program.
Entries == [key : Keys, down : BOOLEAN, with : SUBSET Latches, old : BOOLEAN,
            sure : BOOLEAN]
Events == [key : PlainKeys, mods : SUBSET Latches, with : SUBSET Latches,
           old : BOOLEAN, sure : BOOLEAN]

VARIABLE board
    \* held    the modifiers fingers are on
    \* fifo    the entries that wait in the south bridge
    \* mods    the latches that are set
    \* queue   the events keyboard_next() has yet to hand out
    \* doubt   history: the latches whose newest entry the program will not see,
    \*         or whose two keys were down together when one of them went up

KeyboardOK ==
    /\ board.held \subseteq ModKeys
    /\ board.fifo \in Seq(Entries) /\ Len(board.fifo) <= FifoSize
    /\ board.mods \subseteq Latches
    /\ board.queue \in Seq(Events) /\ Len(board.queue) < KbdQueueSize
    /\ board.doubt \subseteq Latches

NoKeys == [held |-> {}, fifo |-> <<>>, mods |-> {}, queue |-> <<>>, doubt |-> {}]

Down(keys) == {Latch(k) : k \in keys \cap ModKeys}

-----------------------------------------------------------------------------
(* The south bridge: a FIFO that forgets what it has no room for. *)

\* Entry e about key k has come up.  It settles the latch of k again, unless it
\* is lost or is the release of one of two keys that share the latch.
Enter(b, e, held) ==
    LET room == Len(b.fifo) < FifoSize
        clear == room /\ (e.down \/ Latch(e.key) \notin Down(held))
    IN  [b EXCEPT !.held = held,
                  !.fifo = IF room THEN Append(@, e) ELSE @,
                  !.doubt = IF e.key \notin ModKeys THEN @
                            ELSE IF clear THEN @ \ {Latch(e.key)}
                            ELSE @ \cup {Latch(e.key)}]

Entry(b, k, down) == [key |-> k, down |-> down, with |-> Down(b.held),
                      old |-> FALSE, sure |-> b.doubt = {}]

\* A key goes down, or is still down and repeats; or goes up.
Press(b, k) == Enter(b, Entry(b, k, TRUE), b.held \cup ({k} \cap ModKeys))
Release(b, k) == Enter(b, Entry(b, k, FALSE), b.held \ {k})

-----------------------------------------------------------------------------
(* keyboard.c *)

\* push(): an event with the latches of this moment, if the ring has room.
push(b, e) ==
    IF Len(b.queue) = KbdQueueSize - 1 THEN b
    ELSE [b EXCEPT !.queue = Append(@, [key |-> e.key, mods |-> b.mods,
                                        with |-> e.with, old |-> e.old,
                                        sure |-> e.sure])]

\* MUTANT of poll_once: the release of a modifier is ignored like any other.
poll_onceSticky(b) ==
    LET e == Head(b.fifo)
        rest == [b EXCEPT !.fifo = Tail(@)]
    IN  IF e.key \in ModKeys
        THEN [rest EXCEPT !.mods = IF e.down THEN @ \cup {Latch(e.key)} ELSE @]
        ELSE IF e.down THEN push(rest, e) ELSE rest

\* poll_once(), when the south bridge has an entry.
poll_once(b) ==
    LET e == Head(b.fifo)
        rest == [b EXCEPT !.fifo = Tail(@)]
    IN  IF e.key \in ModKeys
        THEN [rest EXCEPT !.mods = IF e.down THEN @ \cup {Latch(e.key)}
                                   ELSE @ \ {Latch(e.key)}]
        ELSE IF e.down THEN push(rest, e) ELSE rest

\* The keyboard after the first n entries of the FIFO have been read.
Read(b, n) ==
    LET after[i \in 0 .. n] == IF i = 0 THEN b ELSE poll_once(after[i - 1])
    IN  after[n]

\* An entry the read of which fails after the south bridge has given it up.
Drop(b) ==
    LET e == Head(b.fifo)
        rest == Tail(b.fifo)
    IN  IF e.key \in PlainKeys THEN [b EXCEPT !.fifo = rest]
        ELSE [b EXCEPT !.doubt = @ \cup {Latch(e.key)},
                       !.fifo = [i \in DOMAIN rest |-> [rest[i] EXCEPT !.sure = FALSE]]]

Waiting(b) == Len(b.fifo)
Most(b) == IF Waiting(b) < KbdQueueSize THEN Waiting(b) ELSE KbdQueueSize

\* keyboard_poll(): the FIFO is drained, up to KBD_QUEUE_SIZE entries.
keyboard_poll(b) == Read(b, Most(b))

\* The same when one of the I2C calls fails: sb_read_keyboard() then answers as
\* if the FIFO were empty, and the entry may or may not be gone.
PollsThatFail(b) ==
    {Read(b, n) : n \in 0 .. Most(b) - 1}
        \cup {Drop(Read(b, n)) : n \in 0 .. Most(b) - 1}

\* keyboard_next() until it has no more.
Drained(b) == [b EXCEPT !.queue = <<>>]

\* History: what has been pressed is old once the player is disturbed.
Old(entries) == [i \in DOMAIN entries |-> [entries[i] EXCEPT !.old = TRUE]]
Aged(b) == [b EXCEPT !.fifo = Old(@)]

\* History: what still waits after a flush that could not reach it.
PassedOver(b) == [b EXCEPT !.fifo = [i \in DOMAIN @ |-> [@[i] EXCEPT !.old = FALSE]]]

-----------------------------------------------------------------------------
(* Properties *)

\* The latches are right whenever no entry waits, but for those in doubt; so one
\* press and release of the modifier puts a latch right that lost an entry.
LatchesFollowFingers ==
    board.fifo = <<>> => \A l \in Latches \ board.doubt :
                             l \in board.mods <=> l \in Down(board.held)

=============================================================================
