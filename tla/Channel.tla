------------------------------ MODULE Channel ------------------------------
(***************************************************************************)
(* The receiving half of one rudp::Channel: the list of reliable commands  *)
(* that arrived ahead of their turn and the sequence number up to which    *)
(* commands were handed over.                                              *)
(*                                                                         *)
(* A channel is a record                                                   *)
(*   incoming   incoming_reliable_sequence_number_, a uint16_t             *)
(*   commands   incoming_reliable_commands_, a std::list                   *)
(* and a queued command is a record                                        *)
(*   rsn        reliable_sequence_number_                                  *)
(*   count      fragment_count_, 0 for a command that is not a fragment    *)
(*   received   the fragment numbers whose bit is set in fragments_        *)
(*   payload    the payloads copied into the segment, oldest first         *)
(*   length     the data length of the segment                             *)
(*                                                                         *)
(* The operators are relations between a channel and a position in its     *)
(* list, so that a module that uses them can be proved about.  Sequence    *)
(* numbers are uint16_t in the code: 16 windows of 0x1000 numbers; here    *)
(* they wrap at the number of windows times their size.                    *)
(***************************************************************************)
EXTENDS Integers, Sequences, FiniteSets, SequencesExt

CONSTANTS
    PEER_RELIABLE_WINDOWS,       \* 16 in the code
    PEER_RELIABLE_WINDOW_SIZE,   \* 0x1000 in the code
    PEER_FREE_RELIABLE_WINDOWS   \* 8 in the code

ASSUME WindowAssumption ==
    /\ PEER_RELIABLE_WINDOWS \in Nat \ {0}
    /\ PEER_RELIABLE_WINDOW_SIZE \in Nat \ {0}
    /\ PEER_FREE_RELIABLE_WINDOWS \in 1..PEER_RELIABLE_WINDOWS

SEQUENCE_NUMBERS == PEER_RELIABLE_WINDOWS * PEER_RELIABLE_WINDOW_SIZE

EmptyChannel == [incoming |-> 0, commands |-> <<>>]

-----------------------------------------------------------------------------
(* Windows.                                                                *)

Window(rsn) == rsn \div PEER_RELIABLE_WINDOW_SIZE

\* The window of a number that is behind the channel counts as one that
\* comes after the wrap.
WindowFrom(ch, rsn) ==
    IF rsn < ch.incoming THEN Window(rsn) + PEER_RELIABLE_WINDOWS
                         ELSE Window(rsn)

\* Mutant of OutsideWindow: one free window fewer.
OutsideNarrowWindow(ch, rsn) ==
    LET current == Window(ch.incoming)
    IN  \/ WindowFrom(ch, rsn) < current
        \/ WindowFrom(ch, rsn) >= current + PEER_FREE_RELIABLE_WINDOWS - 2

OutsideWindow(ch, rsn) ==
    LET current == Window(ch.incoming)
    IN  \/ WindowFrom(ch, rsn) < current
        \/ WindowFrom(ch, rsn) >= current + PEER_FREE_RELIABLE_WINDOWS - 1

-----------------------------------------------------------------------------
(* QueueIncomingCommand: the walk from the back of the list.               *)

\* The walk ends at the i-th command: the new one belongs after it, or is
\* the same one.
StopsAt(ch, rsn, i) ==
    LET there == ch.commands[i].rsn
    IN  IF rsn >= ch.incoming
        THEN there >= ch.incoming /\ there <= rsn
        ELSE there >= ch.incoming \/ there <= rsn

\* The walk from the back reaches position p and ends there.
WalkEndsAt(ch, rsn, p) ==
    /\ p \in DOMAIN ch.commands
    /\ StopsAt(ch, rsn, p)
    /\ \A i \in DOMAIN ch.commands : i > p => ~StopsAt(ch, rsn, i)

\* Nothing ends the walk: the iterator is decremented past begin() and the
\* list's end() node is dereferenced as if it were a command.
WalkLeavesList(ch, rsn) ==
    /\ ch.commands # <<>>
    /\ \A i \in DOMAIN ch.commands : ~StopsAt(ch, rsn, i)

\* DiscardCommand() for a reliable command the channel does not want: a
\* number outside the window, the last one handed over, one in the list.
Unwanted(ch, rsn) ==
    \/ OutsideWindow(ch, rsn)
    \/ rsn = ch.incoming
    \/ \E p \in DOMAIN ch.commands :
          WalkEndsAt(ch, rsn, p) /\ ch.commands[p].rsn = rsn

\* The process dies in the walk.
WalkCrashes(ch, rsn) ==
    /\ ~OutsideWindow(ch, rsn)
    /\ rsn # ch.incoming
    /\ WalkLeavesList(ch, rsn)

\* A wanted command goes after position p, 0 standing for the empty list.
GoesAfter(ch, rsn, p) ==
    /\ ~Unwanted(ch, rsn)
    /\ \/ ch.commands = <<>> /\ p = 0
       \/ WalkEndsAt(ch, rsn, p)

Inserted(ch, command, p) ==
    [ch EXCEPT !.commands = InsertAt(@, p + 1, command)]

-----------------------------------------------------------------------------
(* NewIncomingReliableCommands.                                            *)

\* fragments_remaining_ is 0.  It starts at the count and loses one with
\* every bit that is set, whichever message the fragment belonged to.
Complete(command) == Cardinality(command.received) = command.count

\* The number the channel is left with once the command is handed over.
\* With no fragments the number is the command's own; the sum is a uint16_t.
LastNumber(command) ==
    IF command.count > 0
    THEN (command.rsn + command.count - 1) % SEQUENCE_NUMBERS
    ELSE command.rsn

\* Mutant of Ready: the turn of the command is not looked at.
ReadyOutOfTurn(ch, j) ==
    Complete(ch.commands[j]) /\ ch.commands[j].rsn > ch.incoming

\* The j-th command can follow the one before it.  The comparison promotes
\* the uint16_t to int before adding 1, so it does not wrap.
Ready(ch, j) ==
    /\ Complete(ch.commands[j])
    /\ ch.commands[j].rsn =
         1 + (IF j = 1 THEN ch.incoming ELSE LastNumber(ch.commands[j - 1]))

\* The loop hands over exactly the first k commands.
HandsOver(ch, k) ==
    /\ k \in 0..Len(ch.commands)
    /\ \A j \in 1..k : Ready(ch, j)
    /\ k < Len(ch.commands) => ~Ready(ch, k + 1)

NewCommands(ch, k) == SubSeq(ch.commands, 1, k)

\* Mutant of AfterHandOver: the fragments of the last message are not counted.
AfterFirstNumbers(ch, k) ==
    [incoming |-> IF k = 0 THEN ch.incoming ELSE ch.commands[k].rsn,
     commands |-> SubSeq(ch.commands, k + 1, Len(ch.commands))]

AfterHandOver(ch, k) ==
    [incoming |-> IF k = 0 THEN ch.incoming ELSE LastNumber(ch.commands[k]),
     commands |-> SubSeq(ch.commands, k + 1, Len(ch.commands))]

-----------------------------------------------------------------------------
(* ExtractFirstCommand: the walk from the back that never looks at the     *)
(* first command of the list, and returns it when it gets that far.        *)

\* The walk is decided at the i-th command.
Decides(ch, start, i) ==
    LET there == ch.commands[i].rsn
    IN  IF start >= ch.incoming THEN there >= ch.incoming
                                ELSE there <= start

DecidedAt(ch, start, p) ==
    /\ p \in DOMAIN ch.commands \ {1}
    /\ Decides(ch, start, p)
    /\ \A i \in DOMAIN ch.commands : i > p => ~Decides(ch, start, i)

\* The p-th command is returned for a fragment of the message that starts at
\* `start`, and is taken to be the message's first command.
ExtractsFirst(ch, start, length, count, p) ==
    \/ /\ p = 1
       /\ ch.commands # <<>>
       /\ \A i \in DOMAIN ch.commands \ {1} : ~Decides(ch, start, i)
    \/ /\ DecidedAt(ch, start, p)
       /\ start < ch.incoming
       /\ ch.commands[p].rsn = start
       /\ ch.commands[p].count = count
       /\ ch.commands[p].length = length
=============================================================================
