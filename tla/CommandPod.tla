----------------------------- MODULE CommandPod -----------------------------
(***************************************************************************)
(* The sending half of a rudp::Peer: its CommandPod and the part of its    *)
(* Channels that counts, window by window, the reliable commands on their  *)
(* way.                                                                    *)
(*                                                                         *)
(* A reliable OutgoingCommand is a record                                  *)
(*   channel   header_channel_id, or NO_CHANNEL for 0xFF, the commands of  *)
(*             the peer itself (PING, DISCONNECT), which carry no payload  *)
(*   serial    how many commands the channel had numbered with this one;   *)
(*             its sequence number is the uint16_t of that                 *)
(*   length    fragment_length                                             *)
(* The lists of the code hold shared pointers: a command that times out    *)
(* and goes out again stands in the lists several times, as the same       *)
(* object.  A pod is a record                                              *)
(*   numbers    outgoing_reliable_sequence_number_, per channel and of the *)
(*              pod itself                                                 *)
(*   outgoing   outgoing_reliable_commands_                                *)
(*   sent       sent_reliable_commands_                                    *)
(*   attempted  the commands with send_attempts > 0                        *)
(*   windows    Channel::reliable_windows_, per channel                    *)
(*   used       the bits of Channel::used_reliable_windows_, per channel   *)
(*   transit    reliable_data_in_transit_, an unsigned number              *)
(***************************************************************************)
EXTENDS Channel

CONSTANTS
    CHANNELS,        \* the channel identifiers of the peer
    NO_CHANNEL,      \* 0xFF
    DATA_MODULUS     \* 2^32 in the code

ASSUME PodAssumption ==
    /\ NO_CHANNEL \notin CHANNELS
    /\ DATA_MODULUS \in Nat \ {0}

Windows == 0..(PEER_RELIABLE_WINDOWS - 1)

EmptyPod ==
    [numbers   |-> [ch \in CHANNELS \cup {NO_CHANNEL} |-> 0],
     outgoing  |-> <<>>,
     sent      |-> <<>>,
     attempted |-> {},
     windows   |-> [ch \in CHANNELS |-> [w \in Windows |-> 0]],
     used      |-> [ch \in CHANNELS |-> {}],
     transit   |-> 0]

Rsn(c) == c.serial % SEQUENCE_NUMBERS

HasChannel(c) == c.channel # NO_CHANNEL

\* A command of a channel refers to the segment of its message, if only to an
\* empty one.
HasPayload(c) == HasChannel(c)

\* Mutant of Minus: the number is not an unsigned one.
MinusSigned(transit, length) == transit - length

Plus(transit, length) == (transit + length) % DATA_MODULUS
Minus(transit, length) == (transit + DATA_MODULUS - length) % DATA_MODULUS

-----------------------------------------------------------------------------
(* SetupOutgoingCommand numbers a command and queues it.                   *)

SetupOutgoingCommand(pod, ch, length) ==
    LET n == pod.numbers[ch] + 1
    IN  [pod EXCEPT
           !.numbers[ch] = n,
           !.outgoing    = Append(@, [channel |-> ch, serial |-> n,
                                      length  |-> length])]

\* Peer::Send queues the fragments of a message one after the other.
Fragments(pod, ch, lengths) ==
    [i \in 1..Len(lengths) |->
        [channel |-> ch, serial |-> pod.numbers[ch] + i, length |-> lengths[i]]]

QueueMessage(pod, ch, lengths) ==
    [pod EXCEPT !.numbers[ch] = @ + Len(lengths),
                !.outgoing    = @ \o Fragments(pod, ch, lengths)]

-----------------------------------------------------------------------------
(* Timeout.                                                                *)

\* The positions of the sent list that a pass may find expired: the first
\* copy of a command that expires doubles the timeout of the others, so that
\* an earlier copy expires if a later one does.
MayExpire(pod, expired) ==
    /\ expired \subseteq DOMAIN pod.sent
    /\ \A i, j \in DOMAIN pod.sent :
          (i < j /\ pod.sent[i] = pod.sent[j] /\ j \in expired) => i \in expired

\* An expired copy is put in front of the outgoing list, and stays in the sent
\* list.
Expire(pod, c) ==
    [pod EXCEPT !.outgoing = <<c>> \o @, !.transit = Minus(@, c.length)]

Expirations(pod, expired) ==
    LET after[i \in 0..Len(pod.sent)] ==
            IF i = 0 THEN pod
            ELSE IF i \in expired THEN Expire(after[i - 1], pod.sent[i])
            ELSE after[i - 1]
    IN  after

Timeout(pod, expired) == Expirations(pod, expired)[Len(pod.sent)]

-----------------------------------------------------------------------------
(* LoadReliableCommandsIntoChamber.                                        *)

\* The windows from w on that must be empty before w is entered.
FreeWindows(w) ==
    {(w + k) % PEER_RELIABLE_WINDOWS : k \in 0..(PEER_FREE_RELIABLE_WINDOWS - 1)}

\* Mutant of WindowWraps: the windows ahead are not looked at.
WrapsOnlyWhenFull(pod, c) ==
    LET w        == Window(Rsn(c))
        previous == (w + PEER_RELIABLE_WINDOWS - 1) % PEER_RELIABLE_WINDOWS
    IN  /\ c \notin pod.attempted
        /\ Rsn(c) % PEER_RELIABLE_WINDOW_SIZE = 0
        /\ pod.windows[c.channel][previous] >= PEER_RELIABLE_WINDOW_SIZE - 1

WindowWraps(pod, c) ==
    LET w        == Window(Rsn(c))
        previous == (w + PEER_RELIABLE_WINDOWS - 1) % PEER_RELIABLE_WINDOWS
    IN  /\ c \notin pod.attempted
        /\ Rsn(c) % PEER_RELIABLE_WINDOW_SIZE = 0
        /\ \/ pod.windows[c.channel][previous] >= PEER_RELIABLE_WINDOW_SIZE - 1
           \/ pod.used[c.channel] \cap FreeWindows(w) # {}

\* Mutant of WindowExceeds: the length of the command is not counted.
ExceedsAlready(pod, limit, c) == pod.transit > limit

WindowExceeds(pod, limit, c) == Plus(pod.transit, c.length) > limit

\* The command is counted in its window when it goes out for the first time.
CountInWindow(pod, c) ==
    LET w == Window(Rsn(c))
    IN  IF HasChannel(c) /\ c \notin pod.attempted
        THEN [pod EXCEPT !.windows[c.channel][w] = @ + 1,
                         !.used[c.channel]       = @ \cup {w}]
        ELSE pod

PutOnWire(pod, c) ==
    [CountInWindow(pod, c) EXCEPT
        !.attempted = @ \cup {c},
        !.transit   = Plus(@, c.length),
        !.sent      = Append(@, c)]

\* Mutant of LoadOne: a smaller command may overtake one that was held back.
LoadOneThatFits(walk, c) ==
    LET skipped == [walk EXCEPT !.left = Append(@, c)]
        wraps   == HasChannel(c) /\ (walk.wrap \/ WindowWraps(walk.pod, c))
        exceeds == HasPayload(c) /\ WindowExceeds(walk.pod, walk.limit, c)
    IN  CASE walk.full -> skipped
          [] ~walk.full /\ wraps -> [skipped EXCEPT !.wrap = TRUE]
          [] ~walk.full /\ ~wraps /\ exceeds -> skipped
          [] ~walk.full /\ ~wraps /\ ~exceeds /\ walk.room = 0 ->
                [skipped EXCEPT !.full = TRUE]
          [] OTHER -> [walk EXCEPT !.pod = PutOnWire(@, c), !.room = @ - 1]

\* One command of the walk over the outgoing list.  Once a window wraps, no
\* later command of any channel is loaded; once the window size is exceeded,
\* none with a payload; once the chamber is full, none.
LoadOne(walk, c) ==
    LET skipped == [walk EXCEPT !.left = Append(@, c)]
        wraps   == HasChannel(c) /\ (walk.wrap \/ WindowWraps(walk.pod, c))
        exceeds == /\ HasPayload(c)
                   /\ walk.exceeded \/ WindowExceeds(walk.pod, walk.limit, c)
    IN  CASE walk.full -> skipped
          [] ~walk.full /\ wraps -> [skipped EXCEPT !.wrap = TRUE]
          [] ~walk.full /\ ~wraps /\ exceeds -> [skipped EXCEPT !.exceeded = TRUE]
          [] ~walk.full /\ ~wraps /\ ~exceeds /\ walk.room = 0 ->
                [skipped EXCEPT !.full = TRUE]
          [] OTHER -> [walk EXCEPT !.pod = PutOnWire(@, c), !.room = @ - 1]

Start(pod, limit, room) ==
    [pod |-> pod, left |-> <<>>, room |-> room, limit |-> limit,
     wrap |-> FALSE, exceeded |-> FALSE, full |-> FALSE]

\* The chamber has room for a number of commands out of `rooms`, and the larger
\* of the throttled window size and the MTU is one of `limits`.
Starts(pod, limits, rooms) ==
    {Start(pod, limit, room) : limit \in limits, room \in rooms}

LoadNext(walks, c) == {LoadOne(walk, c) : walk \in walks}

\* The walks up to each command of the list.
Walks(pod, limits, rooms) ==
    LET walks[i \in 0..Len(pod.outgoing)] ==
            IF i = 0 THEN Starts(pod, limits, rooms)
            ELSE LoadNext(walks[i - 1], pod.outgoing[i])
    IN  walks

\* What loading may leave of the pod.
LoadReliableCommands(pod, limits, rooms) ==
    {[walk.pod EXCEPT !.outgoing = walk.left] :
        walk \in Walks(pod, limits, rooms)[Len(pod.outgoing)]}

-----------------------------------------------------------------------------
(* RemoveSentReliableCommand.                                              *)

\* The first copy in the sent list that bears the acknowledged number.
Acknowledges(pod, ch, rsn, p) ==
    /\ p \in DOMAIN pod.sent
    /\ pod.sent[p].channel = ch /\ Rsn(pod.sent[p]) = rsn
    /\ \A i \in 1..(p - 1) :
          ~(pod.sent[i].channel = ch /\ Rsn(pod.sent[i]) = rsn)

\* Mutant of UncountInWindow: the window is unused as soon as one number of
\* it is acknowledged.
UncountAndUnmark(pod, c) ==
    LET w     == Window(Rsn(c))
        count == pod.windows[c.channel][w]
    IN  IF HasChannel(c) /\ count > 0
        THEN [pod EXCEPT !.windows[c.channel][w] = count - 1,
                         !.used[c.channel]       = @ \ {w}]
        ELSE pod

\* The number leaves its window; the window is unused when it was the last.
UncountInWindow(pod, c) ==
    LET w     == Window(Rsn(c))
        count == pod.windows[c.channel][w]
    IN  IF HasChannel(c) /\ count > 0
        THEN [pod EXCEPT
                !.windows[c.channel][w] = count - 1,
                !.used[c.channel] = IF count = 1 THEN @ \ {w} ELSE @]
        ELSE pod

\* Mutants of RemoveSentReliableCommand: the oldest command leaves the list,
\* whichever was acknowledged; the payload stays counted as under way.
RemoveOldestCommand(pod, p) ==
    LET c == pod.sent[p]
    IN  [UncountInWindow(pod, c) EXCEPT
            !.transit = Minus(@, c.length),
            !.sent    = Tail(@)]
RemoveUndiminished(pod, p) ==
    [UncountInWindow(pod, pod.sent[p]) EXCEPT !.sent = RemoveAt(@, p)]

\* The search of the outgoing list, for a copy that waits to go out again,
\* is never entered: the flag that leads to it is set where the loop cannot
\* be.  An acknowledgement that finds no copy in the sent list changes
\* nothing.
RemoveSentReliableCommand(pod, p) ==
    LET c == pod.sent[p]
    IN  [UncountInWindow(pod, c) EXCEPT
            !.transit = Minus(@, c.length),
            !.sent    = RemoveAt(@, p)]

\* Peer::ResetPeerQueues, as far as the sending half is concerned.
ResetPeerQueues(pod) ==
    [EmptyPod EXCEPT !.numbers = pod.numbers, !.transit = pod.transit]

\* Peer::Reset with CommandPod::Reset: the lists of the pod are left as they
\* are.
Reset(pod) ==
    [EmptyPod EXCEPT !.outgoing  = pod.outgoing, !.sent = pod.sent,
                     !.attempted = pod.attempted]
=============================================================================
