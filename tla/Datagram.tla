------------------------------ MODULE Datagram ------------------------------
(***************************************************************************)
(* How a host packs what its peers have to say into datagrams, and what    *)
(* the parse loop at the other end makes of them: rudp::Chamber and        *)
(* rudp::Buffer, filled by SendAcknowledgements and by                     *)
(* LoadReliableCommandsIntoChamber, written out by Connection::Send and    *)
(* read by PeerPod::ReceiveIncomingCommands.                               *)
(*                                                                         *)
(* The host has one Chamber for all its peers.  Only its counters are set  *)
(* back for each of them: the buffers keep what was put into them.  When a *)
(* command is sent, acknowledged or sent again is the business of module   *)
(* CommandPod; here it waits in its queue, and a number that is chosen     *)
(* freely says how many commands with payload the window lets through.     *)
(*                                                                         *)
(* A command is a record                                                   *)
(*   kind   "ACKNOWLEDGE", "PING" for one without payload, "SEND"          *)
(*   peer   the peer it is for                                             *)
(*   n      its number                                                     *)
(* and what a buffer holds, a piece, a record                              *)
(*   what   "command"; "slot", for the command of the chamber itself which *)
(*          an acknowledgement was written into; "payload"; "empty"        *)
(*   of     the command, or the index of the slot                          *)
(***************************************************************************)
EXTENDS Integers, Sequences, SequencesExt, FiniteSets

CONSTANTS
    Peers,                               \* the peers of the host
    PROTOCOL_MAXIMUM_SEGMENT_COMMANDS,   \* 32 in the code
    BUFFER_MAXIMUM,                      \* 65 in the code
    MTU,                                 \* mtu_ of every peer
    HEADER_SIZE,                         \* sizeof(ProtocolHeader), its longer form
    SizeOf,                              \* COMMAND_SIZES, by kind
    PAYLOAD_SIZE,                        \* fragment_length of a command that has one
    MAX_COMMANDS                         \* bound on the commands queued for a peer

Kinds == {"ACKNOWLEDGE", "PING", "SEND"}

ASSUME DatagramAssumption ==
    /\ PROTOCOL_MAXIMUM_SEGMENT_COMMANDS \in Nat \ {0}
    /\ BUFFER_MAXIMUM = 1 + 2 * PROTOCOL_MAXIMUM_SEGMENT_COMMANDS
    /\ {MTU, HEADER_SIZE, PAYLOAD_SIZE} \subseteq Nat
    /\ SizeOf \in [Kinds -> Nat \ {0}]

Null == -1

VARIABLES
    acknowledgements,   \* acknowledgements_ of each peer
    outgoing,           \* outgoing_reliable_commands_ of each peer
    buffers,            \* the pieces in Chamber::buffers_, after the header
    commands,           \* the acknowledgements in Chamber::commands_
    numbered,           \* how many commands were queued for each peer
    datagram,           \* the last datagram: for whom, what, and how long
    loaded,             \* history: what was taken off the queues for it
    overrun             \* history: a slot that is not there was used

vars == <<acknowledgements, outgoing, buffers, commands, numbered, datagram, loaded, overrun>>

Empty   == [what |-> "empty", of |-> Null]
Unsent  == [to |-> Null, pieces |-> <<>>, size |-> 0]

Init ==
    /\ acknowledgements = [p \in Peers |-> <<>>]
    /\ outgoing = [p \in Peers |-> <<>>]
    /\ buffers = [i \in 1..(BUFFER_MAXIMUM - 1) |-> Empty]
    /\ commands = [k \in 0..(PROTOCOL_MAXIMUM_SEGMENT_COMMANDS - 1) |-> Empty]
    /\ numbered = [p \in Peers |-> 0]
    /\ datagram = Unsent
    /\ loaded = <<>>
    /\ overrun = FALSE

\* A command is queued for a peer, or an acknowledgement.
Queue(p, kind) ==
    LET c == [kind |-> kind, peer |-> p, n |-> numbered[p] + 1]
    IN  /\ numbered[p] < MAX_COMMANDS
        /\ numbered' = [numbered EXCEPT ![p] = @ + 1]
        /\ IF kind = "ACKNOWLEDGE"
           THEN /\ acknowledgements' = [acknowledgements EXCEPT ![p] = Append(@, c)]
                /\ UNCHANGED outgoing
           ELSE /\ outgoing' = [outgoing EXCEPT ![p] = Append(@, c)]
                /\ UNCHANGED acknowledgements
        /\ UNCHANGED <<buffers, commands, datagram, loaded, overrun>>

-----------------------------------------------------------------------------
(* The chamber while it is filled: its counters, the two iterators at hand *)
(* and what it holds, with the commands that were loaded, and held back.   *)

Chamber ==
    [commandCount |-> 0, bufferCount |-> 1, segmentSize |-> HEADER_SIZE,
     command |-> Null, buffer |-> Null, buffers |-> buffers, commands |-> commands,
     loaded |-> <<>>, held |-> <<>>, allowed |-> 0, open |-> TRUE, overrun |-> FALSE]

EmptyCommandBuffer(w) ==
    IF w.commandCount < PROTOCOL_MAXIMUM_SEGMENT_COMMANDS
    THEN [w EXCEPT !.command = w.commandCount, !.commandCount = @ + 1]
    ELSE [w EXCEPT !.command = Null]

\* Mutant of EmptyDataBuffer: the count goes up before the buffer is taken.
NextDataBuffer(w) ==
    IF w.bufferCount < BUFFER_MAXIMUM - 1
    THEN [w EXCEPT !.buffer = w.bufferCount + 1, !.bufferCount = @ + 1]
    ELSE [w EXCEPT !.buffer = Null]

EmptyDataBuffer(w) ==
    IF w.bufferCount < BUFFER_MAXIMUM
    THEN [w EXCEPT !.buffer = w.bufferCount, !.bufferCount = @ + 1]
    ELSE [w EXCEPT !.buffer = Null]

TakeSlots(w) == EmptyDataBuffer(EmptyCommandBuffer(w))

\* Buffer::Add and Command::MoveDataTo.
Add(w, piece) ==
    IF w.buffer = Null THEN [w EXCEPT !.overrun = TRUE]
                       ELSE [w EXCEPT !.buffers[w.buffer] = piece]

\* The room is an unsigned difference: once the segment is larger than the
\* MTU there is room for anything.
HasRoom(w, size) == w.segmentSize > MTU \/ MTU - w.segmentSize >= size

\* Mutant of SendingContinues: nobody asks whether there was a command left.
SendingContinuesAnyhow(w, c) ==
    w.buffer = BUFFER_MAXIMUM - 1 \/ ~HasRoom(w, SizeOf[c.kind])

\* The payload is not part of the question: a command that has one is let
\* through before its length is added.
SendingContinues(w, c) ==
    w.command = Null \/ w.buffer = BUFFER_MAXIMUM - 1 \/ ~HasRoom(w, SizeOf[c.kind])

\* One turn of the loop of SendAcknowledgements.  The one that finds no room
\* has been popped.
LoadAcknowledgement(w, c) ==
    LET t    == TakeSlots(w)
        slot == [what |-> "slot", of |-> t.command]
    IN  CASE ~w.open -> [w EXCEPT !.held = Append(@, c)]
          [] w.open /\ (t.command = Null \/ t.buffer = Null
                          \/ ~HasRoom(t, SizeOf["ACKNOWLEDGE"])) ->
               [t EXCEPT !.open = FALSE]
          [] OTHER ->
               Add([t EXCEPT !.segmentSize = @ + SizeOf["ACKNOWLEDGE"],
                             !.commands[t.command] = c, !.loaded = Append(@, c)], slot)

AcknowledgementWalk(w, cs) ==
    LET walk[i \in 0..Len(cs)] ==
            IF i = 0 THEN w ELSE LoadAcknowledgement(walk[i - 1], cs[i])
    IN  walk

SendAcknowledgements(w, cs) == AcknowledgementWalk(w, cs)[Len(cs)]

\* The command and, behind it, its payload.
Load(t, c) ==
    LET t1 == Add([t EXCEPT !.segmentSize = @ + SizeOf[c.kind], !.loaded = Append(@, c)],
                  [what |-> "command", of |-> c])
        t2 == EmptyDataBuffer([t1 EXCEPT !.allowed = @ - 1])
    IN  IF c.kind # "SEND" THEN t1
        ELSE Add([t2 EXCEPT !.segmentSize = @ + PAYLOAD_SIZE],
                 [what |-> "payload", of |-> c])

\* One turn of the loop of LoadReliableCommandsIntoChamber: the slots are
\* taken before it is known whether the command is held back.
LoadReliableCommand(w, c) ==
    LET t == TakeSlots(w)
    IN  CASE ~w.open -> [w EXCEPT !.held = Append(@, c)]
          [] w.open /\ c.kind = "SEND" /\ w.allowed = 0 -> [t EXCEPT !.held = Append(@, c)]
          [] w.open /\ ~(c.kind = "SEND" /\ w.allowed = 0) /\ SendingContinues(t, c) ->
               [t EXCEPT !.open = FALSE, !.held = Append(@, c),
                         !.overrun = @ \/ (t.command # Null /\ t.buffer = Null)]
          [] OTHER ->
               [Load(t, c) EXCEPT !.overrun = @ \/ t.buffer = Null]

\* Chamber::Write and Buffer::CopyTo: as many buffers as were taken.
Write(w) ==
    [i \in 1..(w.bufferCount - 1) |->
        IF w.buffers[i].what = "slot"
        THEN [what |-> "command", of |-> w.commands[w.buffers[i].of]]
        ELSE w.buffers[i]]

PieceSize(piece) ==
    CASE piece.what = "empty"   -> 0
      [] piece.what = "payload" -> PAYLOAD_SIZE
      [] piece.what = "command" -> SizeOf[piece.of.kind]

SizeOfAll(pieces) == FoldLeft(LAMBDA sum, piece : sum + PieceSize(piece), HEADER_SIZE, pieces)

\* The chamber after each command of the list; LoadReliableCommands, after the last.
ReliableWalk(w, cs) ==
    LET walk[i \in 0..Len(cs)] ==
            IF i = 0 THEN [w EXCEPT !.held = <<>>]
            ELSE LoadReliableCommand(walk[i - 1], cs[i])
    IN  walk

LoadReliableCommands(w, cs) == ReliableWalk(w, cs)[Len(cs)]

\* Nothing else to send, Peer::HasEnoughSpace, and `idle` says that nothing is
\* unacknowledged and the ping interval over.
Pings(w, p, idle) ==
    /\ idle /\ numbered[p] < MAX_COMMANDS
    /\ w.open /\ w.held = outgoing[p]
    /\ HasRoom(w, SizeOf["PING"])

\* One turn of the loop of SendOutgoingCommands, for a peer.  A PING is queued
\* behind what was held back, and the commands are gone through again.
SendOutgoingCommands(p, allowed, idle) ==
    LET acked == SendAcknowledgements(Chamber, acknowledgements[p])
        first == LoadReliableCommands([acked EXCEPT !.open = TRUE, !.allowed = allowed],
                                      outgoing[p])
        pings == Pings(first, p, idle)
        ping  == [kind |-> "PING", peer |-> p, n |-> numbered[p] + 1]
        full  == IF pings THEN LoadReliableCommands(first, Append(first.held, ping))
                          ELSE first
    IN  /\ full.commandCount > 0
        /\ acknowledgements' = [acknowledgements EXCEPT ![p] = acked.held]
        /\ outgoing' = [outgoing EXCEPT ![p] = full.held]
        /\ numbered' = IF pings THEN [numbered EXCEPT ![p] = @ + 1] ELSE numbered
        /\ buffers' = full.buffers
        /\ commands' = full.commands
        /\ datagram' = [to |-> p, pieces |-> Write(full), size |-> SizeOfAll(Write(full))]
        /\ loaded' = full.loaded
        /\ overrun' = full.overrun

Next ==
    \E p \in Peers :
       \/ \E kind \in Kinds : Queue(p, kind)
       \/ \E allowed \in 0..Len(outgoing[p]), idle \in BOOLEAN :
             SendOutgoingCommands(p, allowed, idle)

Spec == Init /\ [][Next]_vars

-----------------------------------------------------------------------------
(* The other end.                                                          *)

Solid(pieces) == SelectSeq(pieces, LAMBDA piece : piece.what # "empty")

\* The commands that the parse loop surely finds: it goes from one to the
\* next by the size of the command alone, so that it takes the payload of
\* the first one that has any for further commands.
Read(pieces) ==
    LET solid == Solid(pieces)
        last  == {i \in DOMAIN solid : solid[i].what = "payload"}
        upTo  == IF last = {} THEN Len(solid)
                 ELSE (CHOOSE i \in last : \A j \in last : i <= j) - 1
    IN  [i \in 1..upTo |-> solid[i].of]

-----------------------------------------------------------------------------
(* Properties.                                                             *)

\* Whatever was taken off a queue is in the datagram, each command in its turn
\* and its payload right behind it: the slots that are taken, reused and left
\* out never overwrite or cut off what was loaded.
LoadedIsWritten ==
    LET in == datagram.pieces
    IN  \E at \in [DOMAIN loaded -> DOMAIN in] :
          \A i \in DOMAIN loaded :
             /\ in[at[i]] = [what |-> "command", of |-> loaded[i]]
             /\ loaded[i].kind = "SEND" =>
                   /\ at[i] + 1 \in DOMAIN in
                   /\ in[at[i] + 1] = [what |-> "payload", of |-> loaded[i]]
             /\ \A j \in DOMAIN loaded : i < j => at[i] < at[j]

\* However many commands are held back or left for the next datagram, no
\* iterator that is null is used.
SlotsSuffice == ~overrun

-----------------------------------------------------------------------------
(* What one would expect of the code and does not hold; README.md names    *)
(* for each an instance that refutes it.                                   *)

\* A datagram is no longer than the MTU.
WithinMtu == datagram.size <= MTU

\* A peer gets what is meant for it.
OnlyItsOwn ==
    \A i \in DOMAIN datagram.pieces :
        datagram.pieces[i].what = "empty" \/ datagram.pieces[i].of.peer = datagram.to

\* What was loaded is read.
LoadedIsRead == ToSet(loaded) \subseteq ToSet(Read(datagram.pieces))
=============================================================================
