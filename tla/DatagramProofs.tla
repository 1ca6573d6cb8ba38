---------------------------- MODULE DatagramProofs ----------------------------
(***************************************************************************)
(* What is loaded into a datagram is written, for every number of peers,   *)
(* commands and buffers.                                                   *)
(***************************************************************************)
EXTENDS Datagram, Induction, SequenceTheorems

Slots   == 0..(PROTOCOL_MAXIMUM_SEGMENT_COMMANDS - 1)
Buffers == 1..(BUFFER_MAXIMUM - 1)

Command == [kind : Kinds, peer : Peers, n : Nat]

Acknowledgement == {c \in Command : c.kind = "ACKNOWLEDGE"}

\* A piece that was written out, and one that is still in a buffer.
Written == [what : {"command", "payload"}, of : Command]
Piece   == Written \cup [what : {"slot"}, of : Slots] \cup {Empty}

\* A chamber while it is filled.
Filling ==
    [commandCount : 0..PROTOCOL_MAXIMUM_SEGMENT_COMMANDS, bufferCount : 1..BUFFER_MAXIMUM,
     segmentSize : Int, command : Slots \cup {Null}, buffer : Buffers \cup {Null},
     buffers : [Buffers -> Piece], commands : [Slots -> Command \cup {Empty}],
     loaded : Seq(Command), held : Seq(Command), allowed : Int,
     open : BOOLEAN, overrun : BOOLEAN]

\* Every command takes two buffers at most.  The last slot is no exception: who
\* is refused a slot takes a buffer all the same, but loads nothing.
BuffersLast(w) ==
    w.commandCount < PROTOCOL_MAXIMUM_SEGMENT_COMMANDS => w.bufferCount <= 1 + 2 * w.commandCount

\* Buffer b of the chamber will be written out as the command c.
Stands(w, b, c) ==
    \/ w.buffers[b] = [what |-> "command", of |-> c]
    \/ \E k \in 0..(w.commandCount - 1) :
          w.buffers[b] = [what |-> "slot", of |-> k] /\ w.commands[k] = c

\* The buffer `at[i]` stands for the i-th command that was loaded.
Placed(w, at) ==
    /\ at \in [DOMAIN w.loaded -> 1..(w.bufferCount - 1)]
    /\ \A i \in DOMAIN w.loaded :
          /\ Stands(w, at[i], w.loaded[i])
          /\ w.loaded[i].kind = "SEND" =>
                /\ at[i] + 1 \in 1..(w.bufferCount - 1)
                /\ w.buffers[at[i] + 1] = [what |-> "payload", of |-> w.loaded[i]]
          /\ \A j \in DOMAIN w.loaded : i < j => at[i] < at[j]

Packed(w) == BuffersLast(w) /\ ~w.overrun /\ \E at : Placed(w, at)

Packings == {w \in Filling : Packed(w)}

Inv ==
    /\ acknowledgements \in [Peers -> Seq(Acknowledgement)]
    /\ outgoing \in [Peers -> Seq(Command)]
    /\ numbered \in [Peers -> Nat]
    /\ buffers \in [Buffers -> Piece]
    /\ commands \in [Slots -> Command \cup {Empty}]
    /\ loaded \in Seq(Command)
    /\ LoadedIsWritten
    /\ SlotsSuffice

-----------------------------------------------------------------------------
(* The steps of which loading consists.                                    *)

\* The bounds of the indices.
LEMMA Bounds ==
    /\ PROTOCOL_MAXIMUM_SEGMENT_COMMANDS \in Nat \ {0}
    /\ BUFFER_MAXIMUM \in Nat /\ BUFFER_MAXIMUM = 1 + 2 * PROTOCOL_MAXIMUM_SEGMENT_COMMANDS
    /\ PAYLOAD_SIZE \in Int /\ HEADER_SIZE \in Int
    /\ \A kind \in Kinds : SizeOf[kind] \in Int
  BY DatagramAssumption

\* A chamber and its fields.
LEMMA Fields ==
    ASSUME NEW w \in Filling
    PROVE  /\ w.commandCount \in 0..PROTOCOL_MAXIMUM_SEGMENT_COMMANDS
           /\ w.bufferCount \in 1..BUFFER_MAXIMUM
           /\ w.segmentSize \in Int /\ w.command \in Slots \cup {Null}
           /\ w.buffer \in Buffers \cup {Null}
           /\ w.buffers \in [Buffers -> Piece] /\ w.commands \in [Slots -> Command \cup {Empty}]
           /\ w.loaded \in Seq(Command) /\ w.held \in Seq(Command)
           /\ w.allowed \in Int /\ w.open \in BOOLEAN /\ w.overrun \in BOOLEAN
  BY DEF Filling

\* What differs between two chambers that hold the same.
HoldsTheSame(t, w) ==
    /\ t.segmentSize = w.segmentSize /\ t.buffers = w.buffers /\ t.commands = w.commands
    /\ t.loaded = w.loaded /\ t.held = w.held /\ t.allowed = w.allowed
    /\ t.open = w.open /\ t.overrun = w.overrun

LEMMA CommandTaken ==
    ASSUME NEW w \in Filling
    PROVE  LET t == EmptyCommandBuffer(w)
           IN  /\ t \in Filling /\ HoldsTheSame(t, w)
               /\ t.bufferCount = w.bufferCount /\ t.buffer = w.buffer
               /\ IF w.commandCount < PROTOCOL_MAXIMUM_SEGMENT_COMMANDS
                  THEN t.command = w.commandCount /\ t.commandCount = w.commandCount + 1
                  ELSE t.command = Null /\ t.commandCount = w.commandCount
<1> USE DEF HoldsTheSame
<1>1. PICK n : n = w.commandCount
  OBVIOUS
<1>2. n \in 0..PROTOCOL_MAXIMUM_SEGMENT_COMMANDS
  BY <1>1, Fields
<1>3. CASE n < PROTOCOL_MAXIMUM_SEGMENT_COMMANDS
  <2>1. n \in Slots /\ n + 1 \in 0..PROTOCOL_MAXIMUM_SEGMENT_COMMANDS
    BY <1>2, <1>3, Bounds DEF Slots
  <2>2. EmptyCommandBuffer(w) = [w EXCEPT !.command = n, !.commandCount = n + 1]
    BY <1>1, <1>3 DEF EmptyCommandBuffer
  <2> QED BY <1>1, <1>3, <2>1, <2>2 DEF Filling
<1>4. CASE ~(n < PROTOCOL_MAXIMUM_SEGMENT_COMMANDS)
  <2>1. EmptyCommandBuffer(w) = [w EXCEPT !.command = Null]
    BY <1>1, <1>4 DEF EmptyCommandBuffer
  <2> QED BY <1>1, <1>4, <2>1 DEF Filling
<1> QED BY <1>3, <1>4

LEMMA BufferTaken ==
    ASSUME NEW w \in Filling
    PROVE  LET t == EmptyDataBuffer(w)
           IN  /\ t \in Filling /\ HoldsTheSame(t, w)
               /\ t.commandCount = w.commandCount /\ t.command = w.command
               /\ IF w.bufferCount < BUFFER_MAXIMUM
                  THEN t.buffer = w.bufferCount /\ t.bufferCount = w.bufferCount + 1
                  ELSE t.buffer = Null /\ t.bufferCount = w.bufferCount
<1> USE DEF HoldsTheSame
<1>1. PICK n : n = w.bufferCount
  OBVIOUS
<1>2. n \in 1..BUFFER_MAXIMUM
  BY <1>1, Fields
<1>3. CASE n < BUFFER_MAXIMUM
  <2>1. n \in Buffers /\ n + 1 \in 1..BUFFER_MAXIMUM
    BY <1>2, <1>3, Bounds DEF Buffers
  <2>2. EmptyDataBuffer(w) = [w EXCEPT !.buffer = n, !.bufferCount = n + 1]
    BY <1>1, <1>3 DEF EmptyDataBuffer
  <2> QED BY <1>1, <1>3, <2>1, <2>2 DEF Filling
<1>4. CASE ~(n < BUFFER_MAXIMUM)
  <2>1. EmptyDataBuffer(w) = [w EXCEPT !.buffer = Null]
    BY <1>1, <1>4 DEF EmptyDataBuffer
  <2> QED BY <1>1, <1>4, <2>1 DEF Filling
<1> QED BY <1>3, <1>4

LEMMA AddEffect ==
    ASSUME NEW w \in Filling, NEW piece \in Piece
    PROVE  LET t == Add(w, piece)
           IN  /\ t \in Filling
               /\ t.commandCount = w.commandCount /\ t.bufferCount = w.bufferCount
               /\ t.command = w.command /\ t.buffer = w.buffer
               /\ t.segmentSize = w.segmentSize /\ t.commands = w.commands
               /\ t.loaded = w.loaded /\ t.held = w.held /\ t.allowed = w.allowed
               /\ t.open = w.open
               /\ w.buffer # Null =>
                    t.overrun = w.overrun /\ t.buffers = [w.buffers EXCEPT ![w.buffer] = piece]
<1>1. PICK b : b = w.buffers
  OBVIOUS
<1>2. b \in [Buffers -> Piece] /\ w.buffer \in Buffers \cup {Null}
  BY <1>1, Fields
<1>3. CASE w.buffer = Null
  <2>1. Add(w, piece) = [w EXCEPT !.overrun = TRUE]
    BY <1>3 DEF Add
  <2> QED BY <1>3, <2>1 DEF Filling
<1>4. CASE w.buffer # Null
  <2>1. PICK c : c = [b EXCEPT ![w.buffer] = piece]
    OBVIOUS
  <2>2. c \in [Buffers -> Piece]
    BY <1>2, <1>4, <2>1
  <2>3. Add(w, piece) = [w EXCEPT !.buffers = c]
    BY <1>1, <1>4, <2>1 DEF Add
  <2> QED BY <1>1, <1>4, <2>1, <2>2, <2>3 DEF Filling
<1> QED BY <1>3, <1>4

\* What was placed stays so, while what follows it is written.
Continues(t, w) ==
    /\ w.commandCount <= t.commandCount
    /\ w.bufferCount <= t.bufferCount
    /\ \A b \in 1..(w.bufferCount - 1) : t.buffers[b] = w.buffers[b]
    /\ \A k \in 0..(w.commandCount - 1) : t.commands[k] = w.commands[k]

LEMMA StillStands ==
    ASSUME NEW w \in Filling, NEW t \in Filling, Continues(t, w),
           NEW b \in 1..(w.bufferCount - 1), NEW c, Stands(w, b, c)
    PROVE  Stands(t, b, c)
<1>1. w.commandCount \in Nat /\ t.commandCount \in Nat /\ w.commandCount <= t.commandCount
  BY Fields DEF Continues
<1>2. t.buffers[b] = w.buffers[b]
  BY DEF Continues
<1>3. CASE w.buffers[b] = [what |-> "command", of |-> c]
  BY <1>2, <1>3 DEF Stands
<1>4. ASSUME NEW k \in 0..(w.commandCount - 1),
             w.buffers[b] = [what |-> "slot", of |-> k], w.commands[k] = c
      PROVE  Stands(t, b, c)
  <2>1. k \in 0..(t.commandCount - 1)
    BY <1>1
  <2>2. t.commands[k] = c
    BY <1>4 DEF Continues
  <2> QED BY <1>2, <1>4, <2>1, <2>2 DEF Stands
<1> QED BY <1>3, <1>4 DEF Stands

LEMMA StillPlaced ==
    ASSUME NEW w \in Filling, NEW t \in Filling, Continues(t, w), t.loaded = w.loaded,
           NEW at, Placed(w, at)
    PROVE  Placed(t, at)
<1>1. w.bufferCount \in Nat /\ t.bufferCount \in Nat /\ w.bufferCount <= t.bufferCount
  BY Fields DEF Continues
<1>2. \A b \in 1..(w.bufferCount - 1) :
         b \in 1..(t.bufferCount - 1) /\ t.buffers[b] = w.buffers[b]
  BY <1>1 DEF Continues
<1>3. at \in [DOMAIN t.loaded -> 1..(t.bufferCount - 1)]
  BY <1>2 DEF Placed
<1>4. ASSUME NEW i \in DOMAIN w.loaded PROVE Stands(t, at[i], w.loaded[i])
  <2>1. at[i] \in 1..(w.bufferCount - 1) /\ Stands(w, at[i], w.loaded[i])
    BY DEF Placed
  <2> QED BY <2>1, StillStands
<1>5. ASSUME NEW i \in DOMAIN w.loaded, w.loaded[i].kind = "SEND"
      PROVE  /\ at[i] + 1 \in 1..(t.bufferCount - 1)
             /\ t.buffers[at[i] + 1] = [what |-> "payload", of |-> w.loaded[i]]
  BY <1>2, <1>5 DEF Placed
<1>6. \A i, j \in DOMAIN w.loaded : i < j => at[i] < at[j]
  BY DEF Placed
<1> QED BY <1>3, <1>4, <1>5, <1>6 DEF Placed

\* A command that was loaded last is placed behind the others.
LEMMA OneMorePlaced ==
    ASSUME NEW w \in Filling, NEW t \in Filling, Continues(t, w),
           NEW c \in Command, t.loaded = Append(w.loaded, c),
           w.bufferCount < t.bufferCount, Stands(t, w.bufferCount, c),
           c.kind = "SEND" =>
              /\ w.bufferCount + 1 < t.bufferCount
              /\ t.buffers[w.bufferCount + 1] = [what |-> "payload", of |-> c],
           NEW at, Placed(w, at)
    PROVE  \E new : Placed(t, new)
<1> DEFINE n   == Len(w.loaded) + 1
           new == [i \in 1..n |-> IF i = n THEN w.bufferCount ELSE at[i]]
<1>1. /\ w.bufferCount \in Nat \ {0} /\ t.bufferCount \in Nat
      /\ w.loaded \in Seq(Command) /\ n \in Nat /\ DOMAIN w.loaded = 1..(n - 1)
  BY Fields
<1>2. /\ DOMAIN t.loaded = 1..n /\ t.loaded[n] = c
      /\ \A i \in 1..(n - 1) : t.loaded[i] = w.loaded[i]
  BY <1>1
<1> HIDE DEF n
<1>3. \A b \in 1..(w.bufferCount - 1) :
         b \in 1..(t.bufferCount - 1) /\ t.buffers[b] = w.buffers[b]
  BY <1>1 DEF Continues
<1>4. \A i \in 1..(n - 1) : at[i] \in 1..(w.bufferCount - 1)
  BY <1>1 DEF Placed
<1>5. n \in 1..n /\ \A i \in 1..n : i = n \/ i \in 1..(n - 1)
  <2>1. n >= 1
    BY <1>1, LenProperties DEF n
  <2> QED BY <1>1, <2>1
<1>6. new \in [1..n -> 1..(t.bufferCount - 1)]
  <2>1. w.bufferCount \in 1..(t.bufferCount - 1)
    BY <1>1
  <2> QED BY <1>3, <1>4, <1>5, <2>1
<1>7. new[n] = w.bufferCount /\ \A i \in 1..(n - 1) : new[i] = at[i]
  BY <1>1, <1>5
<1> HIDE DEF new
<1>8. ASSUME NEW i \in 1..n
      PROVE  /\ Stands(t, new[i], t.loaded[i])
             /\ t.loaded[i].kind = "SEND" =>
                   /\ new[i] + 1 \in 1..(t.bufferCount - 1)
                   /\ t.buffers[new[i] + 1] = [what |-> "payload", of |-> t.loaded[i]]
             /\ \A j \in 1..n : i < j => new[i] < new[j]
  <2>1. CASE i = n
    <3>1. new[i] + 1 \in 1..(t.bufferCount - 1) \/ c.kind # "SEND"
      BY <1>1, <1>7, <2>1
    <3>2. \A j \in 1..n : ~(i < j)
      BY <1>1, <2>1
    <3> QED BY <1>2, <1>7, <2>1, <3>1, <3>2
  <2>2. CASE i \in 1..(n - 1)
    <3>1. new[i] = at[i] /\ t.loaded[i] = w.loaded[i] /\ i \in DOMAIN w.loaded
      BY <1>1, <1>2, <1>7, <2>2
    <3>2. Stands(t, at[i], w.loaded[i])
      <4>1. at[i] \in 1..(w.bufferCount - 1) /\ Stands(w, at[i], w.loaded[i])
        BY <3>1 DEF Placed
      <4> QED BY <4>1, StillStands
    <3>3. w.loaded[i].kind = "SEND" =>
             /\ at[i] + 1 \in 1..(t.bufferCount - 1)
             /\ t.buffers[at[i] + 1] = [what |-> "payload", of |-> w.loaded[i]]
      BY <1>3, <3>1 DEF Placed
    <3>4. ASSUME NEW j \in 1..n, i < j PROVE at[i] < new[j]
      <4>1. CASE j = n
        BY <1>1, <1>4, <1>7, <2>2, <4>1
      <4>2. CASE j \in 1..(n - 1)
        BY <1>1, <1>7, <3>1, <3>4, <4>2 DEF Placed
      <4> QED BY <1>5, <4>1, <4>2
    <3> QED BY <3>1, <3>2, <3>3, <3>4
  <2> QED BY <1>5, <2>1, <2>2
<1>9. Placed(t, new)
  BY <1>2, <1>6, <1>8 DEF Placed
<1> QED BY <1>9

-----------------------------------------------------------------------------
(* One turn of each loop.                                                  *)

\* Whoever gets a slot gets a buffer, and there is another one for the payload.
LEMMA SlotsTaken ==
    ASSUME NEW w \in Filling, BuffersLast(w)
    PROVE  LET t == TakeSlots(w)
           IN  /\ t \in Filling /\ HoldsTheSame(t, w) /\ Continues(t, w)
               /\ BuffersLast(t)
               /\ t.command # Null =>
                    /\ t.command = w.commandCount /\ t.commandCount = w.commandCount + 1
                    /\ t.buffer = w.bufferCount /\ t.bufferCount = w.bufferCount + 1
                    /\ t.bufferCount < BUFFER_MAXIMUM
                    /\ t.bufferCount + 1 <= 1 + 2 * t.commandCount
<1> DEFINE u == EmptyCommandBuffer(w)
           t == EmptyDataBuffer(u)
<1>1. /\ u \in Filling /\ HoldsTheSame(u, w)
      /\ u.bufferCount = w.bufferCount
      /\ IF w.commandCount < PROTOCOL_MAXIMUM_SEGMENT_COMMANDS
         THEN u.command = w.commandCount /\ u.commandCount = w.commandCount + 1
         ELSE u.command = Null /\ u.commandCount = w.commandCount
  BY CommandTaken
<1> HIDE DEF u
<1>2. /\ t \in Filling /\ HoldsTheSame(t, u)
      /\ t.commandCount = u.commandCount /\ t.command = u.command
      /\ IF u.bufferCount < BUFFER_MAXIMUM
         THEN t.buffer = u.bufferCount /\ t.bufferCount = u.bufferCount + 1
         ELSE t.buffer = Null /\ t.bufferCount = u.bufferCount
  BY <1>1, BufferTaken
<1>3. t = TakeSlots(w)
  BY DEF TakeSlots, u
<1> HIDE DEF t
<1>4. /\ w.commandCount \in Nat /\ w.bufferCount \in Nat
      /\ w.commandCount <= PROTOCOL_MAXIMUM_SEGMENT_COMMANDS
  BY Fields, Bounds
<1>5. HoldsTheSame(t, w)
  BY <1>1, <1>2 DEF HoldsTheSame
<1>6. Continues(t, w)
  BY <1>1, <1>2, <1>4, <1>5 DEF Continues, HoldsTheSame
<1>7. CASE w.commandCount < PROTOCOL_MAXIMUM_SEGMENT_COMMANDS
  <2>1. w.bufferCount <= 1 + 2 * w.commandCount
    BY <1>7 DEF BuffersLast
  <2>2. w.bufferCount + 1 < BUFFER_MAXIMUM
    BY <1>4, <1>7, <2>1, Bounds
  <2>3. /\ t.command = w.commandCount /\ t.commandCount = w.commandCount + 1
        /\ t.buffer = w.bufferCount /\ t.bufferCount = w.bufferCount + 1
    BY <1>1, <1>2, <1>4, <1>7, <2>2, Bounds
  <2>4. t.bufferCount < BUFFER_MAXIMUM /\ t.bufferCount + 1 <= 1 + 2 * t.commandCount
    BY <1>4, <2>1, <2>2, <2>3
  <2>5. BuffersLast(t)
    BY <1>4, <2>1, <2>3 DEF BuffersLast
  <2> QED BY <1>2, <1>3, <1>5, <1>6, <2>3, <2>4, <2>5
<1>8. CASE ~(w.commandCount < PROTOCOL_MAXIMUM_SEGMENT_COMMANDS)
  <2>1. t.command = Null /\ t.commandCount = w.commandCount
    BY <1>1, <1>2, <1>8
  <2>2. BuffersLast(t)
    BY <1>8, <2>1 DEF BuffersLast
  <2> QED BY <1>2, <1>3, <1>5, <1>6, <2>1, <2>2
<1> QED BY <1>7, <1>8

\* A slot that was taken and is left alone.
LEMMA SlotsLeft ==
    ASSUME NEW w \in Packings
    PROVE  TakeSlots(w) \in Packings
<1>1. w \in Filling /\ Packed(w)
  BY DEF Packings
<1>2. PICK t : t = TakeSlots(w)
  OBVIOUS
<1>3. t \in Filling /\ HoldsTheSame(t, w) /\ Continues(t, w) /\ BuffersLast(t)
  BY <1>1, <1>2, SlotsTaken DEF Packed
<1>4. PICK at : Placed(w, at)
  BY <1>1 DEF Packed
<1>5. Placed(t, at)
  BY <1>1, <1>3, <1>4, StillPlaced DEF HoldsTheSame
<1> QED BY <1>1, <1>2, <1>3, <1>5 DEF Packings, Packed, HoldsTheSame

\* What packing says does not depend on the other fields.
LEMMA SamePacking ==
    ASSUME NEW w \in Packings, NEW t \in Filling,
           t.commandCount = w.commandCount, t.bufferCount = w.bufferCount,
           t.buffers = w.buffers, t.commands = w.commands,
           t.loaded = w.loaded, t.overrun = w.overrun
    PROVE  t \in Packings
<1>1. w \in Filling /\ Packed(w)
  BY DEF Packings
<1>2. PICK at : Placed(w, at)
  BY <1>1 DEF Packed
<1>3. Continues(t, w)
  BY <1>1, Fields DEF Continues
<1>4. Placed(t, at)
  BY <1>1, <1>2, <1>3, StillPlaced
<1> QED BY <1>1, <1>4 DEF Packings, Packed, BuffersLast

\* A command is held back, with a loop that goes on or ends.
LEMMA HeldBack ==
    ASSUME NEW w \in Packings, NEW c \in Command, NEW open \in BOOLEAN
    PROVE  /\ [w EXCEPT !.held = Append(@, c)] \in Packings
           /\ [w EXCEPT !.open = open] \in Packings
           /\ [w EXCEPT !.open = open, !.held = Append(@, c)] \in Packings
<1>1. w \in Filling /\ w.held \in Seq(Command)
  BY Fields DEF Packings
<1>2. PICK h : h = Append(w.held, c)
  OBVIOUS
<1>3. h \in Seq(Command)
  BY <1>1, <1>2
<1>4. ASSUME NEW o \in BOOLEAN, NEW g \in Seq(Command)
      PROVE  [w EXCEPT !.open = o, !.held = g] \in Packings
  <2>1. PICK t : t = [w EXCEPT !.open = o, !.held = g]
    OBVIOUS
  <2>2. /\ t \in Filling
        /\ t.commandCount = w.commandCount /\ t.bufferCount = w.bufferCount
        /\ t.buffers = w.buffers /\ t.commands = w.commands
        /\ t.loaded = w.loaded /\ t.overrun = w.overrun
    BY <1>1, <2>1 DEF Filling
  <2> QED BY <2>1, <2>2, SamePacking
<1>5. [w EXCEPT !.held = h] = [w EXCEPT !.open = w.open, !.held = h]
  BY <1>1 DEF Filling
<1>6. [w EXCEPT !.open = open] = [w EXCEPT !.open = open, !.held = w.held]
  BY <1>1 DEF Filling
<1>7. w.open \in BOOLEAN
  BY <1>1, Fields
<1> QED BY <1>1, <1>2, <1>3, <1>4, <1>5, <1>6, <1>7

\* One turn of the loop of SendAcknowledgements.
LEMMA AcknowledgementLoaded ==
    ASSUME NEW w \in Packings, w.held \in Seq(Acknowledgement), NEW c \in Acknowledgement
    PROVE  /\ LoadAcknowledgement(w, c) \in Packings
           /\ LoadAcknowledgement(w, c).held \in Seq(Acknowledgement)
<1>0. c \in Command /\ c.kind = "ACKNOWLEDGE"
  BY DEF Acknowledgement
<1>1. w \in Filling /\ Packed(w)
  BY DEF Packings
<1>2. PICK t : t = TakeSlots(w)
  OBVIOUS
<1>3. /\ t \in Filling /\ HoldsTheSame(t, w) /\ Continues(t, w) /\ BuffersLast(t)
      /\ t.command # Null =>
           /\ t.command = w.commandCount /\ t.commandCount = w.commandCount + 1
           /\ t.buffer = w.bufferCount /\ t.bufferCount = w.bufferCount + 1
           /\ t.bufferCount < BUFFER_MAXIMUM
           /\ t.bufferCount + 1 <= 1 + 2 * t.commandCount
  BY <1>1, <1>2, SlotsTaken DEF Packed
<1>4. CASE ~w.open
  <2>1. LoadAcknowledgement(w, c) = [w EXCEPT !.held = Append(@, c)]
    BY <1>4 DEF LoadAcknowledgement
  <2>2. [w EXCEPT !.held = Append(@, c)].held \in Seq(Acknowledgement)
    <3>1. Append(w.held, c) \in Seq(Acknowledgement)
      OBVIOUS
    <3> QED BY <1>1, <3>1 DEF Filling
  <2> QED BY <1>0, <2>1, <2>2, HeldBack
<1> DEFINE refused == t.command = Null \/ t.buffer = Null \/ ~HasRoom(t, SizeOf["ACKNOWLEDGE"])
<1>5. CASE w.open /\ refused
  <2>1. LoadAcknowledgement(w, c) = [t EXCEPT !.open = FALSE]
    BY <1>2, <1>5 DEF LoadAcknowledgement
  <2>2. [t EXCEPT !.open = FALSE].held \in Seq(Acknowledgement)
    BY <1>3 DEF Filling, HoldsTheSame
  <2> QED BY <1>0, <1>2, <2>1, <2>2, HeldBack, SlotsLeft
<1>6. CASE w.open /\ ~refused
  <2>1. PICK size, cs, ls : /\ size = t.segmentSize + SizeOf["ACKNOWLEDGE"]
                            /\ cs = [t.commands EXCEPT ![t.command] = c]
                            /\ ls = Append(t.loaded, c)
    OBVIOUS
  <2>2. /\ t.command \in Slots /\ t.buffer \in Buffers
        /\ t.commands \in [Slots -> Command \cup {Empty}] /\ t.buffers \in [Buffers -> Piece]
    BY <1>3, <1>6, Fields
  <2>3. size \in Int /\ cs \in [Slots -> Command \cup {Empty}] /\ ls \in Seq(Command)
    BY <1>0, <1>3, <2>1, <2>2, Fields, Bounds DEF Kinds
  <2>4. PICK s : s = [t EXCEPT !.segmentSize = size, !.commands = cs, !.loaded = ls]
    OBVIOUS
  <2>5. /\ s \in Filling
        /\ s.commandCount = t.commandCount /\ s.bufferCount = t.bufferCount
        /\ s.buffer = t.buffer /\ s.buffers = t.buffers /\ s.commands = cs
        /\ s.loaded = ls /\ s.overrun = t.overrun /\ s.held = t.held
    BY <1>3, <2>3, <2>4 DEF Filling
  <2>6. PICK slot : slot = [what |-> "slot", of |-> t.command]
    OBVIOUS
  <2>7. slot \in Piece
    BY <2>2, <2>6 DEF Piece
  <2>8. PICK v : v = Add(s, slot)
    OBVIOUS
  <2>9. LoadAcknowledgement(w, c) = v
    BY <1>2, <1>6, <2>1, <2>4, <2>6, <2>8 DEF LoadAcknowledgement
  <2>10. /\ v \in Filling
         /\ v.commandCount = t.commandCount /\ v.bufferCount = t.bufferCount
         /\ v.commands = cs /\ v.loaded = ls /\ v.overrun = t.overrun
         /\ v.held = t.held
         /\ v.buffers = [t.buffers EXCEPT ![t.buffer] = slot]
    <3>1. s.buffer # Null
      BY <1>6, <2>5
    <3> QED BY <2>5, <2>7, <2>8, <3>1, AddEffect
  <2>11. /\ w.commandCount \in Nat /\ w.bufferCount \in Nat
         /\ t.command = w.commandCount /\ t.commandCount = w.commandCount + 1
         /\ t.buffer = w.bufferCount /\ t.bufferCount = w.bufferCount + 1
         /\ t.commands = w.commands /\ t.buffers = w.buffers
    BY <1>1, <1>3, <1>6, Fields DEF HoldsTheSame
  <2>12. Continues(v, w)
    <3>1. \A b \in 1..(w.bufferCount - 1) : v.buffers[b] = w.buffers[b]
      <4>1. \A b \in 1..(w.bufferCount - 1) : b \in Buffers /\ b # t.buffer
        BY <2>2, <2>11, Bounds DEF Buffers
      <4> QED BY <2>2, <2>10, <2>11, <4>1
    <3>2. \A k \in 0..(w.commandCount - 1) : v.commands[k] = w.commands[k]
      <4>1. \A k \in 0..(w.commandCount - 1) : k \in Slots /\ k # t.command
        BY <2>2, <2>11, Bounds DEF Slots
      <4> QED BY <2>1, <2>2, <2>10, <2>11, <4>1
    <3> QED BY <2>10, <2>11, <3>1, <3>2 DEF Continues
  <2>13. Stands(v, w.bufferCount, c)
    <3>1. v.buffers[w.bufferCount] = [what |-> "slot", of |-> w.commandCount]
      BY <2>2, <2>6, <2>10, <2>11
    <3>2. v.commands[w.commandCount] = c
      BY <2>1, <2>2, <2>10, <2>11
    <3>3. w.commandCount \in 0..(v.commandCount - 1)
      BY <2>10, <2>11
    <3> QED BY <3>1, <3>2, <3>3 DEF Stands
  <2>14. PICK at : Placed(w, at)
    BY <1>1 DEF Packed
  <2>15. \E new : Placed(v, new)
    <3>1. v.loaded = Append(w.loaded, c)
      BY <1>3, <2>1, <2>10 DEF HoldsTheSame
    <3>2. w.bufferCount < v.bufferCount
      BY <2>10, <2>11
    <3> QED BY <1>0, <1>1, <2>10, <2>12, <2>13, <2>14, <3>1, <3>2, OneMorePlaced
  <2>16. BuffersLast(v) /\ ~v.overrun
    BY <1>1, <1>3, <2>10 DEF BuffersLast, Packed, HoldsTheSame
  <2>17. v.held \in Seq(Acknowledgement)
    BY <1>3, <2>10 DEF HoldsTheSame
  <2> QED BY <2>9, <2>10, <2>15, <2>16, <2>17 DEF Packings, Packed
<1> QED BY <1>4, <1>5, <1>6

\* The command goes into the buffer that was taken with its slot, its payload
\* into the next one.
LEMMA CommandLoaded ==
    ASSUME NEW w \in Packings, NEW c \in Command, NEW t, t = TakeSlots(w), t.command # Null
    PROVE  /\ [Load(t, c) EXCEPT !.overrun = @ \/ t.buffer = Null] \in Packings
           /\ Load(t, c).held = w.held
<1>1. w \in Filling /\ Packed(w)
  BY DEF Packings
<1>2. /\ t \in Filling /\ HoldsTheSame(t, w) /\ Continues(t, w) /\ BuffersLast(t)
      /\ t.command = w.commandCount /\ t.commandCount = w.commandCount + 1
      /\ t.buffer = w.bufferCount /\ t.bufferCount = w.bufferCount + 1
      /\ t.bufferCount < BUFFER_MAXIMUM
      /\ t.bufferCount + 1 <= 1 + 2 * t.commandCount
  BY <1>1, SlotsTaken DEF Packed
<1>3. /\ w.commandCount \in Nat /\ w.bufferCount \in Nat \ {0}
      /\ t.buffers = w.buffers /\ t.commands = w.commands /\ t.loaded = w.loaded
      /\ t.held = w.held /\ ~t.overrun
  BY <1>1, <1>2, Fields, SMTT(30) DEF HoldsTheSame, Packed
<1>4. /\ t.buffer \in Buffers /\ t.buffers \in [Buffers -> Piece] /\ t.buffer # Null
      /\ t.bufferCount \in Buffers /\ t.bufferCount # Null
  <2>1. t.buffers \in [Buffers -> Piece]
    BY <1>2, Fields
  <2>2. t.buffer \in 1..(BUFFER_MAXIMUM - 1) /\ t.bufferCount \in 1..(BUFFER_MAXIMUM - 1)
    BY <1>2, <1>3, Bounds
  <2> QED BY <2>1, <2>2 DEF Buffers, Null
<1>5. PICK size, ls : size = t.segmentSize + SizeOf[c.kind] /\ ls = Append(t.loaded, c)
  OBVIOUS
<1>6. size \in Int /\ ls \in Seq(Command)
  <2>1. t.segmentSize \in Int /\ t.loaded \in Seq(Command)
    BY <1>2, Fields
  <2>2. SizeOf[c.kind] \in Int
    BY Bounds DEF Command
  <2> QED BY <1>5, <2>1, <2>2
<1>7. PICK s : s = [t EXCEPT !.segmentSize = size, !.loaded = ls]
  OBVIOUS
<1>8. /\ s \in Filling
      /\ s.commandCount = t.commandCount /\ s.bufferCount = t.bufferCount
      /\ s.buffer = t.buffer /\ s.buffers = t.buffers /\ s.commands = t.commands
      /\ s.loaded = ls /\ s.overrun = t.overrun /\ s.held = t.held
  BY <1>2, <1>6, <1>7 DEF Filling
<1>9. PICK head : head = [what |-> "command", of |-> c]
  OBVIOUS
<1>10. head \in Piece
  BY <1>9 DEF Piece, Written
<1>11. PICK t1 : t1 = Add(s, head)
  OBVIOUS
<1>12. /\ t1 \in Filling
       /\ t1.commandCount = t.commandCount /\ t1.bufferCount = t.bufferCount
       /\ t1.commands = t.commands /\ t1.loaded = ls /\ ~t1.overrun /\ t1.held = t.held
       /\ t1.buffers = [t.buffers EXCEPT ![t.buffer] = head]
  <2>1. s.buffer # Null
    BY <1>4, <1>8
  <2> QED BY <1>3, <1>8, <1>10, <1>11, <2>1, AddEffect
<1>13. /\ t1.buffers \in [Buffers -> Piece]
       /\ t1.buffers[w.bufferCount] = head
       /\ \A b \in 1..(w.bufferCount - 1) : t1.buffers[b] = w.buffers[b]
  <2>1. \A b \in 1..(w.bufferCount - 1) : b \in Buffers /\ b # t.buffer
    BY <1>2, <1>3, <1>4, Bounds DEF Buffers
  <2> QED BY <1>2, <1>3, <1>4, <1>10, <1>12, <2>1
<1>14. PICK at : Placed(w, at)
  BY <1>1 DEF Packed
\* What is left to show of the chamber that comes out.
<1>15. ASSUME NEW v \in Filling,
              v.commandCount = t.commandCount, v.bufferCount \in {t.bufferCount, t.bufferCount + 1},
              v.commands = t.commands, v.loaded = ls, ~v.overrun,
              v.buffers[w.bufferCount] = head,
              \A b \in 1..(w.bufferCount - 1) : v.buffers[b] = w.buffers[b],
              c.kind = "SEND" =>
                 /\ v.bufferCount = t.bufferCount + 1
                 /\ v.buffers[t.bufferCount] = [what |-> "payload", of |-> c]
       PROVE  v \in Packings
  <2>1. Continues(v, w) /\ w.bufferCount < v.bufferCount
    BY <1>2, <1>3, <1>15 DEF Continues
  <2>2. Stands(v, w.bufferCount, c)
    BY <1>9, <1>15 DEF Stands
  <2>3. c.kind = "SEND" =>
           /\ w.bufferCount + 1 < v.bufferCount
           /\ v.buffers[w.bufferCount + 1] = [what |-> "payload", of |-> c]
    BY <1>2, <1>3, <1>15
  <2>4. v.loaded = Append(w.loaded, c)
    BY <1>3, <1>5, <1>15
  <2>5. \E new : Placed(v, new)
    BY <1>1, <1>14, <2>1, <2>2, <2>3, <2>4, OneMorePlaced
  <2>6. BuffersLast(v)
    BY <1>2, <1>3, <1>15 DEF BuffersLast
  <2> QED BY <1>15, <2>5, <2>6 DEF Packings, Packed
<1>16. ASSUME NEW v \in Filling, ~v.overrun
       PROVE  [v EXCEPT !.overrun = @ \/ t.buffer = Null] = v
  <2>1. (v.overrun \/ t.buffer = Null) = FALSE
    BY <1>4, <1>16
  <2>2. v.overrun = FALSE
    BY <1>16, Fields
  <2> QED BY <1>16, <2>1, <2>2 DEF Filling
<1>17. CASE c.kind # "SEND"
  <2>1. Load(t, c) = t1
    BY <1>5, <1>7, <1>9, <1>11, <1>17 DEF Load
  <2>2. t1 \in Packings
    BY <1>12, <1>13, <1>15, <1>17
  <2> QED BY <1>3, <1>12, <1>16, <2>1, <2>2
<1>18. CASE c.kind = "SEND"
  <2>1. PICK less : less = t1.allowed - 1
    OBVIOUS
  <2>2. PICK u : u = [t1 EXCEPT !.allowed = less]
    OBVIOUS
  <2>3. less \in Int
    BY <1>12, <2>1, Fields
  <2>4. /\ u \in Filling
        /\ u.commandCount = t1.commandCount /\ u.bufferCount = t1.bufferCount
        /\ u.buffers = t1.buffers /\ u.commands = t1.commands
        /\ u.loaded = t1.loaded /\ u.overrun = t1.overrun /\ u.held = t1.held
    BY <1>12, <2>2, <2>3 DEF Filling
  <2>5. PICK t2 : t2 = EmptyDataBuffer(u)
    OBVIOUS
  <2>6. /\ t2 \in Filling /\ HoldsTheSame(t2, u)
        /\ t2.commandCount = u.commandCount
        /\ t2.buffer = t.bufferCount /\ t2.bufferCount = t.bufferCount + 1
    BY <1>2, <1>12, <2>4, <2>5, BufferTaken
  <2>7. PICK more : more = t2.segmentSize + PAYLOAD_SIZE
    OBVIOUS
  <2>8. PICK r : r = [t2 EXCEPT !.segmentSize = more]
    OBVIOUS
  <2>9. more \in Int
    BY <2>6, <2>7, Fields, Bounds
  <2>10. /\ r \in Filling
         /\ r.commandCount = t2.commandCount /\ r.bufferCount = t2.bufferCount
         /\ r.buffer = t2.buffer /\ r.buffers = t2.buffers /\ r.commands = t2.commands
         /\ r.loaded = t2.loaded /\ r.overrun = t2.overrun /\ r.held = t2.held
    BY <2>6, <2>8, <2>9 DEF Filling
  <2>11. PICK tail : tail = [what |-> "payload", of |-> c]
    OBVIOUS
  <2>12. tail \in Piece
    BY <2>11 DEF Piece, Written
  <2>13. PICK v : v = Add(r, tail)
    OBVIOUS
  <2>14. Load(t, c) = v
    BY <1>5, <1>7, <1>9, <1>11, <1>18, <2>1, <2>2, <2>5, <2>7, <2>8, <2>11, <2>13 DEF Load
  <2>15. /\ v \in Filling
         /\ v.commandCount = t.commandCount /\ v.bufferCount = t.bufferCount + 1
         /\ v.commands = t.commands /\ v.loaded = ls /\ v.overrun = t1.overrun
         /\ v.held = t.held
         /\ v.buffers = [t1.buffers EXCEPT ![t.bufferCount] = tail]
    <3>1. r.buffer # Null
      BY <1>4, <2>6, <2>10
    <3> QED BY <1>12, <2>4, <2>6, <2>10, <2>12, <2>13, <3>1, AddEffect DEF HoldsTheSame
  <2>16. /\ v.buffers[w.bufferCount] = head /\ v.buffers[t.bufferCount] = tail
         /\ \A b \in 1..(w.bufferCount - 1) : v.buffers[b] = w.buffers[b]
    <3>1. \A b \in 1..w.bufferCount : b \in Buffers /\ b # t.bufferCount
      BY <1>2, <1>3, <1>4, Bounds DEF Buffers
    <3>2. \A b \in 1..w.bufferCount : v.buffers[b] = t1.buffers[b]
      BY <1>13, <2>15, <3>1
    <3>3. v.buffers[t.bufferCount] = tail
      BY <1>4, <1>13, <2>15
    <3> QED BY <1>3, <1>13, <3>2, <3>3
  <2>17. v \in Packings
    BY <1>12, <1>15, <1>18, <2>11, <2>15, <2>16
  <2> QED BY <1>3, <1>12, <1>16, <2>14, <2>15, <2>17
<1> QED BY <1>17, <1>18

\* One turn of the loop of LoadReliableCommandsIntoChamber.
LEMMA ReliableLoaded ==
    ASSUME NEW w \in Packings, NEW c \in Command
    PROVE  LoadReliableCommand(w, c) \in Packings
<1>1. PICK t : t = TakeSlots(w)
  OBVIOUS
<1>2. t \in Packings /\ t \in Filling /\ ~t.overrun
  BY <1>1, SlotsLeft DEF Packings, Packed
<1>3. w \in Filling /\ BuffersLast(w)
  BY DEF Packings, Packed
<1>4. t.command # Null => t.buffer # Null
  BY <1>1, <1>3, SlotsTaken, Fields DEF Null
<1> DEFINE held == c.kind = "SEND" /\ w.allowed = 0
<1>5. CASE ~w.open
  <2>1. LoadReliableCommand(w, c) = [w EXCEPT !.held = Append(@, c)]
    BY <1>5 DEF LoadReliableCommand
  <2> QED BY <2>1, HeldBack
<1>6. CASE w.open /\ held
  <2>1. LoadReliableCommand(w, c) = [t EXCEPT !.held = Append(@, c)]
    BY <1>1, <1>6 DEF LoadReliableCommand
  <2> QED BY <1>2, <2>1, HeldBack
<1>7. CASE w.open /\ ~held /\ SendingContinues(t, c)
  <2>1. LoadReliableCommand(w, c) =
           [t EXCEPT !.open = FALSE, !.held = Append(@, c),
                     !.overrun = @ \/ (t.command # Null /\ t.buffer = Null)]
    BY <1>1, <1>7 DEF LoadReliableCommand
  <2>2. (t.overrun \/ (t.command # Null /\ t.buffer = Null)) = t.overrun
    BY <1>2, <1>4, Fields
  <2>3. [t EXCEPT !.open = FALSE, !.held = Append(@, c),
                  !.overrun = @ \/ (t.command # Null /\ t.buffer = Null)]
          = [t EXCEPT !.open = FALSE, !.held = Append(@, c)]
    BY <1>2, <2>2 DEF Filling
  <2>4. FALSE \in BOOLEAN /\ t \in Packings
    BY <1>2
  <2>5. [t EXCEPT !.open = FALSE, !.held = Append(@, c)] \in Packings
    BY <2>4, HeldBack, ZenonT(30)
  <2> QED BY <2>1, <2>3, <2>5, Zenon
<1>8. CASE w.open /\ ~held /\ ~SendingContinues(t, c)
  <2>1. LoadReliableCommand(w, c) = [Load(t, c) EXCEPT !.overrun = @ \/ t.buffer = Null]
    BY <1>1, <1>8 DEF LoadReliableCommand
  <2>2. t.command # Null
    BY <1>8 DEF SendingContinues
  <2> QED BY <1>1, <2>1, <2>2, CommandLoaded
<1> QED BY <1>5, <1>6, <1>7, <1>8

-----------------------------------------------------------------------------
(* The loops.                                                              *)

\* A loop from chambers in S to chambers in S.
LEMMA AcknowledgementWalkLemma ==
    ASSUME NEW S, NEW w \in S, NEW cs, NEW D, cs \in Seq(D),
           \A v \in S, c \in D : LoadAcknowledgement(v, c) \in S
    PROVE  SendAcknowledgements(w, cs) \in S
<1> DEFINE N    == Len(cs)
           step == [x \in S \X (1..N) |-> LoadAcknowledgement(x[1], cs[x[2]])]
<1>1. N \in Nat /\ \A i \in 1..N : cs[i] \in D
  OBVIOUS
<1>2. step \in Steps(S, N)
  BY <1>1 DEF Steps
<1>3. \A v \in S, i \in 1..N : step[<<v, i>>] = LoadAcknowledgement(v, cs[i])
  OBVIOUS
<1> HIDE DEF step
<1>4. PICK f : Recursion(f, N, S, w, step)
  <2> HIDE DEF N
  <2> QED BY <1>1, <1>2, RecursionExists
<1>5. f \in [0..N -> S] /\ f[0] = w /\ \A i \in 1..N : f[i] = step[<<f[i - 1], i>>]
  BY <1>4 DEF Recursion
<1> DEFINE Is(g) == g = [i \in 0..Len(cs) |->
                            IF i = 0 THEN w ELSE LoadAcknowledgement(g[i - 1], cs[i])]
<1>6. Is(f)
  <2>1. \A i \in 0..N : f[i] = IF i = 0 THEN w ELSE LoadAcknowledgement(f[i - 1], cs[i])
    <3> SUFFICES ASSUME NEW i \in 0..N, i # 0
                 PROVE  f[i] = LoadAcknowledgement(f[i - 1], cs[i])
      BY <1>5
    <3>1. i \in 1..N /\ i - 1 \in 0..N
      BY <1>1
    <3> QED BY <1>3, <1>5, <3>1
  <2>2. f = [i \in 0..N |-> f[i]]
    BY <1>5
  <2> QED BY <2>1, <2>2
<1>7. \E g : Is(g)
  BY <1>6
<1>8. Is(AcknowledgementWalk(w, cs))
  <2> HIDE DEF Is
  <2>1. AcknowledgementWalk(w, cs) = CHOOSE g : Is(g)
    BY DEF AcknowledgementWalk, Is
  <2> QED BY <1>7, <2>1
<1>9. PICK g : g = AcknowledgementWalk(w, cs)
  OBVIOUS
<1>10. g[0] = w /\ \A i \in 1..N : g[i] = LoadAcknowledgement(g[i - 1], cs[i])
  <2>1. Is(g)
    <3> HIDE DEF Is
    <3> QED BY <1>8, <1>9
  <2>2. 0 \in 0..N /\ \A i \in 1..N : i \in 0..N /\ i # 0
    BY <1>1
  <2> HIDE DEF N
  <2>3. \A i \in 0..N : g[i] = IF i = 0 THEN w ELSE LoadAcknowledgement(g[i - 1], cs[i])
    BY <2>1 DEF N
  <2> QED BY <2>2, <2>3
<1>11. \A i \in 0..N : g[i] \in S
  <2> HIDE DEF N
  <2>1. \A i \in 1..N : g[i - 1] \in S => g[i] \in S
    BY <1>1, <1>10
  <2> QED BY <1>1, <1>10, <2>1, BoundedInduction
<1> QED BY <1>1, <1>9, <1>11 DEF SendAcknowledgements

LEMMA ReliableWalkLemma ==
    ASSUME NEW S, NEW w, NEW a \in S, a = [w EXCEPT !.held = <<>>], NEW cs, NEW D, cs \in Seq(D),
           \A v \in S, c \in D : LoadReliableCommand(v, c) \in S
    PROVE  LoadReliableCommands(w, cs) \in S
<1> DEFINE N    == Len(cs)
           step == [x \in S \X (1..N) |-> LoadReliableCommand(x[1], cs[x[2]])]
<1>1. N \in Nat /\ \A i \in 1..N : cs[i] \in D
  OBVIOUS
<1>2. step \in Steps(S, N)
  BY <1>1 DEF Steps
<1>3. \A v \in S, i \in 1..N : step[<<v, i>>] = LoadReliableCommand(v, cs[i])
  OBVIOUS
<1> HIDE DEF step
<1>4. PICK f : Recursion(f, N, S, a, step)
  <2> HIDE DEF N
  <2> QED BY <1>1, <1>2, RecursionExists
<1>5. f \in [0..N -> S] /\ f[0] = a /\ \A i \in 1..N : f[i] = step[<<f[i - 1], i>>]
  BY <1>4 DEF Recursion
<1> DEFINE Is(g) == g = [i \in 0..Len(cs) |->
                            IF i = 0 THEN a ELSE LoadReliableCommand(g[i - 1], cs[i])]
<1>6. Is(f)
  <2>1. \A i \in 0..N : f[i] = IF i = 0 THEN a ELSE LoadReliableCommand(f[i - 1], cs[i])
    <3> SUFFICES ASSUME NEW i \in 0..N, i # 0
                 PROVE  f[i] = LoadReliableCommand(f[i - 1], cs[i])
      BY <1>5
    <3>1. i \in 1..N /\ i - 1 \in 0..N
      BY <1>1
    <3> QED BY <1>3, <1>5, <3>1
  <2>2. f = [i \in 0..N |-> f[i]]
    BY <1>5
  <2> QED BY <2>1, <2>2
<1>7. \E g : Is(g)
  BY <1>6
<1>8. Is(ReliableWalk(w, cs))
  <2> HIDE DEF Is
  <2>1. ReliableWalk(w, cs) = CHOOSE g : Is(g)
    BY Zenon DEF ReliableWalk, Is
  <2> QED BY <1>7, <2>1
<1>9. PICK g : g = ReliableWalk(w, cs)
  OBVIOUS
<1>10. g[0] = a /\ \A i \in 1..N : g[i] = LoadReliableCommand(g[i - 1], cs[i])
  <2>1. Is(g)
    <3> HIDE DEF Is
    <3> QED BY <1>8, <1>9
  <2>2. 0 \in 0..N /\ \A i \in 1..N : i \in 0..N /\ i # 0
    BY <1>1
  <2> HIDE DEF N
  <2>3. \A i \in 0..N : g[i] = IF i = 0 THEN a ELSE LoadReliableCommand(g[i - 1], cs[i])
    BY <2>1 DEF N
  <2> QED BY <2>2, <2>3
<1>11. \A i \in 0..N : g[i] \in S
  <2> HIDE DEF N
  <2>1. \A i \in 1..N : g[i - 1] \in S => g[i] \in S
    BY <1>1, <1>10
  <2> QED BY <1>1, <1>10, <2>1, BoundedInduction
<1> QED BY <1>1, <1>9, <1>11 DEF LoadReliableCommands


LEMMA ChamberPacked == Inv => Chamber \in Packings /\ Chamber.held \in Seq(Acknowledgement)
<1> SUFFICES ASSUME Inv PROVE Chamber \in Packings /\ Chamber.held \in Seq(Acknowledgement)
  OBVIOUS
<1>1. PICK w : w = Chamber
  OBVIOUS
<1>2. PICK none : none = <<>> /\ none \in Seq(Command) /\ none \in Seq(Acknowledgement)
  <2>1. <<>> \in Seq(Command) /\ <<>> \in Seq(Acknowledgement)
    BY EmptySeq, Zenon
  <2> QED BY <2>1, Zenon
<1>3. /\ w = [commandCount |-> 0, bufferCount |-> 1, segmentSize |-> HEADER_SIZE,
              command |-> Null, buffer |-> Null, buffers |-> buffers, commands |-> commands,
              loaded |-> none, held |-> none, allowed |-> 0, open |-> TRUE, overrun |-> FALSE]
  BY <1>1, <1>2 DEF Chamber
<1>4. w \in Filling
  <2>1. /\ 0 \in 0..PROTOCOL_MAXIMUM_SEGMENT_COMMANDS /\ 1 \in 1..BUFFER_MAXIMUM
        /\ HEADER_SIZE \in Int
    BY Bounds
  <2> QED BY <1>2, <1>3, <2>1 DEF Filling, Inv
<1>5. w.commandCount = 0 /\ w.bufferCount = 1 /\ w.loaded = none /\ w.held = none /\ ~w.overrun
  BY <1>3
<1>6. Placed(w, [i \in {} |-> 0])
  <2>1. DOMAIN none = {}
    BY <1>2
  <2> QED BY <1>5, <2>1 DEF Placed
<1>7. BuffersLast(w)
  BY <1>5 DEF BuffersLast
<1> QED BY <1>1, <1>2, <1>4, <1>5, <1>6, <1>7 DEF Packings, Packed

\* The chamber is written out with all that was loaded.
LEMMA WrittenOut ==
    ASSUME NEW w \in Packings, NEW pieces, pieces = Write(w)
    PROVE  \E at \in [DOMAIN w.loaded -> DOMAIN pieces] :
              \A i \in DOMAIN w.loaded :
                 /\ pieces[at[i]] = [what |-> "command", of |-> w.loaded[i]]
                 /\ w.loaded[i].kind = "SEND" =>
                       /\ at[i] + 1 \in DOMAIN pieces
                       /\ pieces[at[i] + 1] = [what |-> "payload", of |-> w.loaded[i]]
                 /\ \A j \in DOMAIN w.loaded : i < j => at[i] < at[j]
<1>1. PICK at : Placed(w, at)
  BY DEF Packings, Packed
<1>2. /\ DOMAIN pieces = 1..(w.bufferCount - 1)
      /\ \A b \in 1..(w.bufferCount - 1) :
            pieces[b] = IF w.buffers[b].what = "slot"
                        THEN [what |-> "command", of |-> w.commands[w.buffers[b].of]]
                        ELSE w.buffers[b]
  BY DEF Write
<1>3. at \in [DOMAIN w.loaded -> DOMAIN pieces]
  BY <1>1, <1>2 DEF Placed
<1>4. ASSUME NEW i \in DOMAIN w.loaded
      PROVE  pieces[at[i]] = [what |-> "command", of |-> w.loaded[i]]
  <2>1. at[i] \in 1..(w.bufferCount - 1) /\ Stands(w, at[i], w.loaded[i])
    BY <1>1 DEF Placed
  <2>2. CASE w.buffers[at[i]] = [what |-> "command", of |-> w.loaded[i]]
    <3>1. PICK piece : piece = [what |-> "command", of |-> w.loaded[i]]
      OBVIOUS
    <3>2. piece.what # "slot"
      BY <3>1
    <3>3. w.buffers[at[i]] = piece
      BY <2>2, <3>1
    <3> QED BY <1>2, <2>1, <3>1, <3>2, <3>3
  <2>3. ASSUME NEW k \in 0..(w.commandCount - 1),
               w.buffers[at[i]] = [what |-> "slot", of |-> k], w.commands[k] = w.loaded[i]
        PROVE  pieces[at[i]] = [what |-> "command", of |-> w.loaded[i]]
    BY <1>2, <2>1, <2>3
  <2> QED BY <2>1, <2>2, <2>3 DEF Stands
<1>5. ASSUME NEW i \in DOMAIN w.loaded, w.loaded[i].kind = "SEND"
      PROVE  /\ at[i] + 1 \in DOMAIN pieces
             /\ pieces[at[i] + 1] = [what |-> "payload", of |-> w.loaded[i]]
  <2>1. /\ at[i] + 1 \in 1..(w.bufferCount - 1)
        /\ w.buffers[at[i] + 1] = [what |-> "payload", of |-> w.loaded[i]]
    BY <1>1, <1>5 DEF Placed
  <2>2. PICK piece : piece = [what |-> "payload", of |-> w.loaded[i]]
    OBVIOUS
  <2>3. piece.what # "slot"
    BY <2>2
  <2>4. w.buffers[at[i] + 1] = piece
    BY <2>1, <2>2
  <2> QED BY <1>2, <2>1, <2>2, <2>3, <2>4
<1>6. \A i, j \in DOMAIN w.loaded : i < j => at[i] < at[j]
  BY <1>1 DEF Placed
<1> QED BY <1>3, <1>4, <1>5, <1>6

-----------------------------------------------------------------------------
(* The actions.                                                            *)

LEMMA InvInit == Init => Inv
<1> SUFFICES ASSUME Init PROVE Inv
  OBVIOUS
<1>1. PICK none : none = <<>> /\ none \in Seq(Command) /\ none \in Seq(Acknowledgement)
  <2>1. <<>> \in Seq(Command) /\ <<>> \in Seq(Acknowledgement)
    BY EmptySeq, Zenon
  <2> QED BY <2>1, Zenon
<1>2. DOMAIN none = {}
  BY <1>1
<1>3. loaded = none /\ datagram.pieces = none
  BY <1>1 DEF Init, Unsent
<1>4. LoadedIsWritten
  <2>1. [i \in {} |-> 0] \in [DOMAIN loaded -> DOMAIN datagram.pieces]
    BY <1>2, <1>3
  <2> QED BY <1>2, <1>3, <2>1 DEF LoadedIsWritten
<1>5. Empty \in Piece
  BY DEF Piece
<1> QED BY <1>1, <1>3, <1>4, <1>5 DEF Init, Inv, SlotsSuffice, Buffers, Slots

LEMMA QueueKeeps ==
    ASSUME Inv, NEW p \in Peers, NEW kind \in Kinds, Queue(p, kind)
    PROVE  Inv'
<1>1. PICK c : c = [kind |-> kind, peer |-> p, n |-> numbered[p] + 1]
  OBVIOUS
<1>2. c \in Command
  BY <1>1 DEF Command, Inv
<1>3. outgoing' \in [Peers -> Seq(Command)] /\ acknowledgements' \in [Peers -> Seq(Acknowledgement)]
  <2>1. CASE kind = "ACKNOWLEDGE"
    <3>1. c \in Acknowledgement
      BY <1>1, <1>2, <2>1 DEF Acknowledgement
    <3>2. Append(acknowledgements[p], c) \in Seq(Acknowledgement)
      BY <3>1 DEF Inv
    <3> QED BY <1>1, <2>1, <3>2 DEF Queue, Inv
  <2>2. CASE kind # "ACKNOWLEDGE"
    <3>1. Append(outgoing[p], c) \in Seq(Command)
      BY <1>2 DEF Inv
    <3> QED BY <1>1, <2>2, <3>1 DEF Queue, Inv
  <2> QED BY <2>1, <2>2
<1>4. numbered' \in [Peers -> Nat]
  BY DEF Queue, Inv
<1>5. UNCHANGED <<buffers, commands, datagram, loaded, overrun>>
  BY DEF Queue
<1> QED BY <1>3, <1>4, <1>5 DEF Inv, LoadedIsWritten, SlotsSuffice

\* Loading the reliable commands of a peer.
LEMMA AllLoaded ==
    ASSUME NEW w \in Packings, NEW cs \in Seq(Command)
    PROVE  LoadReliableCommands(w, cs) \in Packings
<1>1. PICK none : none = <<>> /\ none \in Seq(Command)
  <2>1. <<>> \in Seq(Command)
    BY EmptySeq, Zenon
  <2> QED BY <2>1, Zenon
<1>2. PICK v : v = [w EXCEPT !.held = none]
  OBVIOUS
<1>3. v \in Packings
  <2>1. /\ v \in Filling
        /\ v.commandCount = w.commandCount /\ v.bufferCount = w.bufferCount
        /\ v.buffers = w.buffers /\ v.commands = w.commands
        /\ v.loaded = w.loaded /\ v.overrun = w.overrun
    BY <1>1, <1>2 DEF Packings, Filling
  <2> QED BY <2>1, SamePacking
<1>4. \A x \in Packings, c \in Command : LoadReliableCommand(x, c) \in Packings
  BY ReliableLoaded
<1> QED BY <1>1, <1>2, <1>3, <1>4, ReliableWalkLemma

LEMMA SendKeeps ==
    ASSUME Inv, NEW p \in Peers, NEW allowed \in 0..Len(outgoing[p]), NEW idle \in BOOLEAN,
           SendOutgoingCommands(p, allowed, idle)
    PROVE  Inv'
<1>0. /\ outgoing[p] \in Seq(Command) /\ acknowledgements[p] \in Seq(Acknowledgement)
      /\ numbered[p] \in Nat
  BY DEF Inv
<1>1. PICK acked : acked = SendAcknowledgements(Chamber, acknowledgements[p])
  OBVIOUS
<1>2. acked \in Packings /\ acked.held \in Seq(Acknowledgement)
  <2> DEFINE S == {w \in Packings : w.held \in Seq(Acknowledgement)}
  <2>1. Chamber \in S
    BY ChamberPacked
  <2>2. \A v \in S, c \in Acknowledgement : LoadAcknowledgement(v, c) \in S
    BY AcknowledgementLoaded
  <2> HIDE DEF S
  <2>3. acked \in S
    BY <1>0, <1>1, <2>1, <2>2, AcknowledgementWalkLemma
  <2> QED BY <2>3 DEF S
<1>3. PICK opened : opened = [acked EXCEPT !.open = TRUE, !.allowed = allowed]
  OBVIOUS
<1>4. opened \in Packings
  <2>1. acked \in Filling /\ allowed \in Int
    BY <1>0, <1>2 DEF Packings
  <2>2. /\ opened \in Filling
        /\ opened.commandCount = acked.commandCount /\ opened.bufferCount = acked.bufferCount
        /\ opened.buffers = acked.buffers /\ opened.commands = acked.commands
        /\ opened.loaded = acked.loaded /\ opened.overrun = acked.overrun
    BY <1>3, <2>1 DEF Filling
  <2> QED BY <1>2, <2>2, SamePacking
<1>5. PICK first : first = LoadReliableCommands(opened, outgoing[p])
  OBVIOUS
<1>6. first \in Packings
  BY <1>0, <1>4, <1>5, AllLoaded
<1>7. PICK ping : ping = [kind |-> "PING", peer |-> p, n |-> numbered[p] + 1]
  OBVIOUS
<1>8. PICK pings : pings = Pings(first, p, idle)
  OBVIOUS
<1>9. PICK full : full = IF pings THEN LoadReliableCommands(first, Append(first.held, ping))
                         ELSE first
  OBVIOUS
<1>10. full \in Packings
  <2>1. ping \in Command
    BY <1>0, <1>7 DEF Command, Kinds
  <2>2. first.held \in Seq(Command)
    BY <1>6, Fields DEF Packings
  <2>3. PICK more : more = Append(first.held, ping)
    OBVIOUS
  <2>4. more \in Seq(Command)
    BY <2>1, <2>2, <2>3
  <2>5. LoadReliableCommands(first, more) \in Packings
    BY <1>6, <2>4, AllLoaded
  <2> QED BY <1>6, <1>9, <2>3, <2>5
<1>11. /\ acknowledgements' = [acknowledgements EXCEPT ![p] = acked.held]
       /\ outgoing' = [outgoing EXCEPT ![p] = full.held]
       /\ numbered' = IF pings THEN [numbered EXCEPT ![p] = @ + 1] ELSE numbered
       /\ buffers' = full.buffers
       /\ commands' = full.commands
       /\ datagram'.pieces = Write(full)
       /\ loaded' = full.loaded
       /\ overrun' = full.overrun
  BY <1>1, <1>3, <1>5, <1>7, <1>8, <1>9 DEF SendOutgoingCommands
<1>12. /\ full.held \in Seq(Command) /\ full.loaded \in Seq(Command) /\ ~full.overrun
       /\ full.buffers \in [Buffers -> Piece] /\ full.commands \in [Slots -> Command \cup {Empty}]
  BY <1>10, Fields DEF Packings, Packed
<1>13. LoadedIsWritten'
  <2>1. PICK pieces : pieces = Write(full)
    OBVIOUS
  <2>2. datagram'.pieces = pieces /\ loaded' = full.loaded
    BY <1>11, <2>1
  <2> QED BY <1>10, <2>1, <2>2, WrittenOut DEF LoadedIsWritten
<1>14. acknowledgements' \in [Peers -> Seq(Acknowledgement)] /\ outgoing' \in [Peers -> Seq(Command)]
  BY <1>2, <1>11, <1>12 DEF Inv
<1>15. numbered' \in [Peers -> Nat]
  BY <1>11 DEF Inv
<1> QED BY <1>11, <1>12, <1>13, <1>14, <1>15 DEF Inv, SlotsSuffice

LEMMA InvNext == Inv /\ [Next]_vars => Inv'
<1> SUFFICES ASSUME Inv, [Next]_vars PROVE Inv'
  OBVIOUS
<1>1. ASSUME NEW p \in Peers, NEW kind \in Kinds, Queue(p, kind) PROVE Inv'
  BY <1>1, QueueKeeps
<1>2. ASSUME NEW p \in Peers, NEW allowed \in 0..Len(outgoing[p]), NEW idle \in BOOLEAN,
             SendOutgoingCommands(p, allowed, idle)
      PROVE  Inv'
  BY <1>2, SendKeeps
<1>3. CASE UNCHANGED vars
  BY <1>3 DEF vars, Inv, LoadedIsWritten, SlotsSuffice
<1> QED BY <1>1, <1>2, <1>3 DEF Next

-----------------------------------------------------------------------------

\* What the chamber and the queues hold has its type, and the two properties hold.
THEOREM DatagramInvariant == Spec => []Inv
<1>1. Init => Inv
  BY InvInit
<1>2. Inv /\ [Next]_vars => Inv'
  BY InvNext
<1> QED BY <1>1, <1>2, PTL DEF Spec

\* Whatever SendAcknowledgements and LoadReliableCommandsIntoChamber take off a
\* queue is in the datagram, each command in its turn and its payload right
\* behind it, whatever is held back or refused a slot.
THEOREM LoadedIsAlwaysWritten == Spec => []LoadedIsWritten
<1>1. Inv => LoadedIsWritten
  BY DEF Inv
<1> QED BY <1>1, DatagramInvariant, PTL

\* With twice as many buffers as commands, and one for the header, the loops
\* never use a buffer that EmptyDataBuffer did not have.
THEOREM SlotsAlwaysSuffice == Spec => []SlotsSuffice
<1>1. Inv => SlotsSuffice
  BY DEF Inv
<1> QED BY <1>1, DatagramInvariant, PTL
=============================================================================
