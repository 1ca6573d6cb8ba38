------------------------- MODULE PeerReceiverProofs -------------------------
(***************************************************************************)
(* Theorems about PeerReceiver, for every set of channels, every set of    *)
(* commands that was numbered in one lap, and every window geometry.       *)
(***************************************************************************)
EXTENDS PeerReceiver, Induction

-----------------------------------------------------------------------------
(* Sequences.                                                              *)

LEMMA ConcatLemma ==
    ASSUME NEW S, NEW s \in Seq(S), NEW t \in Seq(S)
    PROVE  /\ s \o t \in Seq(S)
           /\ Len(s \o t) = Len(s) + Len(t)
           /\ \A i \in 1..(Len(s) + Len(t)) :
                (s \o t)[i] = IF i <= Len(s) THEN s[i] ELSE t[i - Len(s)]
OBVIOUS

\* Inserting after position p shifts what follows by one.
LEMMA InsertLemma ==
    ASSUME NEW S, NEW s \in Seq(S), NEW e \in S, NEW p \in 0..Len(s)
    PROVE  /\ InsertAt(s, p + 1, e) \in Seq(S)
           /\ Len(InsertAt(s, p + 1, e)) = Len(s) + 1
           /\ \A i \in 1..(Len(s) + 1) :
                InsertAt(s, p + 1, e)[i] =
                    IF i <= p THEN s[i]
                    ELSE IF i = p + 1 THEN e ELSE s[i - 1]
<1> DEFINE a == SubSeq(s, 1, p)
           b == SubSeq(s, p + 1, Len(s))
<1>1. a \in Seq(S) /\ Len(a) = p /\ \A i \in 1..p : a[i] = s[i]
  OBVIOUS
<1>2. /\ b \in Seq(S) /\ Len(b) = Len(s) - p
      /\ \A i \in 1..(Len(s) - p) : b[i] = s[i + p]
  OBVIOUS
<1>3. InsertAt(s, p + 1, e) = a \o <<e>> \o b
  <2>1. (p + 1) - 1 = p
    OBVIOUS
  <2>2. InsertAt(s, p + 1, e) =
          SubSeq(s, 1, (p + 1) - 1) \o <<e>> \o SubSeq(s, p + 1, Len(s))
    BY DEF InsertAt
  <2>3. QED
    BY <2>1, <2>2
<1> DEFINE front == Append(a, e)
<1>4. a \o <<e>> = front
  BY <1>1
<1>5. /\ front \in Seq(S) /\ Len(front) = p + 1
      /\ \A i \in 1..p : front[i] = s[i]
      /\ front[p + 1] = e
  BY <1>1
<1>6. InsertAt(s, p + 1, e) = front \o b
  BY <1>3, <1>4
<1> HIDE DEF a, b, front
<1>7. /\ front \o b \in Seq(S)
      /\ Len(front \o b) = Len(s) + 1
      /\ \A i \in 1..(Len(s) + 1) :
           (front \o b)[i] = IF i <= p + 1 THEN front[i] ELSE b[i - (p + 1)]
  <2>1. /\ front \o b \in Seq(S)
        /\ Len(front \o b) = Len(front) + Len(b)
        /\ \A i \in 1..(Len(front) + Len(b)) :
             (front \o b)[i] =
                 IF i <= Len(front) THEN front[i] ELSE b[i - Len(front)]
    BY <1>2, <1>5, ConcatLemma
  <2>2. Len(front) = p + 1 /\ Len(front) + Len(b) = Len(s) + 1
    BY <1>2, <1>5
  <2>3. QED
    BY <2>1, <2>2
<1>8. \A i \in 1..(Len(s) + 1) : i > p + 1 => b[i - (p + 1)] = s[i - 1]
  BY <1>2
<1>9. \A i \in 1..(Len(s) + 1) :
         (front \o b)[i] = IF i <= p THEN s[i]
                           ELSE IF i = p + 1 THEN e ELSE s[i - 1]
  BY <1>5, <1>7, <1>8
<1>10. InsertAt(s, p + 1, e) \in Seq(S)
  BY <1>6, <1>7
<1>11. Len(InsertAt(s, p + 1, e)) = Len(s) + 1
  BY <1>6, <1>7
<1>12. ASSUME NEW i \in 1..(Len(s) + 1)
       PROVE  InsertAt(s, p + 1, e)[i] =
                IF i <= p THEN s[i] ELSE IF i = p + 1 THEN e ELSE s[i - 1]
  BY <1>6, <1>9
<1>13. QED
  BY <1>10, <1>11, <1>12

\* Splitting a sequence after its first k elements.
LEMMA SplitLemma ==
    ASSUME NEW S, NEW s \in Seq(S), NEW k \in 0..Len(s)
    PROVE  /\ SubSeq(s, 1, k) \in Seq(S)
           /\ Len(SubSeq(s, 1, k)) = k
           /\ \A i \in 1..k : SubSeq(s, 1, k)[i] = s[i]
           /\ SubSeq(s, k + 1, Len(s)) \in Seq(S)
           /\ Len(SubSeq(s, k + 1, Len(s))) = Len(s) - k
           /\ \A i \in 1..(Len(s) - k) : SubSeq(s, k + 1, Len(s))[i] = s[i + k]
OBVIOUS

\* The elements of what is joined, split and extended.
LEMMA SetOfConcat ==
    ASSUME NEW S, NEW s \in Seq(S), NEW t \in Seq(S)
    PROVE  ToSet(s \o t) = ToSet(s) \cup ToSet(t)
<1> DEFINE w == s \o t
<1>1. /\ w \in Seq(S) /\ Len(w) = Len(s) + Len(t)
      /\ \A i \in 1..(Len(s) + Len(t)) :
            w[i] = IF i <= Len(s) THEN s[i] ELSE t[i - Len(s)]
  BY ConcatLemma
<1> HIDE DEF w
<1>2. ASSUME NEW i \in DOMAIN w PROVE w[i] \in ToSet(s) \cup ToSet(t)
  <2>1. i \in 1..(Len(s) + Len(t))
    BY <1>1
  <2>2. CASE i <= Len(s)
    BY <1>1, <2>1, <2>2 DEF ToSet
  <2>3. CASE ~(i <= Len(s))
    <3>1. i - Len(s) \in DOMAIN t /\ w[i] = t[i - Len(s)]
      BY <1>1, <2>1, <2>3
    <3> QED BY <3>1 DEF ToSet
  <2> QED BY <2>2, <2>3
<1>3. ASSUME NEW i \in DOMAIN s PROVE s[i] \in ToSet(w)
  <2>1. i \in DOMAIN w /\ w[i] = s[i]
    BY <1>1
  <2> QED BY <2>1 DEF ToSet
<1>4. ASSUME NEW i \in DOMAIN t PROVE t[i] \in ToSet(w)
  <2>1. PICK j \in DOMAIN w : j = i + Len(s)
    BY <1>1
  <2>2. w[j] = t[i]
    BY <1>1, <2>1
  <2> QED BY <2>1, <2>2 DEF ToSet
<1>5. ToSet(w) = ToSet(s) \cup ToSet(t)
  BY <1>2, <1>3, <1>4 DEF ToSet
<1> QED BY <1>5 DEF w

LEMMA SetOfSplit ==
    ASSUME NEW S, NEW s \in Seq(S), NEW k \in 0..Len(s)
    PROVE  ToSet(s) = ToSet(SubSeq(s, 1, k)) \cup ToSet(SubSeq(s, k + 1, Len(s)))
<1> DEFINE a == SubSeq(s, 1, k)
           b == SubSeq(s, k + 1, Len(s))
<1>1. /\ a \in Seq(S) /\ Len(a) = k /\ \A i \in 1..k : a[i] = s[i]
      /\ b \in Seq(S) /\ Len(b) = Len(s) - k
      /\ \A i \in 1..(Len(s) - k) : b[i] = s[i + k]
  BY SplitLemma
<1> HIDE DEF a, b
<1>2. ASSUME NEW i \in DOMAIN s PROVE s[i] \in ToSet(a) \cup ToSet(b)
  <2>1. CASE i <= k
    <3>1. i \in DOMAIN a /\ a[i] = s[i]
      BY <1>1, <2>1
    <3> QED BY <3>1 DEF ToSet
  <2>2. CASE ~(i <= k)
    <3>1. PICK j \in 1..(Len(s) - k) : j = i - k
      BY <2>2
    <3>2. j + k = i
      BY <3>1
    <3>3. j \in DOMAIN b /\ b[j] = s[j + k]
      BY <1>1
    <3> QED BY <3>2, <3>3 DEF ToSet
  <2> QED BY <2>1, <2>2
<1>3. ASSUME NEW i \in DOMAIN a PROVE a[i] \in ToSet(s)
  <2>1. i \in DOMAIN s /\ a[i] = s[i]
    BY <1>1
  <2> QED BY <2>1 DEF ToSet
<1>4. ASSUME NEW i \in DOMAIN b PROVE b[i] \in ToSet(s)
  <2>1. PICK j \in DOMAIN s : j = i + k
    BY <1>1
  <2>2. b[i] = s[j]
    BY <1>1, <2>1
  <2> QED BY <2>1, <2>2 DEF ToSet
<1>5. ToSet(s) = ToSet(a) \cup ToSet(b)
  BY <1>2, <1>3, <1>4 DEF ToSet
<1> QED BY <1>5 DEF a, b

LEMMA SetOfInsert ==
    ASSUME NEW S, NEW s \in Seq(S), NEW e \in S, NEW p \in 0..Len(s)
    PROVE  ToSet(InsertAt(s, p + 1, e)) = ToSet(s) \cup {e}
<1> DEFINE t == InsertAt(s, p + 1, e)
<1>1. /\ t \in Seq(S) /\ Len(t) = Len(s) + 1
      /\ \A i \in 1..(Len(s) + 1) :
            t[i] = IF i <= p THEN s[i] ELSE IF i = p + 1 THEN e ELSE s[i - 1]
  BY InsertLemma
<1> HIDE DEF t
<1>2. ASSUME NEW i \in DOMAIN t PROVE t[i] \in ToSet(s) \cup {e}
  <2>1. CASE i <= p
    <3>1. i \in DOMAIN s /\ t[i] = s[i]
      BY <1>1, <2>1
    <3> QED BY <3>1 DEF ToSet
  <2>2. CASE i = p + 1
    BY <1>1, <2>2
  <2>3. CASE i > p + 1
    <3>1. PICK j \in DOMAIN s : j = i - 1
      BY <1>1, <2>3
    <3>2. t[i] = s[j]
      BY <1>1, <2>3, <3>1
    <3> QED BY <3>1, <3>2 DEF ToSet
  <2> QED BY <1>1, <2>1, <2>2, <2>3
<1>3. ASSUME NEW i \in DOMAIN s PROVE s[i] \in ToSet(t)
  <2>1. CASE i <= p
    <3>1. i \in DOMAIN t /\ t[i] = s[i]
      BY <1>1, <2>1
    <3> QED BY <3>1 DEF ToSet
  <2>2. CASE ~(i <= p)
    <3>1. PICK j \in DOMAIN t : j = i + 1
      BY <1>1, <2>2
    <3>2. t[j] = s[i]
      BY <1>1, <2>2, <3>1
    <3> QED BY <3>1, <3>2 DEF ToSet
  <2> QED BY <2>1, <2>2
<1>4. e \in ToSet(t)
  <2>1. PICK j \in DOMAIN t : j = p + 1
    BY <1>1
  <2>2. t[j] = e
    BY <1>1, <2>1
  <2> QED BY <2>1, <2>2 DEF ToSet
<1>5. ToSet(t) = ToSet(s) \cup {e}
  BY <1>2, <1>3, <1>4 DEF ToSet
<1> QED BY <1>5 DEF t

-----------------------------------------------------------------------------
(* Numbers.                                                                *)

LEMMA SequenceNumbersPositive == SEQUENCE_NUMBERS \in Nat \ {0}
BY WindowAssumption DEF SEQUENCE_NUMBERS

LEMMA ModuloSmall ==
    ASSUME NEW n \in Nat, n < SEQUENCE_NUMBERS
    PROVE  n % SEQUENCE_NUMBERS = n
BY SequenceNumbersPositive

-----------------------------------------------------------------------------
(* The inductive invariant.                                                *)

\* What the theorems assume of the commands.
OneLap == FirstLap(Commands) /\ NoAliasing(Commands)

ChannelType == [incoming : 0..(SEQUENCE_NUMBERS - 1),
                commands : Seq(QueuedCommand)]

\* A queued command carries the numbers of a message that was sent.
Wire(id, q) ==
    \E c \in Commands : c.channel = id /\ q.rsn = c.start /\ q.count = c.count

\* The channel's number is 0 or the last one of a message that was sent.
Reach(id, n) ==
    n = 0 \/ \E c \in Commands : c.channel = id /\ n = LastOf(c)

WellFormed(id, ch) ==
    /\ ch \in ChannelType
    /\ Ordered(ch)
    /\ Reach(id, ch.incoming)
    /\ \A i \in DOMAIN ch.commands : Wire(id, ch.commands[i])

\* What every step keeps.  PendingInOrder alone is not inductive: the walk of
\* QueueIncomingCommand keeps it only when the numbers it compares are those
\* of whole, disjoint messages (Wire, Reach), and the list that remains after
\* a hand-over starts with a command that is not ready (~Stalled).
Inv ==
    /\ TypeOK
    /\ NothingStranded
    /\ \A id \in CHANNELS :
          /\ WellFormed(id, channels[id])
          /\ ~Stalled(channels[id])
          /\ Contiguous(handed[id], channels[id].incoming)

-----------------------------------------------------------------------------
(* The numbers of one message, and of two.                                 *)

LEMMA CommandType ==
    ASSUME NEW c \in Commands
    PROVE  /\ c \in Command
           /\ c.start \in Nat /\ c.count \in Nat /\ c.number \in Nat
           /\ c.rsn \in Nat /\ c.length \in Nat /\ c.msg \in Nat
           /\ c.channel \in CHANNELS
           /\ LastOf(c) \in Nat /\ c.start <= LastOf(c)
BY ReceiverAssumption DEF Command, LastOf

LEMMA WireNumbers ==
    ASSUME OneLap, NEW id, NEW q \in QueuedCommand, NEW c \in Commands,
           q.rsn = c.start, q.count = c.count
    PROVE  /\ LastNumber(q) = LastOf(c)
           /\ q.rsn \in Nat /\ q.rsn >= 1
           /\ LastNumber(q) \in 0..(SEQUENCE_NUMBERS - 1)
           /\ q.rsn <= LastNumber(q)
<1>1. /\ c.start >= 1 /\ LastOf(c) < SEQUENCE_NUMBERS
  BY DEF OneLap, FirstLap
<1>2. /\ c.start \in Nat /\ c.count \in Nat
      /\ LastOf(c) \in Nat /\ c.start <= LastOf(c)
  BY CommandType
<1>3. LastOf(c) % SEQUENCE_NUMBERS = LastOf(c)
  BY <1>1, <1>2, ModuloSmall
<1>4. LastNumber(q) = LastOf(c)
  <2>1. CASE c.count > 0
    BY <1>3, <2>1 DEF LastNumber, LastOf
  <2>2. CASE ~(c.count > 0)
    BY <2>2 DEF LastNumber, LastOf
  <2>3. QED
    BY <2>1, <2>2
<1>5. QED
  BY <1>1, <1>2, <1>4, SequenceNumbersPositive

LEMMA WireFacts ==
    ASSUME OneLap, NEW id, NEW q \in QueuedCommand, Wire(id, q)
    PROVE  /\ q.rsn \in Nat /\ q.rsn >= 1
           /\ LastNumber(q) \in 0..(SEQUENCE_NUMBERS - 1)
           /\ q.rsn <= LastNumber(q)
           /\ Reach(id, LastNumber(q))
<1>1. PICK c \in Commands :
         c.channel = id /\ q.rsn = c.start /\ q.count = c.count
  BY DEF Wire
<1>2. QED
  BY <1>1, WireNumbers DEF Reach

\* Of two messages of a channel the one that starts first ends first.
LEMMA WireDisjoint ==
    ASSUME OneLap, NEW id,
           NEW q \in QueuedCommand, NEW r \in QueuedCommand,
           Wire(id, q), Wire(id, r), q.rsn < r.rsn
    PROVE  LastNumber(q) < r.rsn
<1>1. PICK c \in Commands :
         c.channel = id /\ q.rsn = c.start /\ q.count = c.count
  BY DEF Wire
<1>2. PICK d \in Commands :
         d.channel = id /\ r.rsn = d.start /\ r.count = d.count
  BY DEF Wire
<1>3. \/ c.start = d.start /\ c.count = d.count
      \/ LastOf(c) < d.start
      \/ LastOf(d) < c.start
  BY <1>1, <1>2 DEF OneLap, FirstLap
<1>4. /\ c.start \in Nat /\ LastOf(c) \in Nat /\ c.start <= LastOf(c)
      /\ d.start \in Nat /\ LastOf(d) \in Nat /\ d.start <= LastOf(d)
  BY CommandType
<1>5. LastNumber(q) = LastOf(c)
  BY <1>1, WireNumbers
<1>6. QED
  BY <1>1, <1>2, <1>3, <1>4, <1>5

\* A number behind the channel is outside its window.
LEMMA BehindIsOutside ==
    ASSUME OneLap, NEW id, NEW ch, WellFormed(id, ch),
           NEW c \in Commands, c.start < ch.incoming
    PROVE  OutsideWindow(ch, c.start)
<1>1. ch.incoming \in Nat /\ c.start \in Nat
  BY CommandType, SequenceNumbersPositive DEF WellFormed, ChannelType
<1>2. PICK d \in Commands : ch.incoming = LastOf(d)
  BY <1>1 DEF WellFormed, Reach
<1>3. Window(c.start) + PEER_RELIABLE_WINDOWS >=
        Window(LastOf(d)) + PEER_FREE_RELIABLE_WINDOWS - 1
  BY <1>2 DEF OneLap, NoAliasing
<1>4. QED
  BY <1>2, <1>3 DEF OutsideWindow, WindowFrom

-----------------------------------------------------------------------------
(* What a channel is left with.                                            *)

LEMMA HandOverKeepsOrder ==
    ASSUME OneLap, NEW id, NEW ch, WellFormed(id, ch),
           NEW k \in 0..Len(ch.commands)
    PROVE  WellFormed(id, AfterHandOver(ch, k))
<1> DEFINE s == ch.commands
           t == SubSeq(s, k + 1, Len(s))
           n == IF k = 0 THEN ch.incoming ELSE LastNumber(s[k])
<1>1. /\ s \in Seq(QueuedCommand)
      /\ ch.incoming \in 0..(SEQUENCE_NUMBERS - 1)
  BY DEF WellFormed, ChannelType
<1>2. /\ t \in Seq(QueuedCommand) /\ Len(t) = Len(s) - k
      /\ \A i \in 1..Len(t) : t[i] = s[i + k]
  <2>1. k \in 0..Len(s)
    OBVIOUS
  <2> HIDE DEF s
  <2>2. /\ t \in Seq(QueuedCommand) /\ Len(t) = Len(s) - k
        /\ \A i \in 1..(Len(s) - k) : t[i] = s[i + k]
    BY <1>1, <2>1, SplitLemma
  <2> HIDE DEF t
  <2>3. QED
    BY <2>2
<1>3. AfterHandOver(ch, k) = [incoming |-> n, commands |-> t]
  BY DEF AfterHandOver
<1>4. /\ n \in 0..(SEQUENCE_NUMBERS - 1)
      /\ Reach(id, n)
      /\ \A i \in DOMAIN t : n < t[i].rsn
  <2>1. CASE k = 0
    BY <1>1, <1>2, <2>1 DEF WellFormed, Ordered
  <2>2. CASE k # 0
    <3>1. k \in DOMAIN s /\ s[k] \in QueuedCommand /\ Wire(id, s[k])
      BY <1>1, <2>2 DEF WellFormed
    <3>2. /\ LastNumber(s[k]) \in 0..(SEQUENCE_NUMBERS - 1)
          /\ Reach(id, LastNumber(s[k]))
      BY <3>1, WireFacts
    <3>3. \A i \in DOMAIN t : LastNumber(s[k]) < t[i].rsn
      <4>1. SUFFICES ASSUME NEW i \in DOMAIN t
                     PROVE  LastNumber(s[k]) < t[i].rsn
        OBVIOUS
      <4> HIDE DEF t
      <4>2. i + k \in DOMAIN s /\ k < i + k /\ t[i] = s[i + k]
        <5>1. Len(s) \in Nat /\ k \in Nat /\ i \in 1..(Len(s) - k)
          BY <1>1, <1>2
        <5>2. i + k \in 1..Len(s) /\ k < i + k
          BY <5>1
        <5>3. DOMAIN s = 1..Len(s) /\ t[i] = s[i + k]
          BY <1>1, <1>2
        <5> QED BY <5>2, <5>3
      <4>3. QED
        BY <3>1, <4>2 DEF WellFormed, Ordered
    <3>4. QED
      BY <2>2, <3>2, <3>3
  <2>3. QED
    BY <2>1, <2>2
<1>5. ASSUME NEW i \in DOMAIN t, NEW j \in DOMAIN t, i < j
      PROVE  LastNumber(t[i]) < t[j].rsn
  <2>1. /\ i + k \in DOMAIN s /\ j + k \in DOMAIN s /\ i + k < j + k
        /\ t[i] = s[i + k] /\ t[j] = s[j + k]
    <3> HIDE DEF t
    <3>1. /\ DOMAIN s = 1..Len(s) /\ DOMAIN t = 1..(Len(s) - k)
          /\ Len(s) \in Nat /\ k \in Nat
      BY <1>1, <1>2
    <3> HIDE DEF s
    <3>2. /\ i \in Nat /\ j \in Nat /\ i >= 1 /\ j >= 1
          /\ i <= Len(s) - k /\ j <= Len(s) - k
      BY <1>5, <3>1
    <3>3. i + k \in 1..Len(s) /\ j + k \in 1..Len(s) /\ i + k < j + k
      BY <1>5, <3>1, <3>2
    <3>4. t[i] = s[i + k] /\ t[j] = s[j + k]
      BY <1>2, <1>5, <3>1
    <3>5. QED
      BY <3>1, <3>3, <3>4
  <2>2. QED
    BY <2>1 DEF WellFormed, Ordered
<1>6. \A i \in DOMAIN t : Wire(id, t[i])
  BY <1>1, <1>2 DEF WellFormed
<1> HIDE DEF n, t
<1>7. QED
  BY <1>2, <1>3, <1>4, <1>5, <1>6 DEF WellFormed, ChannelType, Ordered

LEMMA HandOverLeavesNoStall ==
    ASSUME OneLap, NEW id, NEW ch, WellFormed(id, ch), NEW k, HandsOver(ch, k)
    PROVE  ~Stalled(AfterHandOver(ch, k))
<1> DEFINE after == AfterHandOver(ch, k)
<1>1. k \in 0..Len(ch.commands)
  BY DEF HandsOver
<1>2. WellFormed(id, after)
  BY <1>1, HandOverKeepsOrder
<1>3. ch.commands \in Seq(QueuedCommand)
  BY DEF WellFormed, ChannelType
<1>4. /\ after.incoming \in 0..(SEQUENCE_NUMBERS - 1)
      /\ after.commands \in Seq(QueuedCommand)
  BY <1>2 DEF WellFormed, ChannelType
<1>5. SUFFICES ASSUME Stalled(after) PROVE FALSE
  OBVIOUS
<1>6. /\ after.commands # <<>> /\ Complete(after.commands[1])
      /\ after.commands[1].rsn = (after.incoming + 1) % SEQUENCE_NUMBERS
  BY <1>5 DEF Stalled
<1>7. /\ after.commands = SubSeq(ch.commands, k + 1, Len(ch.commands))
      /\ after.incoming =
           IF k = 0 THEN ch.incoming ELSE LastNumber(ch.commands[k])
  BY DEF AfterHandOver
<1>8. k < Len(ch.commands) /\ after.commands[1] = ch.commands[k + 1]
  <2>1. /\ Len(after.commands) = Len(ch.commands) - k
        /\ \A i \in 1..(Len(ch.commands) - k) :
             after.commands[i] = ch.commands[i + k]
    BY <1>1, <1>3, <1>7, SplitLemma
  <2>2. Len(after.commands) > 0
    BY <1>4, <1>6
  <2>3. 1 \in 1..(Len(ch.commands) - k)
    BY <1>1, <1>3, <2>1, <2>2
  <2>4. QED
    BY <1>1, <1>3, <2>1, <2>3
<1>9. after.incoming < after.commands[1].rsn
  BY <1>2, <1>4, <1>6 DEF WellFormed, Ordered
<1>10. after.commands[1].rsn = after.incoming + 1
  <2>1. CASE after.incoming + 1 < SEQUENCE_NUMBERS
    BY <1>4, <1>6, <2>1, ModuloSmall
  <2>2. CASE after.incoming + 1 = SEQUENCE_NUMBERS
    <3>1. (after.incoming + 1) % SEQUENCE_NUMBERS = 0
      BY <2>2, SequenceNumbersPositive
    <3>2. QED
      BY <1>4, <1>6, <1>9, <3>1
  <2>3. QED
    BY <1>4, <2>1, <2>2, SequenceNumbersPositive
<1> HIDE DEF after
<1>11. Ready(ch, k + 1)
  BY <1>1, <1>4, <1>6, <1>7, <1>8, <1>10 DEF Ready
<1>12. QED
  BY <1>8, <1>11 DEF HandsOver

LEMMA OneBack ==
    ASSUME NEW n \in Nat, NEW m \in Nat, NEW i \in 1..(n + m), ~(i <= n), i - n # 1
    PROVE  /\ i - 1 \in 1..(n + m) /\ ~(i - 1 <= n) /\ i # 1
           /\ (i - n) - 1 \in 1..m /\ (i - 1) - n = (i - n) - 1
OBVIOUS

LEMMA HandOverContinues ==
    ASSUME NEW id, NEW ch, WellFormed(id, ch), NEW k, HandsOver(ch, k),
           NEW log \in Seq(QueuedCommand), Contiguous(log, ch.incoming)
    PROVE  /\ NewCommands(ch, k) \in Seq(QueuedCommand)
           /\ log \o NewCommands(ch, k) \in Seq(QueuedCommand)
           /\ NewCommands(ch, k) = <<>> <=> k = 0
           /\ Contiguous(log \o NewCommands(ch, k),
                         AfterHandOver(ch, k).incoming)
<1> DEFINE s == ch.commands
           new == NewCommands(ch, k)
           whole == log \o new
<1>1. k \in 0..Len(s) /\ s \in Seq(QueuedCommand)
  BY DEF HandsOver, WellFormed, ChannelType
<1>2. /\ new \in Seq(QueuedCommand) /\ Len(new) = k
      /\ \A i \in 1..k : new[i] = s[i]
  BY <1>1, SplitLemma DEF NewCommands
<1> HIDE DEF new
<1>3. /\ whole \in Seq(QueuedCommand) /\ Len(whole) = Len(log) + k
      /\ \A i \in 1..(Len(log) + k) :
           whole[i] = IF i <= Len(log) THEN log[i] ELSE new[i - Len(log)]
  BY <1>2, ConcatLemma
<1>4. new = <<>> <=> k = 0
  BY <1>2
<1>5. AfterHandOver(ch, k).incoming =
        IF k = 0 THEN ch.incoming ELSE LastNumber(s[k])
  BY DEF AfterHandOver
<1> HIDE DEF new, whole
<1>6. AfterHandOver(ch, k).incoming =
        IF whole = <<>> THEN 0 ELSE LastNumber(whole[Len(whole)])
  <2>1. CASE k = 0
    <3>1. Len(whole) = Len(log) /\ (whole = <<>> <=> log = <<>>)
      BY <1>3, <2>1
    <3>2. log # <<>> => whole[Len(whole)] = log[Len(log)]
      BY <1>3, <2>1
    <3>3. QED
      BY <1>5, <2>1, <3>1, <3>2 DEF Contiguous
  <2>2. CASE k # 0
    <3>1. whole # <<>> /\ whole[Len(whole)] = s[k]
      BY <1>1, <1>2, <1>3, <2>2
    <3>2. QED
      BY <1>5, <2>2, <3>1
  <2>3. QED
    BY <2>1, <2>2
<1>7. ASSUME NEW i \in DOMAIN whole
      PROVE  whole[i].rsn =
               1 + (IF i = 1 THEN 0 ELSE LastNumber(whole[i - 1]))
  <2>1. i \in 1..(Len(log) + k)
    BY <1>3
  <2>2. CASE i <= Len(log)
    <3>1. whole[i] = log[i] /\ (i # 1 => whole[i - 1] = log[i - 1])
      BY <1>3, <2>1, <2>2
    <3>2. QED
      BY <2>1, <2>2, <3>1 DEF Contiguous
  <2>3. CASE i > Len(log)
    <3> DEFINE j == i - Len(log)
    <3>1. j \in 1..k /\ whole[i] = s[j]
      BY <1>1, <1>2, <1>3, <2>1, <2>3
    <3>2. s[j].rsn = 1 + (IF j = 1 THEN ch.incoming ELSE LastNumber(s[j - 1]))
      BY <3>1 DEF HandsOver, Ready
    <3>3. CASE j = 1 /\ i = 1
      <4>1. log = <<>>
        BY <3>3
      <4>2. QED
        BY <3>1, <3>2, <3>3, <4>1 DEF Contiguous
    <3>4. CASE j = 1 /\ i # 1
      <4>1. log # <<>> /\ whole[i - 1] = log[Len(log)]
        BY <1>3, <2>1, <3>4
      <4>2. QED
        BY <3>1, <3>2, <3>4, <4>1 DEF Contiguous
    <3>5. CASE j # 1
      <4>1. /\ i - 1 \in 1..(Len(log) + k) /\ ~(i - 1 <= Len(log)) /\ i # 1
            /\ j - 1 \in 1..k /\ (i - 1) - Len(log) = j - 1
        <5>1. Len(log) \in Nat
          OBVIOUS
        <5>2. k \in Nat
          BY <1>1
        <5> QED BY <2>1, <2>3, <3>5, <5>1, <5>2, OneBack
      <4>3. whole[i - 1] = new[j - 1]
        BY <1>3, <4>1
      <4>4. whole[i - 1] = s[j - 1] /\ i # 1
        BY <1>2, <4>1, <4>3
      <4>2. QED
        BY <3>1, <3>2, <3>5, <4>4
    <3>6. QED
      BY <3>3, <3>4, <3>5
  <2>4. QED
    BY <2>1, <2>2, <2>3
<1>8. Contiguous(whole, AfterHandOver(ch, k).incoming)
  BY <1>6, <1>7 DEF Contiguous
<1>9. QED
  BY <1>2, <1>3, <1>4, <1>8 DEF new, whole

\* The command that QueueIncomingCommand makes room for is in its place.
LEMMA InsertKeepsOrder ==
    ASSUME OneLap, NEW id, NEW ch, WellFormed(id, ch),
           NEW c \in Commands, c.channel = id,
           NEW e \in QueuedCommand, e.rsn = c.start, e.count = c.count,
           NEW p \in 0..Len(ch.commands), GoesAfter(ch, c.start, p)
    PROVE  WellFormed(id, Inserted(ch, e, p))
<1> DEFINE s == ch.commands
           t == InsertAt(s, p + 1, e)
<1>1. /\ s \in Seq(QueuedCommand)
      /\ ch.incoming \in 0..(SEQUENCE_NUMBERS - 1)
  BY DEF WellFormed, ChannelType
<1>2. /\ t \in Seq(QueuedCommand) /\ Len(t) = Len(s) + 1
      /\ \A i \in 1..(Len(s) + 1) :
           t[i] = IF i <= p THEN s[i] ELSE IF i = p + 1 THEN e ELSE s[i - 1]
  BY <1>1, InsertLemma
<1>3. Inserted(ch, e, p) = [incoming |-> ch.incoming, commands |-> t]
  BY DEF Inserted, WellFormed, ChannelType
<1>4. Wire(id, e)
  BY DEF Wire
<1>5. /\ e.rsn \in Nat /\ e.rsn <= LastNumber(e)
      /\ LastNumber(e) \in 0..(SEQUENCE_NUMBERS - 1)
  BY <1>4, WireFacts
<1>6. \A i \in DOMAIN s :
         /\ s[i] \in QueuedCommand /\ Wire(id, s[i])
         /\ s[i].rsn \in Nat /\ LastNumber(s[i]) \in Nat
         /\ s[i].rsn <= LastNumber(s[i])
         /\ ch.incoming < s[i].rsn
  <2>1. \A i \in DOMAIN s : s[i] \in QueuedCommand /\ Wire(id, s[i])
    BY <1>1 DEF WellFormed
  <2>2. \A i \in DOMAIN s : ch.incoming < s[i].rsn
    BY DEF WellFormed, Ordered
  <2>3. QED
    BY <2>1, <2>2, WireFacts
<1>7. ch.incoming < e.rsn
  <2>1. ~OutsideWindow(ch, c.start) /\ c.start # ch.incoming
    BY DEF GoesAfter, Unwanted
  <2>2. ~(c.start < ch.incoming)
    BY <2>1, BehindIsOutside
  <2>3. QED
    BY <1>1, <1>5, <2>1, <2>2
<1>8. \A i \in DOMAIN s : i <= p => LastNumber(s[i]) < e.rsn
  <2>1. SUFFICES ASSUME NEW i \in DOMAIN s, i <= p
                 PROVE  LastNumber(s[i]) < e.rsn
    OBVIOUS
  <2>2. p \in DOMAIN s /\ WalkEndsAt(ch, c.start, p)
    BY <1>1, <2>1 DEF GoesAfter
  <2>3. s[p].rsn <= e.rsn /\ s[p].rsn # e.rsn
    BY <1>1, <1>5, <1>7, <2>2 DEF GoesAfter, WalkEndsAt, StopsAt, Unwanted
  <2>4. LastNumber(s[p]) < e.rsn
    BY <1>4, <1>5, <1>6, <2>2, <2>3, WireDisjoint
  <2>5. CASE i = p
    BY <2>4, <2>5
  <2>6. CASE i # p
    <3>1. LastNumber(s[i]) < s[p].rsn
      BY <1>1, <2>1, <2>2, <2>6 DEF WellFormed, Ordered
    <3>2. QED
      BY <1>5, <1>6, <2>1, <2>2, <2>3, <3>1
  <2>7. QED
    BY <2>5, <2>6
<1>9. \A i \in DOMAIN s : i > p => LastNumber(e) < s[i].rsn
  <2>1. SUFFICES ASSUME NEW i \in DOMAIN s, i > p
                 PROVE  LastNumber(e) < s[i].rsn
    OBVIOUS
  <2>2. WalkEndsAt(ch, c.start, p)
    BY <1>1, <2>1 DEF GoesAfter
  <2>3. ~StopsAt(ch, c.start, i)
    BY <2>1, <2>2 DEF WalkEndsAt
  <2>4. e.rsn < s[i].rsn
    BY <1>1, <1>5, <1>6, <1>7, <2>1, <2>3 DEF StopsAt
  <2>5. QED
    BY <1>4, <1>6, <2>1, <2>4, WireDisjoint
<1> HIDE DEF t
<1>10. \A i \in DOMAIN t : ch.incoming < t[i].rsn
  <2>1. SUFFICES ASSUME NEW i \in 1..(Len(s) + 1)
                 PROVE  ch.incoming < t[i].rsn
    BY <1>2
  <2>2. CASE i <= p
    <3>1. i \in DOMAIN s /\ t[i] = s[i]
      BY <1>1, <1>2, <2>2
    <3>2. QED
      BY <1>6, <3>1
  <2>3. CASE i = p + 1
    <3>1. t[i] = e
      BY <1>2, <2>1, <2>3
    <3>2. QED
      BY <1>7, <3>1
  <2>4. CASE i > p + 1
    <3>1. i - 1 \in DOMAIN s /\ t[i] = s[i - 1]
      BY <1>1, <1>2, <2>4
    <3>2. QED
      BY <1>6, <3>1
  <2>5. QED
    BY <1>1, <2>2, <2>3, <2>4
<1>11. \A i \in DOMAIN t : Wire(id, t[i])
  <2>1. SUFFICES ASSUME NEW i \in 1..(Len(s) + 1)
                 PROVE  Wire(id, t[i])
    BY <1>2
  <2>2. CASE i <= p
    <3>1. i \in DOMAIN s /\ t[i] = s[i]
      BY <1>1, <1>2, <2>2
    <3> QED BY <1>6, <3>1
  <2>3. CASE i = p + 1
    BY <1>2, <1>4, <2>3
  <2>4. CASE i > p + 1
    <3>1. i - 1 \in DOMAIN s /\ t[i] = s[i - 1]
      BY <1>1, <1>2, <2>4
    <3> QED BY <1>6, <3>1
  <2> QED BY <1>1, <2>2, <2>3, <2>4
<1>12. ASSUME NEW i \in DOMAIN t, NEW j \in DOMAIN t, i < j
       PROVE  LastNumber(t[i]) < t[j].rsn
  <2>1. i \in 1..(Len(s) + 1) /\ j \in 1..(Len(s) + 1)
    BY <1>2
  <2>2. CASE j <= p
    <3>1. i \in DOMAIN s /\ j \in DOMAIN s /\ t[i] = s[i] /\ t[j] = s[j]
      BY <1>1, <1>2, <1>12, <2>1, <2>2
    <3>2. QED
      BY <1>12, <3>1 DEF WellFormed, Ordered
  <2>3. CASE j = p + 1
    <3>1. i \in DOMAIN s /\ i <= p /\ t[i] = s[i] /\ t[j] = e
      BY <1>1, <1>2, <1>12, <2>1, <2>3
    <3>2. QED
      BY <1>8, <3>1
  <2>4. CASE j > p + 1 /\ i = p + 1
    <3>1. t[i] = e /\ j - 1 \in DOMAIN s /\ j - 1 > p /\ t[j] = s[j - 1]
      BY <1>1, <1>2, <2>1, <2>4
    <3>2. QED
      BY <1>9, <3>1
  <2>5. CASE j > p + 1 /\ i # p + 1
    <3>1. j - 1 \in DOMAIN s /\ t[j] = s[j - 1]
      BY <1>1, <1>2, <2>1, <2>5
    <3>2. PICK i0 \in DOMAIN s : i0 < j - 1 /\ t[i] = s[i0]
      <4>1. CASE i <= p
        <5>1. i \in DOMAIN s /\ t[i] = s[i] /\ i < j - 1
          BY <1>1, <1>2, <2>1, <2>5, <4>1
        <5>2. QED
          BY <5>1
      <4>2. CASE i > p
        <5>1. i - 1 \in DOMAIN s /\ t[i] = s[i - 1] /\ i - 1 < j - 1
          BY <1>1, <1>2, <1>12, <2>1, <2>5, <4>2
        <5>2. QED
          BY <5>1
      <4>3. QED
        BY <1>1, <2>1, <4>1, <4>2
    <3>3. QED
      BY <3>1, <3>2 DEF WellFormed, Ordered
  <2>6. QED
    BY <2>1, <2>2, <2>3, <2>4, <2>5
<1>13. QED
  BY <1>1, <1>2, <1>3, <1>10, <1>11, <1>12
  DEF WellFormed, ChannelType, Ordered

\* A fragment changes no number of the command it is added to.
LEMMA FragmentKeepsOrder ==
    ASSUME OneLap, NEW id, NEW ch, WellFormed(id, ch), NEW c \in Commands,
           NEW p \in DOMAIN ch.commands
    PROVE  WellFormed(id,
               [ch EXCEPT !.commands[p] = WithFragment(ch.commands[p], c)])
<1> DEFINE s == ch.commands
           e == WithFragment(s[p], c)
           t == [s EXCEPT ![p] = e]
<1>1. s \in Seq(QueuedCommand) /\ s[p] \in QueuedCommand
  BY DEF WellFormed, ChannelType
<1>2. /\ e \in QueuedCommand /\ e.rsn = s[p].rsn /\ e.count = s[p].count
  <2>1. Part(c) \in [msg : Nat, number : Nat] /\ c.number \in Nat
    BY CommandType DEF Part
  <2>2. Append(s[p].payload, Part(c)) \in Seq([msg : Nat, number : Nat])
    BY <1>1, <2>1 DEF QueuedCommand
  <2>3. QED
    BY <1>1, <2>1, <2>2 DEF WithFragment, QueuedCommand
<1>3. LastNumber(e) = LastNumber(s[p]) /\ (Wire(id, e) <=> Wire(id, s[p]))
  BY <1>2 DEF LastNumber, Wire
<1> HIDE DEF e
<1>4. /\ t \in Seq(QueuedCommand) /\ DOMAIN t = DOMAIN s
      /\ \A i \in DOMAIN s : t[i] = IF i = p THEN e ELSE s[i]
  BY <1>1, <1>2
<1>5. [ch EXCEPT !.commands[p] = e] =
        [incoming |-> ch.incoming, commands |-> t]
  <2>1. ch = [incoming |-> ch.incoming, commands |-> ch.commands]
    BY DEF WellFormed, ChannelType
  <2>2. PICK n, w : ch = [incoming |-> n, commands |-> w]
    BY <2>1
  <2> QED BY <2>2
<1> HIDE DEF t
<1>6. Ordered([incoming |-> ch.incoming, commands |-> t])
  <2>1. \A i \in DOMAIN s : t[i].rsn = s[i].rsn /\ LastNumber(t[i]) = LastNumber(s[i])
    BY <1>2, <1>3, <1>4
  <2>2. Ordered(ch)
    BY DEF WellFormed
  <2> QED BY <1>4, <2>1, <2>2 DEF Ordered
<1>7. \A i \in DOMAIN t : Wire(id, t[i])
  BY <1>3, <1>4 DEF WellFormed
<1>8. WellFormed(id, [incoming |-> ch.incoming, commands |-> t])
  BY <1>4, <1>6, <1>7 DEF WellFormed, ChannelType
<1>9. QED
  BY <1>5, <1>8 DEF e

-----------------------------------------------------------------------------
(* The steps.                                                              *)

ChannelsKept ==
    \A id \in CHANNELS :
        /\ WellFormed(id, channels[id])
        /\ ~Stalled(channels[id])
        /\ Contiguous(handed[id], channels[id].incoming)

LEMMA InvParts == Inv <=> TypeOK /\ NothingStranded /\ ChannelsKept
BY DEF Inv, ChannelsKept

LEMMA InitKeeps == Init => Inv
<1> SUFFICES ASSUME Init PROVE Inv
  OBVIOUS
<1>1. EmptyChannel \in ChannelType
  <2>1. 0 \in 0..(SEQUENCE_NUMBERS - 1)
    BY SequenceNumbersPositive
  <2>2. QED
    BY <2>1 DEF EmptyChannel, ChannelType
<1>2. TypeOK
  <2>1. arrivals \in 0..MAX_ARRIVALS
    BY ReceiverAssumption DEF Init
  <2>2. channels \in [CHANNELS -> ChannelType]
    BY <1>1 DEF Init
  <2>3. handed \in [CHANNELS -> Seq(QueuedCommand)]
    BY DEF Init
  <2>4. /\ acknowledgements \in Seq(Acknowledgement)
        /\ dispatched_commands \in Seq(QueuedCommand)
        /\ delivered \in Seq(QueuedCommand)
        /\ confirmed \in SUBSET Acknowledgement
    BY DEF Init
  <2>5. /\ alive \in BOOLEAN /\ needs_dispatch \in BOOLEAN
        /\ state \in {"CONNECTED", "DISCONNECT_LATER"}
        /\ total_waiting_data \in Nat /\ dispatch_queue \in Nat
    BY DEF Init
  <2>6. QED
    BY <2>1, <2>2, <2>3, <2>4, <2>5 DEF TypeOK, ChannelType
<1>3. NothingStranded
  BY DEF Init, NothingStranded
<1>4. ChannelsKept
  <2>1. SUFFICES ASSUME NEW id \in CHANNELS
                 PROVE  /\ WellFormed(id, EmptyChannel)
                        /\ ~Stalled(EmptyChannel)
                        /\ Contiguous(<<>>, EmptyChannel.incoming)
    BY DEF Init, ChannelsKept
  <2>2. WellFormed(id, EmptyChannel) /\ ~Stalled(EmptyChannel)
    BY <1>1 DEF WellFormed, Ordered, Stalled, Reach, EmptyChannel
  <2>3. Contiguous(<<>>, EmptyChannel.incoming)
    BY DEF Contiguous, EmptyChannel
  <2>4. QED
    BY <2>2, <2>3
<1>5. QED
  BY <1>2, <1>3, <1>4, InvParts

\* The hand-over, from any state of the channel with the old number.
LEMMA DispatchKeeps ==
    ASSUME OneLap, Inv, NEW id \in CHANNELS, NEW ch, WellFormed(id, ch),
           ch.incoming = channels[id].incoming,
           DispatchIncomingReliableCommands(id, ch), UNCHANGED state
    PROVE  /\ ChannelsKept'
           /\ NothingStranded'
           /\ channels' \in [CHANNELS -> ChannelType]
           /\ dispatched_commands' \in Seq(QueuedCommand)
           /\ handed' \in [CHANNELS -> Seq(QueuedCommand)]
           /\ needs_dispatch' \in BOOLEAN
           /\ dispatch_queue' \in Nat
<1>1. PICK k \in 0..Len(ch.commands) :
        /\ HandsOver(ch, k)
        /\ channels' = [channels EXCEPT ![id] = AfterHandOver(ch, k)]
        /\ dispatched_commands' = NewCommands(ch, k) \o dispatched_commands
        /\ handed' = [handed EXCEPT ![id] = @ \o NewCommands(ch, k)]
        /\ IF k = 0 \/ needs_dispatch
           THEN UNCHANGED <<needs_dispatch, dispatch_queue>>
           ELSE needs_dispatch' = TRUE /\ dispatch_queue' = dispatch_queue + 1
  BY DEF DispatchIncomingReliableCommands
<1> DEFINE after == AfterHandOver(ch, k)
           new   == NewCommands(ch, k)
<1>2. /\ channels \in [CHANNELS -> ChannelType]
      /\ handed \in [CHANNELS -> Seq(QueuedCommand)]
      /\ dispatched_commands \in Seq(QueuedCommand)
      /\ needs_dispatch \in BOOLEAN /\ dispatch_queue \in Nat
  BY DEF Inv, TypeOK, ChannelType
<1>3. WellFormed(id, after) /\ ~Stalled(after)
  BY <1>1, HandOverKeepsOrder, HandOverLeavesNoStall
<1>4. /\ new \in Seq(QueuedCommand)
      /\ handed[id] \o new \in Seq(QueuedCommand)
      /\ new = <<>> <=> k = 0
      /\ Contiguous(handed[id] \o new, after.incoming)
  <2>1. handed[id] \in Seq(QueuedCommand)
    BY <1>2
  <2>2. Contiguous(handed[id], ch.incoming)
    BY DEF Inv
  <2>3. QED
    BY <1>1, <2>1, <2>2, HandOverContinues
<1> HIDE DEF after, new
<1>5. /\ channels' = [channels EXCEPT ![id] = after]
      /\ dispatched_commands' = new \o dispatched_commands
      /\ handed' = [handed EXCEPT ![id] = @ \o new]
  BY <1>1 DEF after, new
<1>6. after \in ChannelType
  BY <1>3 DEF WellFormed
<1>7. /\ channels' \in [CHANNELS -> ChannelType]
      /\ handed' \in [CHANNELS -> Seq(QueuedCommand)]
  BY <1>2, <1>4, <1>5, <1>6
<1>8. dispatched_commands' \in Seq(QueuedCommand)
  BY <1>2, <1>4, <1>5, ConcatLemma
<1>9. needs_dispatch' \in BOOLEAN /\ dispatch_queue' \in Nat
  <2>1. CASE k = 0 \/ needs_dispatch
    <3>1. needs_dispatch' = needs_dispatch /\ dispatch_queue' = dispatch_queue
      BY <1>1, <2>1, Zenon
    <3>2. QED
      BY <1>2, <3>1
  <2>2. CASE ~(k = 0 \/ needs_dispatch)
    <3>1. needs_dispatch' = TRUE /\ dispatch_queue' = dispatch_queue + 1
      BY <1>1, <2>2, Zenon
    <3>2. QED
      BY <1>2, <3>1
  <2>3. QED
    BY <2>1, <2>2
<1>10. ChannelsKept'
  <2>1. SUFFICES ASSUME NEW j \in CHANNELS
                 PROVE  /\ WellFormed(j, channels'[j])
                        /\ ~Stalled(channels'[j])
                        /\ Contiguous(handed'[j], channels'[j].incoming)
    BY DEF ChannelsKept
  <2>2. CASE j = id
    <3>1. channels'[j] = after /\ handed'[j] = handed[id] \o new
      BY <1>2, <1>5, <2>2
    <3>2. QED
      BY <1>3, <1>4, <2>2, <3>1
  <2>3. CASE j # id
    <3>1. channels'[j] = channels[j] /\ handed'[j] = handed[j]
      BY <1>2, <1>5, <2>3
    <3>2. QED
      BY <3>1 DEF Inv
  <2>4. QED
    BY <2>2, <2>3
<1>11. NothingStranded'
  <2>1. k = 0 => dispatched_commands' = dispatched_commands
    BY <1>2, <1>4, <1>5
  <2>2. QED
    BY <1>1, <1>2, <2>1 DEF Inv, NothingStranded
<1>12. QED
  BY <1>7, <1>8, <1>9, <1>10, <1>11

LEMMA AcknowledgementsTyped ==
    ASSUME Inv, NEW id \in CHANNELS, NEW rsn \in Nat,
           QueueAcknowledgement(id, rsn)
    PROVE  acknowledgements' \in Seq(Acknowledgement)
<1>1. /\ acknowledgements \in Seq(Acknowledgement)
      /\ [channel |-> id, rsn |-> rsn] \in Acknowledgement
  BY DEF Inv, TypeOK, Acknowledgement
<1>2. QED
  BY <1>1 DEF QueueAcknowledgement

LEMMA NewCommandType ==
    ASSUME NEW c \in Commands
    PROVE  /\ NewIncomingCommand(c) \in QueuedCommand
           /\ NewIncomingCommand(c).rsn = c.start
           /\ NewIncomingCommand(c).count = c.count
<1>1. Part(c) \in [msg : Nat, number : Nat]
  BY CommandType DEF Part
<1>2. <<Part(c)>> \in Seq([msg : Nat, number : Nat])
  BY <1>1
<1>3. (IF c.kind = "SEND_FRAGMENT" THEN {c.number} ELSE {}) \in SUBSET Nat
  BY CommandType
<1>4. QED
  BY <1>2, <1>3, CommandType DEF NewIncomingCommand, QueuedCommand

\* All that the proofs need of Counted.
Bounded == arrivals' \in 0..MAX_ARRIVALS

LEMMA ReceivesTyped ==
    ASSUME Inv, NEW c \in Commands, Bounded, Receives(c)
    PROVE  /\ arrivals' \in 0..MAX_ARRIVALS
           /\ state' = state /\ state' \in {"CONNECTED", "DISCONNECT_LATER"}
           /\ delivered' \in Seq(QueuedCommand)
           /\ confirmed' \in SUBSET Acknowledgement
<1>1. arrivals' \in 0..MAX_ARRIVALS
  BY DEF Bounded
<1>2. QED
  BY <1>1 DEF Receives, Inv, TypeOK

\* A step that hands over from ch and acknowledges keeps the invariant.
LEMMA HandOverStep ==
    ASSUME OneLap, Inv, NEW c \in Commands, Bounded, Receives(c), UNCHANGED alive,
           NEW ch, WellFormed(c.channel, ch),
           ch.incoming = channels[c.channel].incoming,
           DispatchIncomingReliableCommands(c.channel, ch),
           NEW rsn \in Nat, QueueAcknowledgement(c.channel, rsn),
           total_waiting_data' \in Nat
    PROVE  Inv'
<1>1. c.channel \in CHANNELS
  BY CommandType
<1>2. /\ arrivals' \in 0..MAX_ARRIVALS
      /\ state' = state /\ state' \in {"CONNECTED", "DISCONNECT_LATER"}
      /\ delivered' \in Seq(QueuedCommand)
      /\ confirmed' \in SUBSET Acknowledgement
  BY ReceivesTyped
<1>3. /\ ChannelsKept'
      /\ NothingStranded'
      /\ channels' \in [CHANNELS -> ChannelType]
      /\ dispatched_commands' \in Seq(QueuedCommand)
      /\ handed' \in [CHANNELS -> Seq(QueuedCommand)]
      /\ needs_dispatch' \in BOOLEAN
      /\ dispatch_queue' \in Nat
  BY <1>1, <1>2, DispatchKeeps
<1>4. acknowledgements' \in Seq(Acknowledgement)
  BY <1>1, AcknowledgementsTyped
<1>5. alive' \in BOOLEAN
  BY DEF Inv, TypeOK
<1>6. TypeOK'
  BY <1>2, <1>3, <1>4, <1>5 DEF TypeOK, ChannelType
<1>7. QED
  BY <1>3, <1>6 DEF Inv, ChannelsKept

\* A step that leaves one channel as ch, hands over nothing and acknowledges
\* keeps the invariant.
LEMMA HoldBackStep ==
    ASSUME Inv, NEW c \in Commands, Bounded, Receives(c), UNCHANGED alive,
           NEW ch, WellFormed(c.channel, ch), ~Stalled(ch),
           ch.incoming = channels[c.channel].incoming,
           channels' = [channels EXCEPT ![c.channel] = ch],
           UNCHANGED <<dispatched_commands, handed, needs_dispatch,
                       dispatch_queue, total_waiting_data>>,
           NEW rsn \in Nat, QueueAcknowledgement(c.channel, rsn)
    PROVE  Inv'
<1>1. c.channel \in CHANNELS
  BY CommandType
<1>2. /\ arrivals' \in 0..MAX_ARRIVALS
      /\ state' = state /\ state' \in {"CONNECTED", "DISCONNECT_LATER"}
      /\ delivered' \in Seq(QueuedCommand)
      /\ confirmed' \in SUBSET Acknowledgement
  BY ReceivesTyped
<1>3. channels \in [CHANNELS -> ChannelType] /\ ch \in ChannelType
  BY DEF Inv, TypeOK, WellFormed, ChannelType
<1>4. channels' \in [CHANNELS -> ChannelType]
  BY <1>3
<1>5. acknowledgements' \in Seq(Acknowledgement)
  BY <1>1, AcknowledgementsTyped
<1>6. TypeOK'
  BY <1>2, <1>4, <1>5 DEF Inv, TypeOK, ChannelType
<1>7. NothingStranded'
  BY <1>2 DEF Inv, NothingStranded
<1>8. ChannelsKept'
  <2>1. SUFFICES ASSUME NEW j \in CHANNELS
                 PROVE  /\ WellFormed(j, channels'[j])
                        /\ ~Stalled(channels'[j])
                        /\ Contiguous(handed[j], channels'[j].incoming)
    BY DEF ChannelsKept
  <2>2. CASE j = c.channel
    <3>1. channels'[j] = ch
      BY <1>3, <2>2
    <3>2. Contiguous(handed[j], channels[j].incoming)
      BY DEF Inv
    <3>3. QED
      BY <2>2, <3>1, <3>2
  <2>3. CASE j # c.channel
    <3>1. channels'[j] = channels[j]
      BY <1>3, <2>3
    <3>2. QED
      BY <3>1 DEF Inv
  <2>4. QED
    BY <2>2, <2>3
<1>9. QED
  BY <1>6, <1>7, <1>8 DEF Inv, ChannelsKept

\* A step that kills the process touches nothing else.
LEMMA DiesStep ==
    ASSUME Inv, NEW c \in Commands, Bounded, Receives(c), Dies
    PROVE  Inv'
<1>1. /\ arrivals' \in 0..MAX_ARRIVALS
      /\ state' = state /\ state' \in {"CONNECTED", "DISCONNECT_LATER"}
      /\ delivered' \in Seq(QueuedCommand)
      /\ confirmed' \in SUBSET Acknowledgement
  BY ReceivesTyped
<1>2. TypeOK'
  BY <1>1 DEF Dies, Inv, TypeOK
<1>3. NothingStranded'
  BY <1>1 DEF Dies, Inv, NothingStranded
<1>4. ChannelsKept'
  BY DEF Dies, Inv, ChannelsKept
<1>5. QED
  BY <1>2, <1>3, <1>4 DEF Inv, ChannelsKept

LEMMA ReliableStep ==
    ASSUME OneLap, Inv, NEW c \in Commands, Bounded, ReceiveReliable(c)
    PROVE  Inv'
<1> DEFINE ch == channels[c.channel]
<1>1. /\ c.channel \in CHANNELS /\ c.rsn = c.start /\ c.start \in Nat
      /\ c.length \in Nat
  BY CommandType, ReceiverAssumption DEF ReceiveReliable
<1>2. WellFormed(c.channel, ch) /\ total_waiting_data \in Nat
  BY <1>1 DEF Inv, TypeOK
<1>3. CASE DiscardReliable(c)
  <2>1. total_waiting_data' \in Nat
    BY <1>1, <1>2, <1>3 DEF DiscardReliable
  <2>2. QED
    BY <1>1, <1>2, <1>3, <2>1, HandOverStep DEF DiscardReliable
<1>4. CASE QueueReliable(c)
  <2> DEFINE e == NewIncomingCommand(c)
  <2>1. PICK p \in 0..Len(ch.commands) :
          /\ GoesAfter(ch, c.rsn, p)
          /\ DispatchIncomingReliableCommands(c.channel, Inserted(ch, e, p))
    BY <1>4 DEF QueueReliable
  <2>2. e \in QueuedCommand /\ e.rsn = c.start /\ e.count = c.count
    BY NewCommandType
  <2> HIDE DEF e
  <2>3. WellFormed(c.channel, Inserted(ch, e, p))
    BY <1>1, <1>2, <2>1, <2>2, InsertKeepsOrder
  <2>4. Inserted(ch, e, p).incoming = ch.incoming
    BY <1>2 DEF Inserted, WellFormed, ChannelType
  <2>5. total_waiting_data' \in Nat
    BY <1>1, <1>2, <1>4 DEF QueueReliable
  <2>6. /\ Receives(c) /\ UNCHANGED alive
        /\ QueueAcknowledgement(c.channel, c.rsn)
    BY <1>4 DEF QueueReliable
  <2> HIDE DEF ch
  <2>7. QED
    BY <1>1, <2>1, <2>3, <2>4, <2>5, <2>6, HandOverStep DEF ch
<1>5. CASE CrashOnReliable(c)
  BY <1>5, DiesStep DEF CrashOnReliable
<1>6. QED
  BY <1>3, <1>4, <1>5 DEF ReceiveReliable

\* A message that was just opened is not complete, and the others wait on.
LEMMA OpenLeavesNoStall ==
    ASSUME NEW id, NEW ch, WellFormed(id, ch), ~Stalled(ch),
           NEW c \in Commands, c.kind = "SEND_FRAGMENT",
           NEW p \in 0..Len(ch.commands)
    PROVE  ~Stalled(Inserted(ch, NewIncomingCommand(c), p))
<1> DEFINE s == ch.commands
           e == NewIncomingCommand(c)
           t == InsertAt(s, p + 1, e)
<1>1. s \in Seq(QueuedCommand) /\ e \in QueuedCommand
  BY NewCommandType DEF WellFormed, ChannelType
<1>2. ~Complete(e)
  <2>1. e.received = {c.number} /\ e.count = c.count
    BY DEF NewIncomingCommand
  <2>2. Cardinality({c.number}) = 1
    BY FS_Singleton
  <2>3. c.count \in Nat /\ c.count >= 2
    BY CommandType, ReceiverAssumption
  <2> HIDE DEF e
  <2>4. Cardinality(e.received) = 1 /\ e.count # 1
    BY <2>1, <2>2, <2>3
  <2>5. QED
    BY <2>4 DEF Complete
<1> HIDE DEF e
<1>3. t[1] = IF p = 0 THEN e ELSE s[1]
  <2>1. \A i \in 1..(Len(s) + 1) :
           t[i] = IF i <= p THEN s[i] ELSE IF i = p + 1 THEN e ELSE s[i - 1]
    <3>1. p \in 0..Len(s)
      OBVIOUS
    <3> HIDE DEF s
    <3>2. QED
      BY <1>1, <3>1, InsertLemma
  <2>2. 1 \in 1..(Len(s) + 1)
    BY <1>1
  <2> HIDE DEF t
  <2>3. QED
    BY <2>1, <2>2
<1>4. Inserted(ch, e, p) = [incoming |-> ch.incoming, commands |-> t]
  BY DEF Inserted, WellFormed, ChannelType
<1>5. p # 0 => s # <<>>
  BY <1>1
<1> HIDE DEF t
<1>6. CASE p = 0
  BY <1>2, <1>3, <1>4, <1>6 DEF Stalled, e
<1>7. CASE p # 0
  BY <1>3, <1>4, <1>5, <1>7 DEF Stalled, e
<1>8. QED
  BY <1>6, <1>7

LEMMA FragmentStep ==
    ASSUME OneLap, Inv, NEW c \in Commands, Bounded, ReceiveFragment(c)
    PROVE  Inv'
<1> DEFINE ch == channels[c.channel]
<1>1. /\ c.channel \in CHANNELS /\ c.rsn \in Nat /\ c.start \in Nat
      /\ c.kind = "SEND_FRAGMENT"
  BY CommandType DEF ReceiveFragment
<1>2. /\ WellFormed(c.channel, ch) /\ ~Stalled(ch)
      /\ total_waiting_data \in Nat
      /\ channels = [channels EXCEPT ![c.channel] = ch]
  BY <1>1 DEF Inv, TypeOK
<1>3. CASE DiscardFragment(c)
  <2>1. /\ Receives(c) /\ UNCHANGED alive
        /\ channels' = channels
        /\ QueueAcknowledgement(c.channel, c.rsn)
        /\ UNCHANGED <<dispatched_commands, handed, needs_dispatch,
                       dispatch_queue, total_waiting_data>>
    BY <1>3 DEF DiscardFragment
  <2> HIDE DEF ch
  <2>2. QED
    BY <1>1, <1>2, <2>1, HoldBackStep DEF ch
<1>4. CASE OpenMessage(c)
  <2> DEFINE e == NewIncomingCommand(c)
  <2>1. PICK p \in 0..Len(ch.commands) :
          /\ GoesAfter(ch, c.start, p)
          /\ channels' = [channels EXCEPT ![c.channel] = Inserted(ch, e, p)]
    BY <1>4 DEF OpenMessage
  <2>2. e \in QueuedCommand /\ e.rsn = c.start /\ e.count = c.count
    BY NewCommandType
  <2>3. ~Stalled(Inserted(ch, e, p))
    BY <1>1, <1>2, OpenLeavesNoStall
  <2> HIDE DEF e
  <2>4. WellFormed(c.channel, Inserted(ch, e, p))
    BY <1>1, <1>2, <2>1, <2>2, InsertKeepsOrder
  <2>5. Inserted(ch, e, p).incoming = ch.incoming
    BY <1>2 DEF Inserted, WellFormed, ChannelType
  <2>6. /\ Receives(c) /\ UNCHANGED alive
        /\ QueueAcknowledgement(c.channel, c.start)
        /\ UNCHANGED <<dispatched_commands, handed, needs_dispatch,
                       dispatch_queue, total_waiting_data>>
    BY <1>4 DEF OpenMessage
  <2> HIDE DEF ch
  <2>7. QED
    BY <1>1, <2>1, <2>3, <2>4, <2>5, <2>6, HoldBackStep DEF ch
<1>5. CASE AddFragment(c)
  <2>1. PICK p \in DOMAIN ch.commands :
          LET now == [ch EXCEPT !.commands[p] = WithFragment(ch.commands[p], c)]
          IN  IF c.number \in ch.commands[p].received
              THEN UNCHANGED <<channels, dispatched_commands, handed,
                               needs_dispatch, dispatch_queue>>
              ELSE IF Complete(now.commands[p])
              THEN DispatchIncomingReliableCommands(c.channel, now)
              ELSE /\ channels' = [channels EXCEPT ![c.channel] = now]
                   /\ UNCHANGED <<dispatched_commands, handed,
                                  needs_dispatch, dispatch_queue>>
    BY <1>5 DEF AddFragment, HandOverIfComplete
  <2>2. /\ Receives(c) /\ UNCHANGED alive
        /\ QueueAcknowledgement(c.channel, c.rsn)
        /\ UNCHANGED total_waiting_data
    BY <1>5 DEF AddFragment
  <2> DEFINE now == [ch EXCEPT !.commands[p] = WithFragment(ch.commands[p], c)]
  <2>3. WellFormed(c.channel, now) /\ now.incoming = ch.incoming
    <3>1. WellFormed(c.channel, now)
      BY <1>2, FragmentKeepsOrder
    <3>2. now.incoming = ch.incoming
      BY <1>2 DEF WellFormed, ChannelType
    <3>3. QED
      BY <3>1, <3>2
  <2>4. CASE c.number \in ch.commands[p].received
    <3>1. UNCHANGED <<channels, dispatched_commands, handed, needs_dispatch,
                      dispatch_queue>>
      BY <2>1, <2>4
    <3> HIDE DEF ch
    <3>2. QED
      BY <1>1, <1>2, <2>2, <3>1, HoldBackStep DEF ch
  <2>5. CASE /\ c.number \notin ch.commands[p].received
             /\ Complete(now.commands[p])
    <3>1. DispatchIncomingReliableCommands(c.channel, now)
      BY <2>1, <2>5
    <3> HIDE DEF now
    <3>2. QED
      BY <1>1, <1>2, <2>2, <2>3, <3>1, HandOverStep
  <2>6. CASE /\ c.number \notin ch.commands[p].received
             /\ ~Complete(now.commands[p])
    <3>1. /\ channels' = [channels EXCEPT ![c.channel] = now]
          /\ UNCHANGED <<dispatched_commands, handed, needs_dispatch,
                         dispatch_queue>>
      BY <2>1, <2>6
    <3>2. ~Stalled(now)
      <4>1. p # 1 => now.commands[1] = ch.commands[1]
        BY <1>2 DEF WellFormed, ChannelType
      <4>2. p # 1 => ch.commands # <<>>
        BY <1>2 DEF WellFormed, ChannelType
      <4> HIDE DEF now
      <4>3. QED
        BY <1>2, <2>3, <2>6, <4>1, <4>2 DEF Stalled
    <3> HIDE DEF now
    <3>3. QED
      BY <1>1, <2>2, <2>3, <3>1, <3>2, HoldBackStep
  <2>7. QED
    BY <2>4, <2>5, <2>6
<1>6. CASE CrashOnFragment(c)
  BY <1>6, DiesStep DEF CrashOnFragment
<1>7. CASE LeaveFragment(c)
  <2>1. TypeOK'
    BY <1>7, ReceivesTyped DEF LeaveFragment, Inv, TypeOK
  <2>2. NothingStranded' /\ ChannelsKept'
    BY <1>7 DEF LeaveFragment, Receives, Inv, NothingStranded, ChannelsKept
  <2>3. QED
    BY <2>1, <2>2 DEF Inv, ChannelsKept
<1>8. QED
  BY <1>3, <1>4, <1>5, <1>6, <1>7 DEF ReceiveFragment

LEMMA DispatchStep ==
    ASSUME Inv, DispatchIncomingCommands
    PROVE  Inv'
<1>1. /\ channels' = channels /\ handed' = handed /\ state' = state
      /\ UNCHANGED <<alive, arrivals, acknowledgements, confirmed>>
  BY DEF DispatchIncomingCommands
<1>2. ChannelsKept'
  BY <1>1 DEF Inv, ChannelsKept
<1>3. /\ dispatched_commands \in Seq(QueuedCommand)
      /\ delivered \in Seq(QueuedCommand)
      /\ total_waiting_data \in Nat /\ dispatch_queue \in Nat
  BY DEF Inv, TypeOK
<1>4. dispatch_queue = IF needs_dispatch THEN 1 ELSE 0
  BY DEF Inv, NothingStranded
<1>5. dispatch_queue = 1
  BY <1>4 DEF DispatchIncomingCommands
<1>6. CASE state = "CONNECTED" /\ dispatched_commands # <<>>
  <2> DEFINE first == Head(dispatched_commands)
             rest  == Tail(dispatched_commands)
  <2>1. /\ delivered' = Append(delivered, first)
        /\ dispatched_commands' = rest
        /\ total_waiting_data' = IF total_waiting_data >= first.length
                                 THEN total_waiting_data - first.length
                                 ELSE total_waiting_data
        /\ needs_dispatch' = (rest # <<>>)
        /\ dispatch_queue' =
             IF rest # <<>> THEN dispatch_queue ELSE dispatch_queue - 1
    BY <1>6 DEF DispatchIncomingCommands, Released
  <2>2. first \in QueuedCommand /\ rest \in Seq(QueuedCommand)
    BY <1>3, <1>6
  <2>3. first.length \in Nat
    BY <2>2 DEF QueuedCommand
  <2> HIDE DEF first, rest
  <2>4. /\ delivered' \in Seq(QueuedCommand)
        /\ dispatched_commands' \in Seq(QueuedCommand)
    BY <1>3, <2>1, <2>2
  <2>5. total_waiting_data' \in Nat
    BY <1>3, <2>1, <2>3
  <2>6. needs_dispatch' \in BOOLEAN
    BY <2>1, Zenon
  <2>7. dispatch_queue' = (IF rest # <<>> THEN 1 ELSE 0)
    BY <1>5, <2>1
  <2>8. NothingStranded'
    BY <2>1, <2>7 DEF NothingStranded
  <2>9. dispatch_queue' \in Nat
    BY <2>7
  <2>10. TypeOK'
    BY <1>1, <2>4, <2>5, <2>6, <2>9 DEF Inv, TypeOK
  <2>11. QED
    BY <1>2, <2>8, <2>10 DEF Inv, ChannelsKept
<1>7. CASE ~(state = "CONNECTED" /\ dispatched_commands # <<>>)
  <2>1. /\ needs_dispatch' = FALSE /\ dispatch_queue' = 0
        /\ UNCHANGED <<delivered, dispatched_commands, total_waiting_data>>
    BY <1>7 DEF DispatchIncomingCommands
  <2>2. NothingStranded'
    BY <1>1, <1>7, <2>1 DEF NothingStranded
  <2>3. TypeOK'
    BY <1>1, <2>1 DEF Inv, TypeOK
  <2>4. QED
    BY <1>2, <2>2, <2>3 DEF Inv, ChannelsKept
<1>8. QED
  BY <1>6, <1>7

LEMMA SendStep ==
    ASSUME Inv, SendAcknowledgements
    PROVE  Inv'
<1> DEFINE kept == {j \in DOMAIN acknowledgements :
                      j % (PROTOCOL_MAXIMUM_SEGMENT_COMMANDS + 1) # 0}
<1>1. /\ acknowledgements' = <<>>
      /\ confirmed' = confirmed \cup {acknowledgements[i] : i \in kept}
      /\ UNCHANGED <<alive, arrivals, channels, state, dispatched_commands,
                     total_waiting_data, needs_dispatch, dispatch_queue,
                     handed, delivered>>
  BY DEF SendAcknowledgements
<1>2. /\ acknowledgements \in Seq(Acknowledgement)
      /\ confirmed \in SUBSET Acknowledgement
  BY DEF Inv, TypeOK
<1>3. \A i \in kept : acknowledgements[i] \in Acknowledgement
  BY <1>2
<1> HIDE DEF kept
<1>4. confirmed' \in SUBSET Acknowledgement
  BY <1>1, <1>2, <1>3
<1>5. acknowledgements' \in Seq(Acknowledgement)
  BY <1>1
<1>6. TypeOK'
  BY <1>1, <1>4, <1>5 DEF Inv, TypeOK
<1>7. NothingStranded' /\ ChannelsKept'
  BY <1>1 DEF Inv, NothingStranded, ChannelsKept
<1>8. QED
  BY <1>6, <1>7 DEF Inv, ChannelsKept

LEMMA CloseStep ==
    ASSUME Inv, DisconnectLater
    PROVE  Inv'
<1>1. TypeOK'
  BY DEF DisconnectLater, history, Inv, TypeOK
<1>2. NothingStranded' /\ ChannelsKept'
  BY DEF DisconnectLater, history, Inv, NothingStranded, ChannelsKept
<1>3. QED
  BY <1>1, <1>2 DEF Inv, ChannelsKept

LEMMA NextKeeps ==
    ASSUME OneLap, Inv, [Next]_vars
    PROVE  Inv'
<1>0. Counted => Bounded
  BY ReceiverAssumption DEF Counted, Bounded, Inv, TypeOK
<1>1. ASSUME NEW c \in Commands, Counted, ReceiveReliable(c) PROVE Inv'
  BY <1>0, <1>1, ReliableStep
<1>2. ASSUME NEW c \in Commands, Counted, ReceiveFragment(c) PROVE Inv'
  BY <1>0, <1>2, FragmentStep
<1>3. CASE DispatchIncomingCommands
  BY <1>3, DispatchStep
<1>4. CASE SendAcknowledgements
  BY <1>4, SendStep
<1>5. CASE DisconnectLater
  BY <1>5, CloseStep
<1>6. CASE UNCHANGED vars
  <2>1. TypeOK'
    BY <1>6 DEF vars, peerVars, history, Inv, TypeOK
  <2>2. NothingStranded' /\ ChannelsKept'
    BY <1>6 DEF vars, peerVars, history, Inv, NothingStranded, ChannelsKept
  <2>3. QED
    BY <2>1, <2>2 DEF Inv, ChannelsKept
<1>7. QED
  BY <1>1, <1>2, <1>3, <1>4, <1>5, <1>6 DEF Next

-----------------------------------------------------------------------------
(* The theorems.                                                           *)

\* Whatever arrives, in whatever order and how often, every step of the
\* receiver keeps the invariant, as long as the sender's numbers stay in one
\* lap of the uint16_t and the windows tell old numbers from new ones.
THEOREM InvariantHolds == ASSUME OneLap PROVE Spec => []Inv
<1>1. Init => Inv
  BY InitKeeps
<1>2. Inv /\ [Next]_vars => Inv'
  BY NextKeeps
<1>3. QED
  BY <1>1, <1>2, PTL DEF Spec

\* Every variable of the receiver keeps its type.
THEOREM TypesHold == ASSUME OneLap PROVE Spec => []TypeOK
<1>1. Inv => TypeOK
  BY DEF Inv
<1>2. QED
  BY <1>1, InvariantHolds, PTL

\* QueueIncomingCommand keeps every channel's list sorted, without overlap,
\* ahead of the channel's number.
THEOREM PendingStaysInOrder == ASSUME OneLap PROVE Spec => []PendingInOrder
<1>1. Inv => PendingInOrder
  BY DEF Inv, WellFormed, PendingInOrder
<1>2. QED
  BY <1>1, InvariantHolds, PTL

\* NewIncomingReliableCommands hands over each channel's messages exactly
\* once, without a gap, in the order in which they were numbered.
THEOREM HandedOverStaysInSequence ==
    ASSUME OneLap PROVE Spec => []HandedOverInSequence
<1>1. Inv => HandedOverInSequence
  BY DEF Inv, HandedOverInSequence
<1>2. QED
  BY <1>1, InvariantHolds, PTL

\* No command that is complete and next in turn stays in its channel.
THEOREM NothingStalls == ASSUME OneLap PROVE Spec => []NoStalledHead
<1>1. Inv => NoStalledHead
  BY DEF Inv, NoStalledHead
<1>2. QED
  BY <1>1, InvariantHolds, PTL

\* A connected peer with commands for the application stands in the host's
\* dispatch queue, exactly once.
THEOREM NothingIsStranded == ASSUME OneLap PROVE Spec => []NothingStranded
<1>1. Inv => NothingStranded
  BY DEF Inv
<1>2. QED
  BY <1>1, InvariantHolds, PTL

-----------------------------------------------------------------------------
(* Whole messages: what is held, and that it is received once.             *)

\* Messages of one command each, and no number for two messages.
WholeMessages ==
    \A c \in Commands :
        /\ c.kind = "SEND_RELIABLE"
        /\ \A d \in Commands :
              c.channel = d.channel /\ c.start = d.start => Part(c) = Part(d)

\* What a channel has handed over or holds back.
Held(id) == ToSet(handed[id]) \cup ToSet(channels[id].commands)

\* The command q is one that was sent.
Labelled(id, q) == \E c \in Commands : c.channel = id /\ q = NewIncomingCommand(c)

Labels == \A id \in CHANNELS : \A q \in Held(id) : Labelled(id, q)

LEMMA LabelledFacts ==
    ASSUME WholeMessages, NEW id, NEW q, Labelled(id, q)
    PROVE  /\ q \in QueuedCommand /\ q.channel = id /\ q.rsn \in Nat
           /\ q.count = 0 /\ LastNumber(q) = q.rsn /\ Complete(q)
<1>1. PICK c \in Commands : c.channel = id /\ q = NewIncomingCommand(c)
  BY DEF Labelled
<1>2. c.kind = "SEND_RELIABLE" /\ c.count = 0 /\ c.start \in Nat
  BY CommandType, ReceiverAssumption DEF WholeMessages
<1>3. q \in QueuedCommand /\ q.channel = id /\ q.count = 0 /\ q.rsn = c.start
  BY <1>1, <1>2, NewCommandType DEF NewIncomingCommand
<1>4. q.received = {}
  BY <1>1, <1>2 DEF NewIncomingCommand
<1>5. Complete(q)
  BY <1>3, <1>4, FS_EmptySet DEF Complete
<1> QED BY <1>2, <1>3, <1>5 DEF LastNumber

\* The log of a channel holds the numbers from 1 up to the channel's own.
LEMMA LogIsNumbered ==
    ASSUME WholeMessages, Inv, Labels, NEW id \in CHANNELS
    PROVE  /\ handed[id] \in Seq(QueuedCommand)
           /\ channels[id].incoming = Len(handed[id])
           /\ \A i \in 1..Len(handed[id]) : handed[id][i].rsn = i
<1> DEFINE log  == handed[id]
           last == channels[id].incoming
           T    == {m \in Nat : m + 1 \in DOMAIN log => log[m + 1].rsn = m + 1}
<1>1. log \in Seq(QueuedCommand) /\ last \in Nat
  <2>1. last \in 0..(SEQUENCE_NUMBERS - 1)
    BY DEF Inv, TypeOK
  <2> QED BY <2>1, SequenceNumbersPositive DEF Inv, TypeOK
<1>2. Contiguous(log, last)
  BY DEF Inv
<1>3. ASSUME NEW i \in DOMAIN log PROVE LastNumber(log[i]) = log[i].rsn
  <2>1. log[i] \in Held(id)
    BY DEF Held, ToSet
  <2> QED BY <2>1, LabelledFacts DEF Labels
<1> HIDE DEF log, last
<1>5. 0 \in T
  BY <1>2 DEF Contiguous
<1>6. ASSUME NEW m \in T PROVE m + 1 \in T
  <2> SUFFICES ASSUME m + 2 \in DOMAIN log PROVE log[m + 2].rsn = m + 2
    OBVIOUS
  <2>1. m \in Nat /\ m + 1 \in DOMAIN log /\ (m + 2) - 1 = m + 1 /\ m + 2 # 1
    BY <1>1
  <2>2. log[m + 1].rsn = m + 1
    BY <2>1
  <2>3. log[m + 2].rsn = 1 + LastNumber(log[(m + 2) - 1])
    BY <1>2, <2>1 DEF Contiguous
  <2>4. log[m + 2].rsn = 1 + log[m + 1].rsn
    BY <1>3, <2>1, <2>3
  <2> QED BY <2>1, <2>2, <2>4
<1>7. Nat \subseteq T
  <2> HIDE DEF T
  <2> QED BY <1>5, <1>6, NatSetInduction
<1>8. ASSUME NEW i \in DOMAIN log PROVE log[i].rsn = i
  <2>1. PICK m \in Nat : i = m + 1
    <3>1. i - 1 \in Nat /\ i = (i - 1) + 1
      BY <1>1
    <3> QED BY <3>1
  <2>2. m \in T
    BY <1>7
  <2> QED BY <2>1, <2>2
<1>9. CASE log = <<>>
  BY <1>1, <1>2, <1>8, <1>9 DEF Contiguous, log, last
<1>10. CASE log # <<>>
  <2>1. last = LastNumber(log[Len(log)]) /\ Len(log) \in DOMAIN log
    BY <1>1, <1>2, <1>10 DEF Contiguous
  <2>2. last = Len(log)
    BY <1>3, <1>8, <2>1
  <2> QED BY <1>1, <1>8, <2>2 DEF log, last
<1> QED BY <1>9, <1>10

\* What has left a channel is numbered below it, what waits ahead of it.
LEMMA LogIsBehind ==
    ASSUME WholeMessages, Inv, Labels, NEW id \in CHANNELS
    PROVE  /\ \A q \in ToSet(handed[id]) : q.rsn \in 1..Len(handed[id])
           /\ \A n \in 1..Len(handed[id]) : \E q \in ToSet(handed[id]) : q.rsn = n
           /\ \A q \in ToSet(channels[id].commands) :
                 q.rsn \in Nat /\ q.rsn > Len(handed[id])
<1>1. /\ handed[id] \in Seq(QueuedCommand)
      /\ channels[id].incoming = Len(handed[id])
      /\ \A i \in 1..Len(handed[id]) : handed[id][i].rsn = i
  BY LogIsNumbered
<1>2. Ordered(channels[id]) /\ channels[id].commands \in Seq(QueuedCommand)
  BY DEF Inv, WellFormed, ChannelType
<1>3. \A q \in ToSet(channels[id].commands) : q.rsn \in Nat
  BY LabelledFacts DEF Labels, Held
<1> QED BY <1>1, <1>2, <1>3 DEF ToSet, Ordered

\* A channel in which nothing is ready hands over nothing.
LEMMA NothingToHandOver ==
    ASSUME OneLap, Inv, NEW id \in CHANNELS,
           DispatchIncomingReliableCommands(id, channels[id])
    PROVE  UNCHANGED <<channels, handed, dispatched_commands, needs_dispatch,
                       dispatch_queue>>
<1> DEFINE ch == channels[id]
<1>1. /\ WellFormed(id, ch) /\ ~Stalled(ch) /\ ch \in ChannelType
      /\ channels \in [CHANNELS -> ChannelType]
      /\ handed \in [CHANNELS -> Seq(QueuedCommand)]
      /\ dispatched_commands \in Seq(QueuedCommand)
  BY DEF Inv, TypeOK, ChannelType
<1>2. PICK k \in 0..Len(ch.commands) :
        /\ HandsOver(ch, k)
        /\ channels' = [channels EXCEPT ![id] = AfterHandOver(ch, k)]
        /\ dispatched_commands' = NewCommands(ch, k) \o dispatched_commands
        /\ handed' = [handed EXCEPT ![id] = @ \o NewCommands(ch, k)]
        /\ k = 0 => UNCHANGED <<needs_dispatch, dispatch_queue>>
  BY DEF DispatchIncomingReliableCommands
<1>3. k = 0
  <2> SUFFICES ASSUME k # 0 PROVE FALSE
    OBVIOUS
  <2>1. Len(ch.commands) \in Nat /\ ch.commands # <<>> /\ 1 \in DOMAIN ch.commands
    BY <1>1 DEF ChannelType
  <2>2. Complete(ch.commands[1]) /\ ch.commands[1].rsn = 1 + ch.incoming
    BY <1>2, <2>1 DEF HandsOver, Ready
  <2>3. ch.incoming \in Nat /\ ch.commands[1] \in QueuedCommand /\ Wire(id, ch.commands[1])
    BY <1>1, <2>1, SequenceNumbersPositive DEF WellFormed, ChannelType
  <2>4. /\ ch.commands[1].rsn <= LastNumber(ch.commands[1])
        /\ LastNumber(ch.commands[1]) \in 0..(SEQUENCE_NUMBERS - 1)
        /\ ch.commands[1].rsn \in Nat
    BY <2>3, WireFacts
  <2>5. ch.commands[1].rsn < SEQUENCE_NUMBERS
    BY <2>4, SequenceNumbersPositive
  <2>6. (ch.incoming + 1) % SEQUENCE_NUMBERS = ch.incoming + 1
    BY <2>2, <2>3, <2>5, ModuloSmall
  <2> QED BY <1>1, <2>1, <2>2, <2>3, <2>6 DEF Stalled
<1>4. NewCommands(ch, k) = <<>>
  BY <1>1, <1>3 DEF NewCommands, ChannelType
<1>5. AfterHandOver(ch, k) = ch
  BY <1>1, <1>3 DEF AfterHandOver, ChannelType
<1> HIDE DEF ch
<1>6. channels' = channels
  BY <1>1, <1>2, <1>5 DEF ch
<1>7. handed' = handed /\ dispatched_commands' = dispatched_commands
  BY <1>1, <1>2, <1>4
<1> QED BY <1>2, <1>3, <1>6, <1>7

\* What a command that arrives does to its channel: nothing, or it joins what
\* the channel holds, under a number that was not there.
Joins(c, p) ==
    LET ch  == channels[c.channel]
        now == Inserted(ch, NewIncomingCommand(c), p)
    IN  /\ GoesAfter(ch, c.start, p)
        /\ WellFormed(c.channel, now)
        /\ now.incoming = ch.incoming
        /\ ToSet(now.commands) = ToSet(ch.commands) \cup {NewIncomingCommand(c)}
        /\ DispatchIncomingReliableCommands(c.channel, now)

LEMMA ReliableEffect ==
    ASSUME OneLap, Inv, NEW c \in Commands, ReceiveReliable(c)
    PROVE  /\ UNCHANGED <<state, delivered, confirmed>>
           /\ \/ /\ UNCHANGED <<channels, handed, dispatched_commands>>
                 /\ \/ UNCHANGED acknowledgements
                    \/ /\ PeerDiscards \/ Unwanted(channels[c.channel], c.start)
                       /\ QueueAcknowledgement(c.channel, c.start)
              \/ /\ \E p \in 0..Len(channels[c.channel].commands) : Joins(c, p)
                 /\ QueueAcknowledgement(c.channel, c.start)
<1> DEFINE id == c.channel
           ch == channels[id]
<1>1. id \in CHANNELS /\ c.rsn = c.start
  BY CommandType, ReceiverAssumption DEF ReceiveReliable
<1>2. WellFormed(id, ch)
  BY <1>1 DEF Inv
<1>3. CASE DiscardReliable(c)
  <2>1. UNCHANGED <<channels, handed, dispatched_commands>>
    BY <1>1, <1>3, NothingToHandOver DEF DiscardReliable
  <2> QED BY <1>1, <1>3, <2>1 DEF DiscardReliable, Receives
<1>4. CASE QueueReliable(c)
  <2> DEFINE e == NewIncomingCommand(c)
  <2>1. PICK p \in 0..Len(ch.commands) :
           DispatchIncomingReliableCommands(id, Inserted(ch, e, p)) /\ GoesAfter(ch, c.rsn, p)
    BY <1>4 DEF QueueReliable
  <2>2. e \in QueuedCommand /\ e.rsn = c.start /\ e.count = c.count
    BY NewCommandType
  <2> HIDE DEF e
  <2>3. WellFormed(id, Inserted(ch, e, p))
    BY <1>1, <1>2, <2>1, <2>2, InsertKeepsOrder
  <2>4. /\ ch \in ChannelType /\ Inserted(ch, e, p).commands = InsertAt(ch.commands, p + 1, e)
        /\ Inserted(ch, e, p).incoming = ch.incoming
    BY <1>2 DEF Inserted, WellFormed, ChannelType
  <2>5. PICK s \in Seq(QueuedCommand) : s = ch.commands
    BY <2>4 DEF ChannelType
  <2>6. ToSet(InsertAt(s, p + 1, e)) = ToSet(s) \cup {e}
    BY <2>1, <2>2, <2>5, SetOfInsert
  <2>7. ToSet(Inserted(ch, e, p).commands) = ToSet(ch.commands) \cup {e}
    BY <2>4, <2>5, <2>6
  <2>8. Joins(c, p)
    BY <1>1, <2>1, <2>3, <2>4, <2>7 DEF Joins, e
  <2>9. UNCHANGED <<state, delivered, confirmed>> /\ QueueAcknowledgement(id, c.start)
    BY <1>1, <1>4 DEF QueueReliable, Receives
  <2> QED BY <2>8, <2>9
<1>5. CASE CrashOnReliable(c)
  BY <1>5 DEF CrashOnReliable, Receives, Dies
<1> QED BY <1>3, <1>4, <1>5 DEF ReceiveReliable

\* A channel that hands over keeps what it held.
LEMMA HandOverHolds ==
    ASSUME Inv, NEW id \in CHANNELS, NEW ch, WellFormed(id, ch),
           DispatchIncomingReliableCommands(id, ch)
    PROVE  /\ Held(id)' = ToSet(handed[id]) \cup ToSet(ch.commands)
           /\ \A j \in CHANNELS : j # id => Held(j)' = Held(j)
<1>1. PICK k \in 0..Len(ch.commands) :
        /\ channels' = [channels EXCEPT ![id] = AfterHandOver(ch, k)]
        /\ handed' = [handed EXCEPT ![id] = @ \o NewCommands(ch, k)]
  BY DEF DispatchIncomingReliableCommands
<1>2. /\ channels \in [CHANNELS -> ChannelType]
      /\ handed \in [CHANNELS -> Seq(QueuedCommand)]
      /\ ch.commands \in Seq(QueuedCommand)
  BY DEF Inv, TypeOK, WellFormed, ChannelType
<1> DEFINE a == SubSeq(ch.commands, 1, k)
           b == SubSeq(ch.commands, k + 1, Len(ch.commands))
           log == handed[id]
<1>3. a \in Seq(QueuedCommand) /\ log \in Seq(QueuedCommand)
  BY <1>2, SplitLemma
<1>4. /\ handed'[id] = log \o a
      /\ channels'[id].commands = b
      /\ \A j \in CHANNELS : j # id => handed'[j] = handed[j] /\ channels'[j] = channels[j]
  BY <1>1, <1>2 DEF AfterHandOver, NewCommands
<1>5. ToSet(ch.commands) = ToSet(a) \cup ToSet(b)
  BY <1>2, SetOfSplit
<1> HIDE DEF a, b, log
<1>6. ToSet(log \o a) = ToSet(log) \cup ToSet(a)
  BY <1>3, SetOfConcat
<1>7. Held(id)' = ToSet(handed'[id]) \cup ToSet(channels'[id].commands)
  BY DEF Held
<1>8. Held(id)' = ToSet(log) \cup ToSet(a) \cup ToSet(b)
  BY <1>4, <1>6, <1>7
<1>9. \A j \in CHANNELS : j # id => Held(j)' = Held(j)
  BY <1>4 DEF Held
<1> QED BY <1>5, <1>8, <1>9 DEF log

\* A command that joins is held from then on, and its number was not.
LEMMA JoinEffect ==
    ASSUME WholeMessages, OneLap, Inv, Labels, NEW c \in Commands,
           NEW p \in 0..Len(channels[c.channel].commands), Joins(c, p)
    PROVE  /\ c.channel \in CHANNELS /\ c.start \in Nat /\ c.start >= 1
           /\ Held(c.channel)' = Held(c.channel) \cup {NewIncomingCommand(c)}
           /\ \A j \in CHANNELS : j # c.channel => Held(j)' = Held(j)
           /\ NewIncomingCommand(c).rsn = c.start
           /\ \A q \in Held(c.channel) : q.rsn # c.start
<1> DEFINE id  == c.channel
           ch  == channels[id]
           e   == NewIncomingCommand(c)
           now == Inserted(ch, e, p)
<1>1. id \in CHANNELS /\ c.start \in Nat /\ c.start >= 1 /\ e.rsn = c.start /\ e \in QueuedCommand
  BY CommandType, NewCommandType DEF OneLap, FirstLap
<1>2. /\ WellFormed(id, now) /\ ToSet(now.commands) = ToSet(ch.commands) \cup {e}
      /\ DispatchIncomingReliableCommands(id, now) /\ now.incoming = ch.incoming
      /\ GoesAfter(ch, c.start, p)
  BY DEF Joins
<1>3. WellFormed(id, ch)
  BY <1>1 DEF Inv
<1>4. PICK s \in Seq(QueuedCommand) : s = ch.commands
  BY <1>3 DEF WellFormed, ChannelType
<1>5. now.commands = InsertAt(s, p + 1, e)
  BY <1>3, <1>4 DEF Inserted, WellFormed, ChannelType
<1> HIDE DEF e, now
<1>6. /\ Len(now.commands) = Len(s) + 1
      /\ \A i \in 1..(Len(s) + 1) : now.commands[i] =
            IF i <= p THEN s[i] ELSE IF i = p + 1 THEN e ELSE s[i - 1]
      /\ p \in 0..Len(s) /\ Len(s) \in Nat /\ now.commands \in Seq(QueuedCommand)
  <2>1. p \in 0..Len(s) /\ Len(s) \in Nat /\ e \in QueuedCommand
    BY <1>1, <1>4
  <2>2. /\ InsertAt(s, p + 1, e) \in Seq(QueuedCommand)
        /\ Len(InsertAt(s, p + 1, e)) = Len(s) + 1
        /\ \A i \in 1..(Len(s) + 1) : InsertAt(s, p + 1, e)[i] =
              IF i <= p THEN s[i] ELSE IF i = p + 1 THEN e ELSE s[i - 1]
    BY <2>1, InsertLemma
  <2> QED BY <1>5, <2>1, <2>2
<1>7. ASSUME NEW i \in DOMAIN ch.commands PROVE ch.commands[i].rsn # c.start
  <2>1. i \in 1..Len(s) /\ Ordered(now)
    BY <1>2, <1>4 DEF WellFormed
  <2>2. \A m, n \in 1..(Len(s) + 1) : m < n =>
            LastNumber(now.commands[m]) < now.commands[n].rsn
    BY <1>6, <2>1 DEF Ordered
  <2>3. ch.commands[i] \in Held(id)
    BY DEF Held, ToSet
  <2>4. /\ ch.commands[i].rsn \in Nat
        /\ LastNumber(ch.commands[i]) = ch.commands[i].rsn
    BY <1>1, <2>3, LabelledFacts DEF Labels
  <2>5. c.count = 0 /\ LastNumber(e) = e.rsn
    <3>1. c.count = 0
      BY ReceiverAssumption DEF WholeMessages
    <3>2. e.count = 0
      BY <3>1, NewCommandType DEF e
    <3> QED BY <3>1, <3>2 DEF LastNumber
  <2>6. CASE i <= p
    <3>1. /\ i \in 1..(Len(s) + 1) /\ p + 1 \in 1..(Len(s) + 1) /\ i < p + 1
          /\ ~(p + 1 <= p)
      BY <1>6, <2>1, <2>6
    <3>2. now.commands[i] = s[i] /\ now.commands[p + 1] = e
      BY <1>6, <2>6, <3>1
    <3>3. LastNumber(now.commands[i]) < now.commands[p + 1].rsn
      BY <2>2, <3>1
    <3>4. LastNumber(s[i]) < e.rsn
      BY <3>2, <3>3
    <3> QED BY <1>1, <1>4, <2>4, <3>4
  <2>7. CASE i > p
    <3>1. /\ i + 1 \in 1..(Len(s) + 1) /\ p + 1 \in 1..(Len(s) + 1) /\ p + 1 < i + 1
          /\ ~(p + 1 <= p) /\ ~(i + 1 <= p) /\ i + 1 # p + 1 /\ (i + 1) - 1 = i
      BY <1>6, <2>1, <2>7
    <3>2. now.commands[i + 1] = s[(i + 1) - 1] /\ now.commands[p + 1] = e
      BY <1>6, <3>1
    <3>3. LastNumber(now.commands[p + 1]) < now.commands[i + 1].rsn
      BY <2>2, <3>1
    <3>4. LastNumber(e) < s[i].rsn
      BY <3>1, <3>2, <3>3
    <3> QED BY <1>1, <1>4, <2>4, <2>5, <3>4
  <2> QED BY <1>6, <2>1, <2>6, <2>7
<1>8. ASSUME NEW q \in ToSet(handed[id]) PROVE q.rsn # c.start
  <2>1. q.rsn \in 1..Len(handed[id]) /\ ch.incoming = Len(handed[id])
    BY <1>1, LogIsBehind, LogIsNumbered
  <2>2. e \in ToSet(now.commands)
    BY <1>2
  <2>3. e.rsn > now.incoming
    BY <1>2, <2>2 DEF WellFormed, Ordered, ToSet
  <2> QED BY <1>1, <1>2, <2>1, <2>3
<1>9. \A q \in Held(id) : q.rsn # c.start
  BY <1>7, <1>8 DEF Held, ToSet
<1>10. /\ Held(id)' = ToSet(handed[id]) \cup ToSet(now.commands)
       /\ \A j \in CHANNELS : j # id => Held(j)' = Held(j)
  BY <1>1, <1>2, HandOverHolds
<1>11. Held(id)' = Held(id) \cup {e}
  BY <1>2, <1>10 DEF Held
<1> QED BY <1>1, <1>9, <1>10, <1>11 DEF e

LEMMA LabelsReliable ==
    ASSUME OneLap, WholeMessages, Inv, Labels, NEW c \in Commands, ReceiveReliable(c)
    PROVE  Labels' /\ \A j \in CHANNELS : Held(j) \subseteq Held(j)'
<1>1. CASE UNCHANGED <<channels, handed>>
  BY <1>1 DEF Labels, Held, Labelled
<1>2. CASE \E p \in 0..Len(channels[c.channel].commands) : Joins(c, p)
  <2>1. /\ Held(c.channel)' = Held(c.channel) \cup {NewIncomingCommand(c)}
        /\ \A j \in CHANNELS : j # c.channel => Held(j)' = Held(j)
    BY <1>2, JoinEffect
  <2>2. Labelled(c.channel, NewIncomingCommand(c))
    BY DEF Labelled
  <2>3. ASSUME NEW j \in CHANNELS
        PROVE  Held(j) \subseteq Held(j)' /\ \A q \in Held(j)' : Labelled(j, q)
    BY <2>1, <2>2 DEF Labels
  <2>4. Labels'
    BY <2>3 DEF Labels, Labelled
  <2> QED BY <2>3, <2>4
<1> QED BY <1>1, <1>2, ReliableEffect

-----------------------------------------------------------------------------
(* Each message is received once.                                          *)

\* The commands of a sequence are numbered differently.
Same(q, r) == q.channel = r.channel /\ q.rsn = r.rsn

Distinct(s) == \A i, j \in DOMAIN s : i # j => ~Same(s[i], s[j])

Apart(s, t) == \A q \in ToSet(s), r \in ToSet(t) : ~Same(q, r)

LEMMA DistinctConcat ==
    ASSUME NEW S, NEW s \in Seq(S), NEW t \in Seq(S), Distinct(s), Distinct(t), Apart(s, t)
    PROVE  Distinct(s \o t)
<1>1. PICK u : u = s \o t
  OBVIOUS
<1>2. /\ Len(s) \in Nat /\ Len(t) \in Nat /\ DOMAIN u = 1..(Len(s) + Len(t))
      /\ \A i \in 1..(Len(s) + Len(t)) :
            u[i] = IF i <= Len(s) THEN s[i] ELSE t[i - Len(s)]
      /\ DOMAIN s = 1..Len(s) /\ DOMAIN t = 1..Len(t)
  BY <1>1, ConcatLemma
<1>3. \A i \in DOMAIN s, j \in DOMAIN t : ~Same(s[i], t[j]) /\ ~Same(t[j], s[i])
  BY DEF Apart, ToSet, Same
<1> SUFFICES ASSUME NEW i \in DOMAIN u, NEW j \in DOMAIN u, i # j PROVE ~Same(u[i], u[j])
  BY <1>1 DEF Distinct
<1>4. CASE i <= Len(s) /\ j <= Len(s)
  BY <1>2, <1>4 DEF Distinct
<1>5. CASE i <= Len(s) /\ ~(j <= Len(s))
  <2>1. i \in DOMAIN s /\ j - Len(s) \in DOMAIN t
    BY <1>2, <1>5
  <2> QED BY <1>2, <1>3, <1>5, <2>1
<1>6. CASE ~(i <= Len(s)) /\ j <= Len(s)
  <2>1. j \in DOMAIN s /\ i - Len(s) \in DOMAIN t
    BY <1>2, <1>6
  <2> QED BY <1>2, <1>3, <1>6, <2>1
<1>7. CASE ~(i <= Len(s)) /\ ~(j <= Len(s))
  <2>1. i - Len(s) \in DOMAIN t /\ j - Len(s) \in DOMAIN t /\ i - Len(s) # j - Len(s)
    BY <1>2, <1>7
  <2> QED BY <1>2, <1>7, <2>1 DEF Distinct
<1> QED BY <1>4, <1>5, <1>6, <1>7

LEMMA SetOfAppend ==
    ASSUME NEW S, NEW s \in Seq(S), NEW e \in S
    PROVE  Append(s, e) \in Seq(S) /\ ToSet(Append(s, e)) = ToSet(s) \cup {e}
<1>1. <<e>> \in Seq(S) /\ Append(s, e) = s \o <<e>>
  OBVIOUS
<1>2. ToSet(<<e>>) = {e}
  BY DEF ToSet
<1>3. PICK t \in Seq(S) : t = <<e>>
  BY <1>1
<1>4. s \o t \in Seq(S) /\ ToSet(s \o t) = ToSet(s) \cup ToSet(t)
  BY ConcatLemma, SetOfConcat
<1> QED BY <1>1, <1>2, <1>3, <1>4

LEMMA DistinctAppend ==
    ASSUME NEW S, NEW s \in Seq(S), NEW e \in S, Distinct(s), \A q \in ToSet(s) : ~Same(q, e)
    PROVE  Distinct(Append(s, e))
<1>1. PICK u : u = Append(s, e)
  OBVIOUS
<1>2. /\ Len(s) \in Nat /\ DOMAIN u = 1..(Len(s) + 1) /\ DOMAIN s = 1..Len(s)
      /\ \A i \in 1..Len(s) : u[i] = s[i]
      /\ u[Len(s) + 1] = e
  BY <1>1
<1>3. \A i \in DOMAIN s : ~Same(s[i], e) /\ ~Same(e, s[i])
  BY DEF ToSet, Same
<1> SUFFICES ASSUME NEW i \in DOMAIN u, NEW j \in DOMAIN u, i # j PROVE ~Same(u[i], u[j])
  BY <1>1 DEF Distinct
<1>4. CASE i \in DOMAIN s /\ j \in DOMAIN s
  BY <1>2, <1>4 DEF Distinct
<1>5. CASE i = Len(s) + 1 /\ j \in DOMAIN s
  BY <1>2, <1>3, <1>5
<1>6. CASE i \in DOMAIN s /\ j = Len(s) + 1
  BY <1>2, <1>3, <1>6
<1> QED BY <1>2, <1>4, <1>5, <1>6

LEMMA TailLemma ==
    ASSUME NEW S, NEW s \in Seq(S), s # <<>>
    PROVE  /\ Head(s) \in S /\ Tail(s) \in Seq(S)
           /\ ToSet(s) = {Head(s)} \cup ToSet(Tail(s))
           /\ Distinct(s) => /\ Distinct(Tail(s))
                             /\ \A q \in ToSet(Tail(s)) : ~Same(Head(s), q)
<1>1. PICK u : u = Tail(s)
  OBVIOUS
<1>2. /\ Head(s) = s[1] /\ Len(s) \in Nat /\ Len(s) > 0 /\ DOMAIN s = 1..Len(s)
      /\ u \in Seq(S) /\ DOMAIN u = 1..(Len(s) - 1)
      /\ \A i \in 1..(Len(s) - 1) : u[i] = s[i + 1]
  BY <1>1
<1>3. Head(s) \in S
  BY <1>2
<1>4. ToSet(s) = {Head(s)} \cup ToSet(u)
  <2>1. ASSUME NEW q \in ToSet(s) PROVE q \in {Head(s)} \cup ToSet(u)
    <3>1. PICK i \in DOMAIN s : q = s[i]
      BY DEF ToSet
    <3>2. CASE i = 1
      BY <1>2, <3>1, <3>2
    <3>3. CASE i # 1
      <4>1. i - 1 \in DOMAIN u /\ (i - 1) + 1 = i
        BY <1>2, <3>3
      <4>2. u[i - 1] = q
        BY <1>2, <3>1, <4>1
      <4> QED BY <4>1, <4>2 DEF ToSet
    <3> QED BY <3>2, <3>3
  <2>2. ASSUME NEW q \in ToSet(u) PROVE q \in ToSet(s)
    <3>1. PICK i \in DOMAIN u : q = u[i]
      BY DEF ToSet
    <3>2. q = s[i + 1] /\ i + 1 \in DOMAIN s
      BY <1>2, <3>1
    <3> QED BY <3>2 DEF ToSet
  <2>3. Head(s) \in ToSet(s)
    BY <1>2 DEF ToSet
  <2> QED BY <2>1, <2>2, <2>3
<1>5. ASSUME Distinct(s)
      PROVE  Distinct(u) /\ \A q \in ToSet(u) : ~Same(Head(s), q)
  <2>1. ASSUME NEW i \in DOMAIN u, NEW j \in DOMAIN u, i # j PROVE ~Same(u[i], u[j])
    <3>1. i + 1 \in DOMAIN s /\ j + 1 \in DOMAIN s /\ i + 1 # j + 1
      BY <1>2, <2>1
    <3> QED BY <1>2, <1>5, <3>1 DEF Distinct
  <2>2. ASSUME NEW i \in DOMAIN u PROVE ~Same(s[1], u[i])
    <3>1. i + 1 \in DOMAIN s /\ 1 \in DOMAIN s /\ i + 1 # 1
      BY <1>2
    <3> QED BY <1>2, <1>5, <3>1 DEF Distinct
  <2> QED BY <1>2, <2>1, <2>2 DEF Distinct, ToSet
<1> QED BY <1>1, <1>2, <1>3, <1>4, <1>5

\* What the application was given it was given once.
DeliveredOnce == Distinct(delivered)

\* What left the channels and is or will be given to the application.
Once ==
    /\ \A q \in ToSet(dispatched_commands) \cup ToSet(delivered) :
          q.channel \in CHANNELS /\ q \in ToSet(handed[q.channel])
    /\ Distinct(dispatched_commands)
    /\ Apart(dispatched_commands, delivered)
    /\ DeliveredOnce

LEMMA OnceReliable ==
    ASSUME OneLap, WholeMessages, Inv, Labels, Once, NEW c \in Commands, ReceiveReliable(c)
    PROVE  Once'
<1>1. CASE UNCHANGED <<handed, dispatched_commands, delivered>>
  BY <1>1 DEF Once, DeliveredOnce, Distinct, Apart
<1>2. ASSUME NEW p \in 0..Len(channels[c.channel].commands), Joins(c, p), UNCHANGED delivered
      PROVE  Once'
  <2> DEFINE id  == c.channel
             now == Inserted(channels[id], NewIncomingCommand(c), p)
  <2>1. /\ WellFormed(id, now) /\ DispatchIncomingReliableCommands(id, now)
        /\ now.incoming = channels[id].incoming
        /\ ToSet(now.commands) = ToSet(channels[id].commands) \cup {NewIncomingCommand(c)}
    BY <1>2 DEF Joins
  <2> HIDE DEF now
  <2>2. \A q \in ToSet(now.commands) : Labelled(id, q)
    <3>1. Labelled(id, NewIncomingCommand(c)) /\ id \in CHANNELS
      BY CommandType DEF Labelled
    <3>2. \A q \in ToSet(channels[id].commands) : Labelled(id, q)
      BY <3>1 DEF Labels, Held
    <3> QED BY <2>1, <3>1, <3>2
  <2>3. PICK k \in 0..Len(now.commands) :
          /\ dispatched_commands' = NewCommands(now, k) \o dispatched_commands
          /\ handed' = [handed EXCEPT ![id] = @ \o NewCommands(now, k)]
    BY <2>1 DEF DispatchIncomingReliableCommands
  <2>4. /\ dispatched_commands \in Seq(QueuedCommand) /\ delivered \in Seq(QueuedCommand)
        /\ handed \in [CHANNELS -> Seq(QueuedCommand)] /\ id \in CHANNELS
        /\ now.commands \in Seq(QueuedCommand)
    BY <2>1, CommandType DEF Inv, TypeOK, WellFormed, ChannelType
  <2>5. PICK batch \in Seq(QueuedCommand) :
          /\ batch = NewCommands(now, k) /\ Len(batch) = k
          /\ \A i \in 1..k : batch[i] = now.commands[i]
    <3>1. PICK s \in Seq(QueuedCommand) : s = now.commands
      BY <2>4
    <3>2. k \in 0..Len(s)
      BY <3>1
    <3>3. /\ SubSeq(s, 1, k) \in Seq(QueuedCommand) /\ Len(SubSeq(s, 1, k)) = k
          /\ \A i \in 1..k : SubSeq(s, 1, k)[i] = s[i]
      BY <3>2, SplitLemma
    <3> QED BY <3>1, <3>3 DEF NewCommands
  <2>6. Len(now.commands) \in Nat /\ DOMAIN now.commands = 1..Len(now.commands)
    BY <2>4
  <2>7. ASSUME NEW i \in DOMAIN batch
        PROVE  /\ i \in DOMAIN now.commands /\ batch[i] = now.commands[i]
               /\ batch[i].channel = id /\ batch[i].rsn \in Nat
               /\ batch[i].rsn > Len(handed[id]) /\ LastNumber(batch[i]) = batch[i].rsn
    <3>1. i \in 1..k /\ i \in DOMAIN now.commands /\ batch[i] = now.commands[i]
      BY <2>4, <2>5, <2>6
    <3>2. now.commands[i] \in ToSet(now.commands)
      BY <3>1 DEF ToSet
    <3>3. Labelled(id, batch[i])
      BY <2>2, <3>1, <3>2
    <3>4. now.incoming < batch[i].rsn
      BY <2>1, <3>1 DEF WellFormed, Ordered
    <3>5. now.incoming = Len(handed[id])
      BY <2>1, <2>4, LogIsNumbered
    <3> QED BY <3>1, <3>3, <3>4, <3>5, LabelledFacts
  <2>8. Distinct(batch)
    <3> SUFFICES ASSUME NEW i \in DOMAIN batch, NEW j \in DOMAIN batch, i # j
                 PROVE  batch[i].rsn # batch[j].rsn
      BY DEF Distinct, Same
    <3>1. \A m, n \in DOMAIN batch : m < n => batch[m].rsn < batch[n].rsn
      BY <2>1, <2>7 DEF WellFormed, Ordered
    <3>2. i \in Int /\ j \in Int
      BY <2>5
    <3>3. CASE i < j
      BY <2>7, <3>1, <3>3
    <3>4. CASE j < i
      BY <2>7, <3>1, <3>4
    <3> QED BY <3>2, <3>3, <3>4
  <2>9. ASSUME NEW q \in ToSet(batch), NEW r \in ToSet(dispatched_commands) \cup ToSet(delivered)
        PROVE  ~Same(q, r) /\ ~Same(r, q)
    <3>1. q.channel = id /\ q.rsn \in Nat /\ q.rsn > Len(handed[id])
      BY <2>7 DEF ToSet
    <3>2. r.channel \in CHANNELS /\ r \in ToSet(handed[r.channel])
      BY DEF Once
    <3>3. CASE r.channel = id
      <4>1. r.rsn \in 1..Len(handed[id])
        BY <2>4, <3>2, <3>3, LogIsBehind
      <4>2. Len(handed[id]) \in Nat
        BY <2>4
      <4> QED BY <3>1, <4>1, <4>2 DEF Same
    <3> QED BY <3>1, <3>3 DEF Same
  <2>10. Apart(batch, dispatched_commands)
    BY <2>9 DEF Apart
  <2>11. dispatched_commands' = batch \o dispatched_commands
    BY <2>3, <2>5
  <2>12. /\ Distinct(batch \o dispatched_commands)
         /\ ToSet(batch \o dispatched_commands) = ToSet(batch) \cup ToSet(dispatched_commands)
    BY <2>4, <2>5, <2>8, <2>10, DistinctConcat, SetOfConcat DEF Once
  <2>13. /\ ToSet(handed'[id]) = ToSet(handed[id]) \cup ToSet(batch)
         /\ \A j \in CHANNELS : j # id => handed'[j] = handed[j]
    <3>1. handed'[id] = handed[id] \o batch
      BY <2>3, <2>4, <2>5
    <3>2. handed[id] \in Seq(QueuedCommand)
      BY <2>4
    <3>3. ToSet(handed[id] \o batch) = ToSet(handed[id]) \cup ToSet(batch)
      BY <2>5, <3>2, SetOfConcat
    <3> QED BY <2>3, <2>4, <3>1, <3>3
  <2>14. ASSUME NEW q \in ToSet(dispatched_commands') \cup ToSet(delivered')
         PROVE  q.channel \in CHANNELS /\ q \in ToSet(handed'[q.channel])
    <3>1. CASE q \in ToSet(batch)
      <4>1. PICK i \in DOMAIN batch : q = batch[i]
        BY <3>1 DEF ToSet
      <4>2. q.channel = id
        BY <2>7, <4>1
      <4> QED BY <2>4, <2>13, <3>1, <4>2
    <3>2. CASE q \in ToSet(dispatched_commands) \cup ToSet(delivered)
      <4>1. q.channel \in CHANNELS /\ q \in ToSet(handed[q.channel])
        BY <3>2 DEF Once
      <4> QED BY <2>13, <4>1
    <3> QED BY <1>2, <2>11, <2>12, <3>1, <3>2
  <2>15. Apart(batch \o dispatched_commands, delivered)
    BY <2>9, <2>12 DEF Apart, Once
  <2>16. DeliveredOnce'
    BY <1>2 DEF Once, DeliveredOnce, Distinct
  <2>17. Distinct(dispatched_commands')
    BY <2>11, <2>12
  <2>18. Apart(dispatched_commands', delivered')
    BY <1>2, <2>11, <2>15
  <2> QED BY <2>14, <2>16, <2>17, <2>18 DEF Once, Distinct, Apart
<1> QED BY <1>1, <1>2, ReliableEffect

LEMMA OnceDispatch ==
    ASSUME Inv, Once, DispatchIncomingCommands
    PROVE  /\ Once' /\ UNCHANGED <<state, channels, acknowledgements, handed, confirmed>>
           /\ \/ UNCHANGED <<delivered, dispatched_commands>>
              \/ \E q \in ToSet(dispatched_commands) :
                    /\ ToSet(delivered') = ToSet(delivered) \cup {q}
                    /\ \A r \in ToSet(delivered) : ~Same(q, r)
<1>1. UNCHANGED <<state, channels, acknowledgements, handed, confirmed>>
  BY DEF DispatchIncomingCommands
<1>2. CASE UNCHANGED <<delivered, dispatched_commands>>
  <2>1. Once'
    BY <1>1, <1>2 DEF Once, DeliveredOnce, Distinct, Apart
  <2> QED BY <1>1, <1>2, <2>1
<1>3. CASE /\ dispatched_commands # <<>>
           /\ delivered' = Append(delivered, Head(dispatched_commands))
           /\ dispatched_commands' = Tail(dispatched_commands)
  <2> DEFINE q == Head(dispatched_commands)
             t == Tail(dispatched_commands)
  <2>1. dispatched_commands \in Seq(QueuedCommand) /\ delivered \in Seq(QueuedCommand)
    BY DEF Inv, TypeOK
  <2>2. /\ q \in QueuedCommand /\ t \in Seq(QueuedCommand)
        /\ ToSet(dispatched_commands) = {q} \cup ToSet(t)
        /\ Distinct(t) /\ \A r \in ToSet(t) : ~Same(q, r)
    BY <1>3, <2>1, TailLemma DEF Once
  <2> HIDE DEF q, t
  <2>3. \A r \in ToSet(delivered) : ~Same(q, r) /\ ~Same(r, q)
    BY <2>2 DEF Once, Apart, Same
  <2>4. delivered' = Append(delivered, q) /\ dispatched_commands' = t
    BY <1>3 DEF q, t
  <2>5. /\ ToSet(Append(delivered, q)) = ToSet(delivered) \cup {q}
        /\ Distinct(Append(delivered, q))
    BY <2>1, <2>2, <2>3, SetOfAppend, DistinctAppend DEF Once, DeliveredOnce
  <2>6. Apart(t, Append(delivered, q))
    BY <2>2, <2>5 DEF Once, Apart, Same
  <2>7. Apart(dispatched_commands', delivered') /\ Distinct(dispatched_commands')
    BY <2>2, <2>4, <2>6
  <2>8. DeliveredOnce'
    <3>1. Distinct(delivered')
      BY <2>4, <2>5
    <3> QED BY <3>1 DEF DeliveredOnce, Distinct
  <2>9. ToSet(dispatched_commands') \cup ToSet(delivered') =
           ToSet(dispatched_commands) \cup ToSet(delivered)
    BY <2>2, <2>4, <2>5
  <2>10. \A r \in ToSet(dispatched_commands') \cup ToSet(delivered') :
            r.channel \in CHANNELS /\ r \in ToSet(handed'[r.channel])
    BY <1>1, <2>9 DEF Once
  <2>11. Once'
    BY <2>7, <2>8, <2>10 DEF Once, Distinct, Apart
  <2> QED BY <1>1, <2>2, <2>3, <2>4, <2>5, <2>11
<1> QED BY <1>2, <1>3 DEF DispatchIncomingCommands

LEMMA WholeInit == Init => Labels /\ Once
  BY DEF Init, Labels, Held, Once, DeliveredOnce, Distinct, Apart, ToSet, EmptyChannel

LEMMA WholeNext ==
    ASSUME OneLap, WholeMessages, Inv, Labels, Once, [Next]_vars
    PROVE  Labels' /\ Once'
<1>1. CASE UNCHANGED <<channels, handed, dispatched_commands, delivered>>
  BY <1>1 DEF Labels, Held, Labelled, Once, DeliveredOnce, Distinct, Apart
<1>2. ASSUME NEW c \in Commands, ReceiveReliable(c) PROVE Labels' /\ Once'
  BY <1>2, LabelsReliable, OnceReliable
<1>3. ASSUME NEW c \in Commands PROVE ~ReceiveFragment(c)
  BY DEF WholeMessages, ReceiveFragment
<1>4. CASE DispatchIncomingCommands
  <2>1. Once' /\ UNCHANGED <<channels, handed>>
    BY <1>4, OnceDispatch
  <2>2. Labels'
    BY <2>1 DEF Labels, Held, Labelled
  <2> QED BY <2>1, <2>2
<1>5. SendAcknowledgements \/ DisconnectLater \/ UNCHANGED vars =>
         UNCHANGED <<channels, handed, dispatched_commands, delivered>>
  BY DEF SendAcknowledgements, DisconnectLater, vars, peerVars, history
<1> QED BY <1>1, <1>2, <1>3, <1>4, <1>5 DEF Next

\* The application is given no message twice, although the network may repeat
\* every datagram and a batch is pushed in front of what waits (peer.h:131).
THEOREM NothingIsReceivedTwice ==
    ASSUME OneLap, WholeMessages
    PROVE  Spec => []DeliveredOnce
<1>1. Init => Inv /\ Labels /\ Once
  BY InitKeeps, WholeInit
<1>2. Inv /\ Labels /\ Once /\ [Next]_vars => Inv' /\ Labels' /\ Once'
  BY NextKeeps, WholeNext
<1>3. Once => DeliveredOnce
  BY DEF Once
<1> QED BY <1>1, <1>2, <1>3, PTL DEF Spec

-----------------------------------------------------------------------------
(* What is acknowledged is kept.                                           *)

HoldsNumber(id, n) == \E q \in Held(id) : q.rsn = n

AcknowledgedIsHeld ==
    \A a \in confirmed \cup ToSet(acknowledgements) :
        a.channel \in CHANNELS /\ HoldsNumber(a.channel, a.rsn)

\* What arrives is not discarded unseen, and a number that is refused because
\* it is ahead of the windows is not acknowledged.
Considered(c) ==
    LET ch == channels[c.channel]
    IN  /\ ~PeerDiscards
        /\ \/ c.start <= ch.incoming
           \/ ~OutsideWindow(ch, c.start)
           \/ StaysSilent(ch, c.start)

ConsideredOnArrival == \A c \in Commands : ReceiveReliable(c) => Considered(c)

\* A command that the channel does not want is one that it holds, or one that
\* the receiver keeps silent about.
LEMMA UnwantedIsHeld ==
    ASSUME OneLap, WholeMessages, Inv, Labels, NEW c \in Commands, Considered(c),
           Unwanted(channels[c.channel], c.start)
    PROVE  HoldsNumber(c.channel, c.start) \/ StaysSilent(channels[c.channel], c.start)
<1> DEFINE id == c.channel
           ch == channels[id]
<1>1. id \in CHANNELS /\ c.start \in Nat /\ c.start >= 1
  BY CommandType DEF OneLap, FirstLap
<1>2. CASE c.start <= ch.incoming
  <2>1. ch.incoming = Len(handed[id]) /\ handed[id] \in Seq(QueuedCommand)
    BY <1>1, LogIsNumbered
  <2>2. c.start \in 1..Len(handed[id])
    BY <1>1, <1>2, <2>1
  <2>3. \E q \in ToSet(handed[id]) : q.rsn = c.start
    BY <1>1, <2>2, LogIsBehind
  <2> QED BY <2>3 DEF HoldsNumber, Held
<1>3. CASE \E p \in DOMAIN ch.commands : ch.commands[p].rsn = c.start
  BY <1>1, <1>3 DEF HoldsNumber, Held, ToSet
<1>4. CASE OutsideWindow(ch, c.start)
  BY <1>2, <1>4 DEF Considered
<1>5. CASE c.start = ch.incoming
  BY <1>1, <1>2, <1>5
<1> QED BY <1>3, <1>4, <1>5 DEF Unwanted

LEMMA AcknowledgedReliable ==
    ASSUME OneLap, WholeMessages, Inv, Labels, AcknowledgedIsHeld,
           NEW c \in Commands, ReceiveReliable(c), Considered(c)
    PROVE  AcknowledgedIsHeld'
<1> DEFINE id == c.channel
           ack == [channel |-> id, rsn |-> c.start]
<1>1. id \in CHANNELS /\ ack \in Acknowledgement /\ acknowledgements \in Seq(Acknowledgement)
  BY CommandType DEF Acknowledgement, Inv, TypeOK
<1>2. (\A j \in CHANNELS : Held(j) \subseteq Held(j)') /\ UNCHANGED confirmed
  BY LabelsReliable, ReliableEffect
<1>3. \/ acknowledgements' = acknowledgements
      \/ acknowledgements' = Append(acknowledgements, ack) /\ \E q \in Held(id)' : q.rsn = c.start
  <2>1. CASE acknowledgements' = acknowledgements
    BY <2>1
  <2>2. CASE /\ UNCHANGED channels /\ QueueAcknowledgement(id, c.start)
             /\ Unwanted(channels[id], c.start)
    <3>1. CASE HoldsNumber(id, c.start)
      <4>1. \E q \in Held(id)' : q.rsn = c.start
        BY <1>1, <1>2, <3>1 DEF HoldsNumber
      <4> QED BY <2>2, <4>1 DEF QueueAcknowledgement
    <3>2. CASE StaysSilent(channels[id], c.start)
      <4>1. StaysSilent(channels'[id], c.start)
        BY <2>2, <3>2
      <4> QED BY <2>2, <4>1 DEF QueueAcknowledgement
    <3> QED BY <2>2, <3>1, <3>2, UnwantedIsHeld
  <2>3. CASE /\ \E p \in 0..Len(channels[id].commands) : Joins(c, p)
             /\ QueueAcknowledgement(id, c.start)
    <3>1. Held(id)' = Held(id) \cup {NewIncomingCommand(c)} /\ NewIncomingCommand(c).rsn = c.start
      BY <2>3, JoinEffect
    <3> QED BY <2>3, <3>1 DEF QueueAcknowledgement
  <2> QED BY <2>1, <2>2, <2>3, ReliableEffect DEF Considered
<1> HIDE DEF ack
<1>4. ToSet(acknowledgements') \subseteq ToSet(acknowledgements) \cup {ack}
  <2>1. ToSet(Append(acknowledgements, ack)) = ToSet(acknowledgements) \cup {ack}
    BY <1>1, SetOfAppend
  <2> QED BY <1>3, <2>1
<1>5. ASSUME NEW a \in confirmed' \cup ToSet(acknowledgements')
      PROVE  a.channel \in CHANNELS /\ \E q \in Held(a.channel)' : q.rsn = a.rsn
  <2>1. CASE a \in confirmed \cup ToSet(acknowledgements)
    <3>1. a.channel \in CHANNELS /\ \E q \in Held(a.channel) : q.rsn = a.rsn
      BY <2>1 DEF AcknowledgedIsHeld, HoldsNumber
    <3> QED BY <1>2, <3>1
  <2>2. CASE a \notin confirmed \cup ToSet(acknowledgements)
    <3>1. a = ack /\ acknowledgements' # acknowledgements
      BY <1>2, <1>4, <2>2
    <3> QED BY <1>1, <1>3, <3>1 DEF ack
  <2> QED BY <2>1, <2>2
<1> QED BY <1>5 DEF AcknowledgedIsHeld, HoldsNumber

LEMMA AcknowledgedSend ==
    ASSUME AcknowledgedIsHeld, SendAcknowledgements
    PROVE  AcknowledgedIsHeld'
<1>1. UNCHANGED <<handed, channels>>
  BY DEF SendAcknowledgements
<1>2. confirmed' \cup ToSet(acknowledgements') \subseteq
         confirmed \cup ToSet(acknowledgements)
  BY DEF SendAcknowledgements, ToSet
<1> QED BY <1>1, <1>2 DEF AcknowledgedIsHeld, HoldsNumber, Held

LEMMA AcknowledgedNext ==
    ASSUME OneLap, WholeMessages, Inv, Labels, Once, AcknowledgedIsHeld,
           [Next]_vars, [ConsideredOnArrival]_vars
    PROVE  AcknowledgedIsHeld'
<1>1. CASE UNCHANGED <<confirmed, acknowledgements, handed, channels>>
  BY <1>1 DEF AcknowledgedIsHeld, HoldsNumber, Held
<1>2. ASSUME ConsideredOnArrival, NEW c \in Commands, ReceiveReliable(c)
      PROVE  AcknowledgedIsHeld'
  BY <1>2, AcknowledgedReliable DEF ConsideredOnArrival
<1>3. ASSUME NEW c \in Commands PROVE ~ReceiveFragment(c)
  BY DEF WholeMessages, ReceiveFragment
<1>4. DispatchIncomingCommands \/ DisconnectLater \/ UNCHANGED vars =>
         UNCHANGED <<confirmed, acknowledgements, handed, channels>>
  BY DEF DispatchIncomingCommands, DisconnectLater, vars, peerVars, history
<1> QED BY <1>1, <1>2, <1>3, <1>4, AcknowledgedSend DEF Next

\* What the receiver acknowledges it keeps: of whole messages, as long as it is
\* connected, waiting data stays below the limit, and what is refused because it
\* is ahead of the windows is refused in silence.  Each premise is needed,
\* README.md says why.
THEOREM AcknowledgedIsKept ==
    ASSUME OneLap, WholeMessages
    PROVE  Spec /\ [][ConsideredOnArrival]_vars => []ConfirmedIsKept
<1>1. Init => Inv /\ Labels /\ Once /\ AcknowledgedIsHeld
  BY InitKeeps, WholeInit DEF Init, AcknowledgedIsHeld, ToSet
<1>2. Inv /\ Labels /\ Once /\ AcknowledgedIsHeld /\ [Next]_vars /\ [ConsideredOnArrival]_vars
        => Inv' /\ Labels' /\ Once' /\ AcknowledgedIsHeld'
  BY NextKeeps, WholeNext, AcknowledgedNext
<1>3. Labels /\ AcknowledgedIsHeld => ConfirmedIsKept
  <2> SUFFICES ASSUME Labels, AcknowledgedIsHeld,
                      NEW a \in confirmed \cup ToSet(acknowledgements),
                      NEW c \in Commands, c.channel = a.channel, c.rsn = a.rsn
               PROVE  Part(c) \in KeptParts(a.channel)
    BY DEF ConfirmedIsKept
  <2>0. a.channel \in CHANNELS
    BY DEF AcknowledgedIsHeld
  <2>1. PICK q \in Held(a.channel) : q.rsn = a.rsn
    BY DEF AcknowledgedIsHeld, HoldsNumber
  <2>2. PICK d \in Commands : d.channel = a.channel /\ q = NewIncomingCommand(d)
    BY <2>0 DEF Labels, Labelled
  <2>3. c.rsn = c.start /\ q.rsn = d.start /\ q.payload = <<Part(d)>>
    BY <2>2, CommandType, ReceiverAssumption DEF WholeMessages, NewIncomingCommand
  <2>4. Part(c) = Part(d)
    BY <2>1, <2>2, <2>3 DEF WholeMessages
  <2>5. Part(d) \in ToSet(q.payload)
    BY <2>3 DEF ToSet
  <2> QED BY <2>1, <2>4, <2>5 DEF KeptParts, Held
<1> QED BY <1>1, <1>2, <1>3, PTL DEF Spec

-----------------------------------------------------------------------------
(* The data that waits.                                                    *)

LEMMA LengthsAreNumeric ==
    ASSUME NEW s \in Seq(QueuedCommand)
    PROVE  /\ DOMAIN s = 1..Len(s) /\ Len(s) \in Nat /\ IsFiniteSet(DOMAIN s)
           /\ \A i \in DOMAIN s : s[i].length \in Nat
           /\ SumOfLengths(s) \in Nat
<1>1. DOMAIN s = 1..Len(s) /\ Len(s) \in Nat
  OBVIOUS
<1>2. IsFiniteSet(DOMAIN s)
  BY <1>1, FS_Interval
<1>3. ASSUME NEW i \in DOMAIN s PROVE s[i].length \in Nat
  <2>1. s[i] \in QueuedCommand
    OBVIOUS
  <2> QED BY <2>1 DEF QueuedCommand
<1> DEFINE f == [i \in DOMAIN s |-> s[i].length]
<1>4. DOMAIN f = DOMAIN s /\ \A i \in DOMAIN s : f[i] \in Nat
  BY <1>3
<1>5. SumOfLengths(s) = SumFunctionOnSet(f, DOMAIN f)
  BY DEF SumOfLengths, SumFunction
<1> HIDE DEF f
<1>6. SumFunctionOnSet(f, DOMAIN s) \in Nat
  BY <1>2, <1>4, SumOfFewer
<1> QED BY <1>1, <1>2, <1>3, <1>4, <1>5, <1>6

LEMMA LengthOfNothing == SumOfLengths(<<>>) = 0
<1> DEFINE f == [i \in DOMAIN <<>> |-> <<>>[i].length]
<1>1. DOMAIN f = {}
  OBVIOUS
<1>2. SumOfLengths(<<>>) = SumFunctionOnSet(f, DOMAIN f)
  BY DEF SumOfLengths, SumFunction
<1> HIDE DEF f
<1> QED BY <1>1, <1>2, SumEmpty

LEMMA LengthOfAppend ==
    ASSUME NEW s \in Seq(QueuedCommand), NEW e \in QueuedCommand
    PROVE  SumOfLengths(Append(s, e)) = SumOfLengths(s) + e.length
<1> DEFINE t == Append(s, e)
           n == Len(s) + 1
           B == DOMAIN s
           f == [i \in DOMAIN s |-> s[i].length]
           h == [i \in DOMAIN t |-> t[i].length]
<1>1. /\ B = 1..Len(s) /\ Len(s) \in Nat /\ IsFiniteSet(B)
      /\ \A i \in B : s[i].length \in Nat
  BY LengthsAreNumeric
<1>2. /\ t \in Seq(QueuedCommand) /\ DOMAIN t = 1..n /\ t[n] = e
      /\ \A i \in B : t[i] = s[i]
  OBVIOUS
<1>3. \A i \in DOMAIN t : t[i].length \in Nat
  BY <1>2, LengthsAreNumeric
<1>4. n \notin B /\ DOMAIN t = B \cup {n} /\ n \in DOMAIN t
  BY <1>1, <1>2
<1> HIDE DEF t, n, B
<1>5. DOMAIN f = B /\ \A i \in B : f[i] = s[i].length
  BY DEF B
<1>6. DOMAIN h = B \cup {n} /\ \A i \in B \cup {n} : h[i] = t[i].length
  BY <1>4
<1>7. SumOfLengths(s) = SumFunctionOnSet(f, DOMAIN f)
  BY DEF SumOfLengths, SumFunction
<1>8. SumOfLengths(t) = SumFunctionOnSet(h, DOMAIN h)
  BY DEF SumOfLengths, SumFunction
<1> HIDE DEF f, h
<1>9. Numeric(f, B) /\ Numeric(h, B \cup {n}) /\ Numeric(h, B)
  <2>1. \A i \in B : f[i] \in Int
    BY <1>1, <1>5
  <2>2. \A i \in B \cup {n} : h[i] \in Int
    BY <1>3, <1>4, <1>6
  <2> QED BY <2>1, <2>2 DEF Numeric
<1>10. SumFunctionOnSet(h, B \cup {n}) = SumFunctionOnSet(h, B) + h[n]
  BY <1>1, <1>4, <1>9, SumPut
<1>11. \A i \in B : f[i] = h[i]
  BY <1>2, <1>5, <1>6
<1>12. SumFunctionOnSet(f, B) = SumFunctionOnSet(h, B)
  BY <1>1, <1>9, <1>11, SumSame
<1>13. h[n] = e.length
  BY <1>2, <1>4, <1>6
<1>14. SumOfLengths(t) = SumOfLengths(s) + e.length
  BY <1>5, <1>6, <1>7, <1>8, <1>10, <1>12, <1>13
<1> QED BY <1>14 DEF t

\* The last element of a sequence, taken off.
LEMMA LastTaken ==
    ASSUME NEW S, NEW t \in Seq(S), NEW n \in Nat, Len(t) = n + 1
    PROVE  \E front \in Seq(S), e \in S :
              t = Append(front, e) /\ Len(front) = n
<1> DEFINE front == SubSeq(t, 1, n)
           e     == t[n + 1]
<1>1. front \in Seq(S) /\ Len(front) = n /\ e \in S
  OBVIOUS
<1>2. t = Append(front, e)
  OBVIOUS
<1> QED BY <1>1, <1>2

LEMMA LengthOfConcat ==
    ASSUME NEW s \in Seq(QueuedCommand), NEW t \in Seq(QueuedCommand)
    PROVE  SumOfLengths(s \o t) = SumOfLengths(s) + SumOfLengths(t)
<1> DEFINE Added(u) == SumOfLengths(s \o u) = SumOfLengths(s) + SumOfLengths(u)
           S == {n \in Nat : \A u \in Seq(QueuedCommand) : Len(u) = n => Added(u)}
<1>1. 0 \in S
  <2>1. ASSUME NEW u \in Seq(QueuedCommand), Len(u) = 0 PROVE Added(u)
    <3>1. u = <<>> /\ s \o u = s
      BY <2>1
    <3>2. SumOfLengths(s) \in Nat
      BY LengthsAreNumeric
    <3> QED BY <3>1, <3>2, LengthOfNothing
  <2> QED BY <2>1
<1>2. ASSUME NEW n \in S, n \in Nat PROVE n + 1 \in S
  <2>1. ASSUME NEW u \in Seq(QueuedCommand), Len(u) = n + 1 PROVE Added(u)
    <3>1. PICK front \in Seq(QueuedCommand), e \in QueuedCommand :
             u = Append(front, e) /\ Len(front) = n
      BY <1>2, <2>1, LastTaken
    <3>2. SumOfLengths(s \o front) = SumOfLengths(s) + SumOfLengths(front)
      BY <1>2, <3>1
    <3>3. SumOfLengths(u) = SumOfLengths(front) + e.length
      BY <3>1, LengthOfAppend
    <3>4. PICK w \in Seq(QueuedCommand) : w = s \o front
      BY ConcatLemma
    <3>5. s \o u = Append(w, e)
      BY <3>1, <3>4
    <3>6. SumOfLengths(s \o u) = SumOfLengths(w) + e.length
      BY <3>4, <3>5, LengthOfAppend
    <3>7. /\ SumOfLengths(s) \in Nat /\ SumOfLengths(front) \in Nat
          /\ e.length \in Nat
      BY LengthsAreNumeric DEF QueuedCommand
    <3> QED BY <3>2, <3>3, <3>4, <3>6, <3>7
  <2> QED BY <1>2, <2>1
<1> HIDE DEF Added
<1>3. Nat \subseteq S
  <2> HIDE DEF S
  <2> QED BY <1>1, <1>2, NatSetInduction
<1>4. Len(t) \in Nat
  OBVIOUS
<1> QED BY <1>3, <1>4 DEF Added

LEMMA LengthOfSplit ==
    ASSUME NEW s \in Seq(QueuedCommand), NEW k \in 0..Len(s)
    PROVE  SumOfLengths(s) =
              SumOfLengths(SubSeq(s, 1, k)) + SumOfLengths(SubSeq(s, k + 1, Len(s)))
<1> DEFINE a == SubSeq(s, 1, k)
           b == SubSeq(s, k + 1, Len(s))
<1>1. a \in Seq(QueuedCommand) /\ b \in Seq(QueuedCommand)
  BY SplitLemma
<1>2. /\ Len(a) = k /\ \A i \in 1..k : a[i] = s[i]
      /\ Len(b) = Len(s) - k /\ \A i \in 1..(Len(s) - k) : b[i] = s[i + k]
  BY SplitLemma
<1> HIDE DEF a, b
<1>5. s = a \o b
  <2>1. PICK w \in Seq(QueuedCommand) : w = a \o b
    BY <1>1, ConcatLemma
  <2>2. /\ Len(w) = Len(a) + Len(b)
        /\ \A i \in 1..(Len(a) + Len(b)) :
              w[i] = IF i <= Len(a) THEN a[i] ELSE b[i - Len(a)]
    BY <1>1, <2>1, ConcatLemma
  <2>3. Len(w) = Len(s) /\ Len(s) \in Nat
    BY <1>2, <2>2
  <2>4. ASSUME NEW i \in 1..Len(s) PROVE w[i] = s[i]
    <3>1. w[i] = IF i <= k THEN a[i] ELSE b[i - k]
      BY <1>2, <2>2, <2>3
    <3>2. CASE i <= k
      BY <1>2, <3>1, <3>2
    <3>3. CASE ~(i <= k)
      <4>1. i - k \in 1..(Len(s) - k) /\ (i - k) + k = i
        BY <2>3, <3>3
      <4>2. b[i - k] = s[(i - k) + k]
        BY <1>2, <4>1
      <4> QED BY <3>1, <3>3, <4>1, <4>2
    <3> QED BY <3>2, <3>3
  <2>5. w = s
    BY <2>3, <2>4
  <2> QED BY <2>1, <2>5
<1>3. SumOfLengths(a \o b) = SumOfLengths(a) + SumOfLengths(b)
  BY <1>1, LengthOfConcat
<1>4. SumOfLengths(s) = SumOfLengths(a) + SumOfLengths(b)
  BY <1>3, <1>5
<1> QED BY <1>4 DEF a, b

LEMMA AppendIsConcat ==
    ASSUME NEW S, NEW s \in Seq(S), NEW e \in S
    PROVE  s \o <<e>> = Append(s, e)
OBVIOUS

LEMMA AppendTyped ==
    ASSUME NEW S, NEW s \in Seq(S), NEW e \in S
    PROVE  Append(s, e) \in Seq(S)
OBVIOUS

LEMMA HeadFirst ==
    ASSUME NEW S, NEW s \in Seq(S), s # <<>>
    PROVE  s = <<Head(s)>> \o Tail(s)
<1>1. /\ Len(s) \in Nat /\ Len(s) > 0 /\ s[1] \in S
      /\ <<Head(s)>> \in Seq(S) /\ Len(<<Head(s)>>) = 1 /\ <<Head(s)>>[1] = s[1]
  OBVIOUS
<1>2. PICK u \in Seq(S) : u = Tail(s)
  BY TailLemma
<1>3. Len(u) = Len(s) - 1 /\ \A i \in 1..(Len(s) - 1) : u[i] = s[i + 1]
  BY <1>1, <1>2
<1>4. PICK h \in Seq(S) : h = <<Head(s)>>
  BY <1>1
<1>5. PICK w \in Seq(S) : w = h \o u
  BY ConcatLemma
<1>6. /\ Len(w) = 1 + Len(u)
      /\ \A i \in 1..(1 + Len(u)) : w[i] = IF i <= 1 THEN h[i] ELSE u[i - 1]
  BY <1>1, <1>4, <1>5, ConcatLemma
<1>7. ASSUME NEW i \in 1..Len(s) PROVE w[i] = s[i]
  <2>1. w[i] = IF i <= 1 THEN h[i] ELSE u[i - 1]
    BY <1>1, <1>3, <1>6
  <2>2. CASE i <= 1
    BY <1>1, <1>4, <2>1, <2>2
  <2>3. CASE ~(i <= 1)
    <3>1. i - 1 \in 1..(Len(s) - 1) /\ (i - 1) + 1 = i
      BY <1>1, <2>3
    <3>2. u[i - 1] = s[(i - 1) + 1]
      BY <1>3, <3>1
    <3> QED BY <2>1, <2>3, <3>1, <3>2
  <2> QED BY <2>2, <2>3
<1>8. w = s
  BY <1>1, <1>3, <1>6, <1>7
<1> QED BY <1>2, <1>4, <1>5, <1>8

LEMMA LengthOfInsert ==
    ASSUME NEW s \in Seq(QueuedCommand), NEW e \in QueuedCommand, NEW p \in 0..Len(s)
    PROVE  SumOfLengths(InsertAt(s, p + 1, e)) = SumOfLengths(s) + e.length
<1> DEFINE a == SubSeq(s, 1, p)
           b == SubSeq(s, p + 1, Len(s))
<1>1. a \in Seq(QueuedCommand) /\ b \in Seq(QueuedCommand)
  BY SplitLemma
<1>2. InsertAt(s, p + 1, e) = a \o <<e>> \o b
  <2>1. (p + 1) - 1 = p
    OBVIOUS
  <2>2. InsertAt(s, p + 1, e) =
          SubSeq(s, 1, (p + 1) - 1) \o <<e>> \o SubSeq(s, p + 1, Len(s))
    BY DEF InsertAt
  <2> QED BY <2>1, <2>2
<1>3. SumOfLengths(s) = SumOfLengths(a) + SumOfLengths(b)
  BY LengthOfSplit
<1> HIDE DEF a, b
<1>4. PICK front \in Seq(QueuedCommand) : front = Append(a, e)
  <2>1. Append(a, e) \in Seq(QueuedCommand)
    BY <1>1, AppendTyped
  <2> QED BY <2>1
<1>9. front = a \o <<e>>
  <2>1. a \o <<e>> = Append(a, e)
    BY <1>1, AppendIsConcat
  <2> QED BY <1>4, <2>1
<1>5. SumOfLengths(front) = SumOfLengths(a) + e.length
  BY <1>1, <1>4, LengthOfAppend
<1>6. SumOfLengths(front \o b) = SumOfLengths(front) + SumOfLengths(b)
  BY <1>1, <1>4, LengthOfConcat
<1>7. SumOfLengths(a) \in Nat /\ SumOfLengths(b) \in Nat /\ e.length \in Nat
  BY <1>1, LengthsAreNumeric DEF QueuedCommand
<1>8. SumOfLengths(InsertAt(s, p + 1, e)) = SumOfLengths(front \o b)
  BY <1>2, <1>9
<1> QED BY <1>3, <1>5, <1>6, <1>7, <1>8

LEMMA LengthOfTail ==
    ASSUME NEW s \in Seq(QueuedCommand), s # <<>>
    PROVE  /\ Tail(s) \in Seq(QueuedCommand) /\ Head(s) \in QueuedCommand
           /\ SumOfLengths(s) = Head(s).length + SumOfLengths(Tail(s))
<1>1. PICK e \in QueuedCommand : e = Head(s)
  BY TailLemma
<1>2. PICK rest \in Seq(QueuedCommand) : rest = Tail(s)
  BY TailLemma
<1>4. <<>> \in Seq(QueuedCommand)
  OBVIOUS
<1>3. PICK one \in Seq(QueuedCommand) : one = <<e>>
  <2>1. <<e>> \in Seq(QueuedCommand)
    OBVIOUS
  <2> QED BY <2>1
<1>11. one = Append(<<>>, e)
  BY <1>3
<1>5. s = one \o rest
  BY <1>1, <1>2, <1>3, HeadFirst
<1>6. SumOfLengths(s) = SumOfLengths(one) + SumOfLengths(rest)
  BY <1>5, LengthOfConcat
<1>7. SumOfLengths(one) = SumOfLengths(<<>>) + e.length
  BY <1>4, <1>11, LengthOfAppend
<1>8. e.length \in Nat
  BY DEF QueuedCommand
<1>9. SumOfLengths(one) = e.length
  BY <1>7, <1>8, LengthOfNothing
<1>10. SumOfLengths(s) = e.length + SumOfLengths(rest)
  BY <1>6, <1>9
<1> QED BY <1>1, <1>2, <1>10

\* The data that channels hold back, all together and all but one.
Backlog(chs) == SumFunction([id \in CHANNELS |-> SumOfLengths(chs[id].commands)])

OtherBacklog(chs, id) ==
    SumFunctionOnSet([j \in CHANNELS |-> SumOfLengths(chs[j].commands)], CHANNELS \ {id})

LEMMA BacklogTake ==
    ASSUME NEW chs \in [CHANNELS -> ChannelType], NEW id \in CHANNELS
    PROVE  /\ Backlog(chs) = SumOfLengths(chs[id].commands) + OtherBacklog(chs, id)
           /\ OtherBacklog(chs, id) \in Nat /\ SumOfLengths(chs[id].commands) \in Nat
<1> DEFINE f == [j \in CHANNELS |-> SumOfLengths(chs[j].commands)]
<1>1. ASSUME NEW j \in CHANNELS PROVE SumOfLengths(chs[j].commands) \in Nat
  <2>1. chs[j].commands \in Seq(QueuedCommand)
    BY DEF ChannelType
  <2> QED BY <2>1, LengthsAreNumeric
<1>2. DOMAIN f = CHANNELS /\ f[id] = SumOfLengths(chs[id].commands)
  OBVIOUS
<1>3. \A j \in CHANNELS : f[j] \in Nat
  BY <1>1
<1>4. Backlog(chs) = SumFunctionOnSet(f, DOMAIN f)
  BY DEF Backlog, SumFunction
<1>5. OtherBacklog(chs, id) = SumFunctionOnSet(f, CHANNELS \ {id})
  BY DEF OtherBacklog
<1> HIDE DEF f
<1>6. Numeric(f, CHANNELS)
  BY <1>3 DEF Numeric
<1>7. SumFunctionOnSet(f, CHANNELS) = f[id] + SumFunctionOnSet(f, CHANNELS \ {id})
  BY <1>6, SumTake, ChannelsAssumption
<1>8. SumFunctionOnSet(f, CHANNELS \ {id}) \in Nat
  BY <1>3, SumOfFewer, ChannelsAssumption
<1> QED BY <1>1, <1>2, <1>4, <1>5, <1>7, <1>8

LEMMA OthersStay ==
    ASSUME NEW a \in [CHANNELS -> ChannelType], NEW b \in [CHANNELS -> ChannelType],
           NEW id \in CHANNELS, \A j \in CHANNELS : j # id => b[j] = a[j]
    PROVE  OtherBacklog(b, id) = OtherBacklog(a, id)
<1> DEFINE B == CHANNELS \ {id}
           f == [j \in CHANNELS |-> SumOfLengths(a[j].commands)]
           h == [j \in CHANNELS |-> SumOfLengths(b[j].commands)]
<1>1. IsFiniteSet(B)
  BY ChannelsAssumption, FS_Subset
<1>2. \A j \in B : f[j] = h[j]
  OBVIOUS
<1>3. Numeric(f, B)
  <2>1. ASSUME NEW j \in B PROVE f[j] \in Int
    <3>1. a[j].commands \in Seq(QueuedCommand)
      BY DEF ChannelType
    <3> QED BY <3>1, LengthsAreNumeric
  <2> QED BY <2>1 DEF Numeric
<1>4. /\ OtherBacklog(a, id) = SumFunctionOnSet(f, B)
      /\ OtherBacklog(b, id) = SumFunctionOnSet(h, B)
  BY DEF OtherBacklog
<1> HIDE DEF f, h, B
<1>5. SumFunctionOnSet(f, B) = SumFunctionOnSet(h, B)
  BY <1>1, <1>2, <1>3, SumSame
<1> QED BY <1>4, <1>5

\* The data that waits.
Waiting == SumOfLengths(dispatched_commands) + Backlog(channels)

LEMMA WaitingIs ==
    WaitingDataIsCounted <=> total_waiting_data >= Waiting
BY DEF WaitingDataIsCounted, Waiting, Backlog

LEMMA WaitingTyped ==
    ASSUME TypeOK
    PROVE  /\ channels \in [CHANNELS -> ChannelType]
           /\ dispatched_commands \in Seq(QueuedCommand)
           /\ SumOfLengths(dispatched_commands) \in Nat
           /\ total_waiting_data \in Nat
BY LengthsAreNumeric DEF TypeOK, ChannelType

\* What is handed over moves from the channel to the dispatch deque.
LEMMA HandOverMovesData ==
    ASSUME TypeOK, TypeOK', NEW id \in CHANNELS, NEW ch \in ChannelType,
           DispatchIncomingReliableCommands(id, ch)
    PROVE  Waiting' = SumOfLengths(dispatched_commands) + SumOfLengths(ch.commands)
                          + OtherBacklog(channels, id)
<1>1. PICK k \in 0..Len(ch.commands) :
        /\ channels' = [channels EXCEPT ![id] = AfterHandOver(ch, k)]
        /\ dispatched_commands' = NewCommands(ch, k) \o dispatched_commands
  BY DEF DispatchIncomingReliableCommands
<1>2. PICK s \in Seq(QueuedCommand) : s = ch.commands
  BY DEF ChannelType
<1>3. PICK a \in Seq(QueuedCommand) : a = SubSeq(s, 1, k)
  BY <1>2, SplitLemma
<1>4. PICK b \in Seq(QueuedCommand) : b = SubSeq(s, k + 1, Len(s))
  BY <1>2, SplitLemma
<1>5. SumOfLengths(s) = SumOfLengths(a) + SumOfLengths(b)
  BY <1>2, <1>3, <1>4, LengthOfSplit
<1>6. /\ channels \in [CHANNELS -> ChannelType] /\ dispatched_commands \in Seq(QueuedCommand)
      /\ SumOfLengths(dispatched_commands) \in Nat
  BY WaitingTyped
<1>7. channels' \in [CHANNELS -> ChannelType]
  BY DEF TypeOK, ChannelType
<1>8. /\ channels'[id].commands = b
      /\ \A j \in CHANNELS : j # id => channels'[j] = channels[j]
  BY <1>1, <1>2, <1>4, <1>6 DEF AfterHandOver
<1>9. dispatched_commands' = a \o dispatched_commands
  BY <1>1, <1>2, <1>3 DEF NewCommands
<1>10. SumOfLengths(dispatched_commands') = SumOfLengths(a) + SumOfLengths(dispatched_commands)
  BY <1>6, <1>9, LengthOfConcat
<1>11. PICK chs \in [CHANNELS -> ChannelType] : chs = channels'
  BY <1>7
<1>12. Backlog(chs) = SumOfLengths(b) + OtherBacklog(chs, id)
  BY <1>8, <1>11, BacklogTake
<1>13. OtherBacklog(chs, id) = OtherBacklog(channels, id)
  BY <1>6, <1>8, <1>11, OthersStay
<1>14. OtherBacklog(channels, id) \in Nat
  BY <1>6, BacklogTake
<1>15. Waiting' = SumOfLengths(dispatched_commands') + Backlog(channels')
  BY DEF Waiting, Backlog
<1>16. SumOfLengths(a) \in Nat /\ SumOfLengths(b) \in Nat
  BY LengthsAreNumeric
<1> QED BY <1>2, <1>5, <1>6, <1>10, <1>11, <1>12, <1>13, <1>14, <1>15, <1>16

\* Messages of one command each.
OnlyReliable == \A c \in Commands : c.kind = "SEND_RELIABLE"

LEMMA WaitingReliable ==
    ASSUME OneLap, Inv, Inv', WaitingDataIsCounted, NEW c \in Commands, ReceiveReliable(c)
    PROVE  WaitingDataIsCounted'
<1> DEFINE id == c.channel
           ch == channels[id]
<1>1. id \in CHANNELS /\ c.length \in Nat
  BY CommandType
<1>2. TypeOK /\ TypeOK'
  BY DEF Inv
<1>3. /\ channels \in [CHANNELS -> ChannelType] /\ dispatched_commands \in Seq(QueuedCommand)
      /\ SumOfLengths(dispatched_commands) \in Nat /\ total_waiting_data \in Nat
  BY <1>2, WaitingTyped
<1>4. ch \in ChannelType
  BY <1>1, <1>3
<1>5. Waiting = SumOfLengths(dispatched_commands) + (SumOfLengths(ch.commands)
                   + OtherBacklog(channels, id))
  BY <1>1, <1>3, BacklogTake DEF Waiting
<1>6. OtherBacklog(channels, id) \in Nat /\ SumOfLengths(ch.commands) \in Nat
  BY <1>1, <1>3, BacklogTake
<1>7. total_waiting_data >= Waiting
  BY WaitingIs
<1>8. WaitingDataIsCounted' <=> total_waiting_data' >= Waiting'
  BY DEF WaitingDataIsCounted, Waiting, Backlog
<1>9. CASE DiscardReliable(c)
  <2>1. total_waiting_data' \in {total_waiting_data, total_waiting_data + c.length}
    BY <1>1, <1>3, <1>9 DEF DiscardReliable
  <2>2. DispatchIncomingReliableCommands(id, ch)
    BY <1>9 DEF DiscardReliable
  <2> HIDE DEF id, ch
  <2>3. Waiting' = SumOfLengths(dispatched_commands) + SumOfLengths(ch.commands)
                      + OtherBacklog(channels, id)
    BY <1>1, <1>2, <1>4, <2>2, HandOverMovesData
  <2>4. total_waiting_data' >= Waiting'
    BY <1>1, <1>3, <1>5, <1>6, <1>7, <2>1, <2>3, SMTT(30)
  <2> QED BY <1>8, <2>4
<1>10. CASE QueueReliable(c)
  <2>1. PICK p \in 0..Len(ch.commands) :
           DispatchIncomingReliableCommands(id, Inserted(ch, NewIncomingCommand(c), p))
    BY <1>10 DEF QueueReliable
  <2>2. total_waiting_data' = total_waiting_data + c.length
    BY <1>10 DEF QueueReliable
  <2>3. PICK e \in QueuedCommand : e = NewIncomingCommand(c)
    BY NewCommandType
  <2>4. e.length = c.length
    BY <2>3 DEF NewIncomingCommand
  <2>5. PICK s \in Seq(QueuedCommand) : s = ch.commands
    BY <1>4 DEF ChannelType
  <2>6. PICK t \in Seq(QueuedCommand) : t = InsertAt(s, p + 1, e)
    BY <2>5, InsertLemma
  <2>7. PICK now : now = Inserted(ch, e, p)
    OBVIOUS
  <2>8. now \in ChannelType /\ now.commands = t
    BY <1>4, <2>5, <2>6, <2>7 DEF ChannelType, Inserted
  <2>9. SumOfLengths(t) = SumOfLengths(s) + e.length
    BY <2>5, <2>6, LengthOfInsert
  <2>10. DispatchIncomingReliableCommands(id, now)
    BY <2>1, <2>3, <2>7
  <2> HIDE DEF id, ch
  <2>11. Waiting' = SumOfLengths(dispatched_commands) + SumOfLengths(now.commands)
                      + OtherBacklog(channels, id)
    BY <1>1, <1>2, <2>8, <2>10, HandOverMovesData
  <2>12. SumOfLengths(now.commands) = SumOfLengths(ch.commands) + c.length
    BY <2>4, <2>5, <2>8, <2>9
  <2>13. total_waiting_data' >= Waiting'
    BY <1>1, <1>3, <1>5, <1>6, <1>7, <2>2, <2>11, <2>12, SMTT(30)
  <2> QED BY <1>8, <2>13
<1>11. CASE CrashOnReliable(c)
  BY <1>11 DEF CrashOnReliable, Dies, WaitingDataIsCounted
<1> QED BY <1>9, <1>10, <1>11 DEF ReceiveReliable

\* What the application takes was counted, so that Peer::Receive subtracts it.
LEMMA WaitingDispatch ==
    ASSUME Inv, WaitingDataIsCounted, DispatchIncomingCommands
    PROVE  WaitingDataIsCounted'
<1>1. CASE UNCHANGED <<dispatched_commands, total_waiting_data>>
  BY <1>1 DEF DispatchIncomingCommands, WaitingDataIsCounted
<1>2. CASE /\ dispatched_commands # <<>>
           /\ dispatched_commands' = Tail(dispatched_commands)
           /\ total_waiting_data' = Released(Head(dispatched_commands).length)
  <2>1. TypeOK
    BY DEF Inv
  <2>2. /\ channels \in [CHANNELS -> ChannelType] /\ dispatched_commands \in Seq(QueuedCommand)
        /\ total_waiting_data \in Nat
    BY <2>1, WaitingTyped
  <2>3. PICK first \in QueuedCommand : first = Head(dispatched_commands)
    BY <1>2, <2>2, LengthOfTail
  <2>4. PICK rest \in Seq(QueuedCommand) : rest = Tail(dispatched_commands)
    BY <1>2, <2>2, LengthOfTail
  <2>5. SumOfLengths(dispatched_commands) = first.length + SumOfLengths(rest)
    BY <1>2, <2>2, <2>3, <2>4, LengthOfTail
  <2>6. first.length \in Nat /\ SumOfLengths(rest) \in Nat
    BY LengthsAreNumeric DEF QueuedCommand
  <2>7. Backlog(channels) \in Nat
    <3>1. CASE CHANNELS = {}
      BY <3>1, SumEmpty DEF Backlog, SumFunction
    <3>2. ASSUME NEW id \in CHANNELS PROVE Backlog(channels) \in Nat
      BY <2>2, BacklogTake
    <3> QED BY <3>1, <3>2
  <2>8. Waiting = first.length + SumOfLengths(rest) + Backlog(channels)
    BY <2>5 DEF Waiting
  <2>9. total_waiting_data >= Waiting
    BY WaitingIs
  <2>10. total_waiting_data' = total_waiting_data - first.length
    <3>1. total_waiting_data >= first.length
      BY <2>2, <2>6, <2>7, <2>8, <2>9
    <3> QED BY <1>2, <2>3, <3>1 DEF Released
  <2>11. Waiting' = SumOfLengths(rest) + Backlog(channels)
    BY <1>2, <2>4 DEF Waiting, Backlog, DispatchIncomingCommands
  <2>12. WaitingDataIsCounted' <=> total_waiting_data' >= Waiting'
    BY DEF WaitingDataIsCounted, Waiting, Backlog
  <2> QED BY <2>2, <2>6, <2>7, <2>8, <2>9, <2>10, <2>11, <2>12
<1> QED BY <1>1, <1>2 DEF DispatchIncomingCommands

LEMMA WaitingInit == Init => WaitingDataIsCounted
<1> SUFFICES ASSUME Init PROVE WaitingDataIsCounted
  OBVIOUS
<1> DEFINE f == [id \in CHANNELS |-> SumOfLengths(channels[id].commands)]
<1>1. DOMAIN f = CHANNELS
  OBVIOUS
<1>2. \A id \in CHANNELS : f[id] = 0
  BY LengthOfNothing DEF Init, EmptyChannel
<1>3. Backlog(channels) = SumFunctionOnSet(f, DOMAIN f)
  BY DEF Backlog, SumFunction
<1> HIDE DEF f
<1>4. Numeric(f, CHANNELS)
  BY <1>2 DEF Numeric
<1>5. SumFunctionOnSet(f, CHANNELS) = SumFunctionOnSet(f, {})
  BY <1>2, <1>4, SumOfZeros, ChannelsAssumption
<1>6. Backlog(channels) = 0
  BY <1>1, <1>3, <1>5, SumEmpty
<1>7. SumOfLengths(dispatched_commands) = 0 /\ total_waiting_data = 0
  BY LengthOfNothing DEF Init
<1> QED BY <1>6, <1>7, WaitingIs DEF Waiting

LEMMA WaitingNext ==
    ASSUME OneLap, OnlyReliable, Inv, Inv', WaitingDataIsCounted, [Next]_vars
    PROVE  WaitingDataIsCounted'
<1>1. ASSUME NEW c \in Commands, ReceiveReliable(c) PROVE WaitingDataIsCounted'
  BY <1>1, WaitingReliable
<1>2. ASSUME NEW c \in Commands PROVE ~ReceiveFragment(c)
  BY DEF OnlyReliable, ReceiveFragment
<1>3. CASE DispatchIncomingCommands
  BY <1>3, WaitingDispatch
<1>4. SendAcknowledgements \/ DisconnectLater \/ UNCHANGED vars =>
         UNCHANGED <<channels, dispatched_commands, total_waiting_data>>
  BY DEF SendAcknowledgements, DisconnectLater, vars, peerVars, history
<1>5. CASE UNCHANGED <<channels, dispatched_commands, total_waiting_data>>
  BY <1>5 DEF WaitingDataIsCounted
<1> QED BY <1>1, <1>2, <1>3, <1>4, <1>5 DEF Next

\* While messages are of one command each, total_waiting_data_ covers what
\* waits in the channels and in the deque, however commands were reordered
\* and repeated: Peer::Receive never finds less counted than it takes.  A
\* fragment is not counted by HandleSendFragment, and is left out here.
THEOREM WaitingDataStaysCounted ==
    ASSUME OneLap, OnlyReliable
    PROVE  Spec => []WaitingDataIsCounted
<1>1. Init => Inv /\ WaitingDataIsCounted
  BY InitKeeps, WaitingInit
<1>2. Inv /\ WaitingDataIsCounted /\ [Next]_vars => Inv' /\ WaitingDataIsCounted'
  BY NextKeeps, WaitingNext
<1> QED BY <1>1, <1>2, PTL DEF Spec
=============================================================================
