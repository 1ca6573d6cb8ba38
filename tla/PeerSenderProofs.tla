-------------------------- MODULE PeerSenderProofs --------------------------
(***************************************************************************)
(* The sending half of a peer, for any channels, window geometry, limits   *)
(* and messages, and whatever is lost, late or given up.                   *)
(***************************************************************************)
EXTENDS PeerSender, Induction

-----------------------------------------------------------------------------
(* Types, as records and functions.                                        *)

Numbered == CHANNELS \cup {NO_CHANNEL}

Pod == [numbers : [Numbered -> Nat], outgoing : Seq(Command), sent : Seq(Command),
        attempted : SUBSET Command, windows : [CHANNELS -> [Windows -> Nat]],
        used : [CHANNELS -> SUBSET Windows], transit : 0..(DATA_MODULUS - 1)]

Typed ==
    /\ state \in {"CONNECTED", "DISCONNECT_LATER", "DISCONNECTING", "DISCONNECTED"}
    /\ pod \in Pod
    /\ gave_up \in BOOLEAN
    /\ under_way \in [DOMAIN under_way -> Nat] /\ DOMAIN under_way \subseteq Command
    /\ acknowledged \subseteq Command
    /\ messages \in [CHANNELS -> 0..MAX_MESSAGES]
    /\ losses \in 0..MAX_LOSSES

-----------------------------------------------------------------------------
(* What holds of a pod, whatever is done with it.                          *)

SentIsAttempted(p) == ToSet(p.sent) \subseteq p.attempted

\* What has been sent is numbered before what has not.
AttemptedFirst(p) ==
    \A c \in p.attempted : \A d \in ToSet(p.outgoing) \ p.attempted :
        c.channel = d.channel => c.serial < d.serial

\* What has not been sent waits in the order of its numbers.
WaitsInOrder(p) ==
    \A i, j \in DOMAIN p.outgoing :
        /\ i < j /\ p.outgoing[i].channel = p.outgoing[j].channel
        /\ p.outgoing[i] \notin p.attempted /\ p.outgoing[j] \notin p.attempted
        => p.outgoing[i].serial < p.outgoing[j].serial

Orderly(p) == SentIsAttempted(p) /\ AttemptedFirst(p) /\ WaitsInOrder(p)

\* No number is beyond the last one that was given out.
WithinNumbers(p) ==
    \A c \in p.attempted \cup ToSet(p.outgoing) : c.serial <= p.numbers[c.channel]

\* What is under way was sent, until a disconnect makes the pod forget that.
UnderWayIsAttempted == Open => DOMAIN under_way \subseteq pod.attempted

Inv ==
    /\ Typed
    /\ Orderly(pod)
    /\ state # "DISCONNECTED" => WithinNumbers(pod)
    /\ UnderWayIsAttempted

-----------------------------------------------------------------------------
LEMMA SeqToSet ==
    ASSUME NEW S, NEW s \in Seq(S), NEW t \in Seq(S)
    PROVE  /\ ToSet(s) = {s[i] : i \in 1..Len(s)} /\ ToSet(s) \subseteq S
           /\ ToSet(s \o t) = ToSet(s) \cup ToSet(t)
           /\ \A e \in S : ToSet(Append(s, e)) = ToSet(s) \cup {e}
<1>1. ToSet(s) = {s[i] : i \in 1..Len(s)} /\ ToSet(s) \subseteq S
  BY DEF ToSet
<1>2. ToSet(s \o t) = ToSet(s) \cup ToSet(t)
  <2>1. ASSUME NEW e \in ToSet(s \o t) PROVE e \in ToSet(s) \cup ToSet(t)
    <3>1. PICK i \in 1..(Len(s) + Len(t)) : (s \o t)[i] = e
      BY DEF ToSet
    <3>2. CASE i <= Len(s)
      BY <3>1, <3>2 DEF ToSet
    <3>3. CASE i > Len(s)
      BY <3>1, <3>3 DEF ToSet
    <3> QED BY <3>1, <3>2, <3>3
  <2>2. ASSUME NEW i \in DOMAIN s PROVE s[i] \in ToSet(s \o t)
    <3>1. (s \o t)[i] = s[i] /\ i \in 1..Len(s \o t)
      OBVIOUS
    <3> QED BY <3>1 DEF ToSet
  <2>3. ASSUME NEW i \in DOMAIN t PROVE t[i] \in ToSet(s \o t)
    <3>1. (s \o t)[Len(s) + i] = t[i] /\ Len(s) + i \in 1..Len(s \o t)
      OBVIOUS
    <3> QED BY <3>1 DEF ToSet
  <2>4. ToSet(s) \subseteq ToSet(s \o t) /\ ToSet(t) \subseteq ToSet(s \o t)
    BY <2>2, <2>3 DEF ToSet
  <2> QED BY <2>1, <2>4
<1>3. ASSUME NEW e \in S PROVE ToSet(Append(s, e)) = ToSet(s) \cup {e}
  <2>1. /\ Len(Append(s, e)) = Len(s) + 1 /\ Append(s, e)[Len(s) + 1] = e
        /\ \A i \in 1..Len(s) : Append(s, e)[i] = s[i]
    OBVIOUS
  <2>2. DOMAIN Append(s, e) = 1..(Len(s) + 1) /\ DOMAIN s = 1..Len(s)
    OBVIOUS
  <2> QED BY <2>1, <2>2 DEF ToSet
<1> QED BY <1>1, <1>2, <1>3

LEMMA WindowsLemma ==
    /\ PEER_RELIABLE_WINDOWS \in Nat /\ PEER_RELIABLE_WINDOWS > 0
    /\ PEER_RELIABLE_WINDOW_SIZE \in Nat /\ PEER_RELIABLE_WINDOW_SIZE > 0
    /\ SEQUENCE_NUMBERS \in Nat /\ SEQUENCE_NUMBERS > 0
    /\ \A n \in Nat : /\ n % SEQUENCE_NUMBERS \in 0..(SEQUENCE_NUMBERS - 1)
                      /\ Window(n % SEQUENCE_NUMBERS) \in Windows
<1>1. /\ PEER_RELIABLE_WINDOWS \in Nat /\ PEER_RELIABLE_WINDOWS > 0
      /\ PEER_RELIABLE_WINDOW_SIZE \in Nat /\ PEER_RELIABLE_WINDOW_SIZE > 0
  BY WindowAssumption
<1>2. SEQUENCE_NUMBERS \in Nat /\ SEQUENCE_NUMBERS > 0
  BY <1>1 DEF SEQUENCE_NUMBERS
<1>3. ASSUME NEW n \in Nat
      PROVE  n % SEQUENCE_NUMBERS \in 0..(SEQUENCE_NUMBERS - 1)
  BY <1>2
<1>4. ASSUME NEW n \in 0..(SEQUENCE_NUMBERS - 1) PROVE Window(n) \in Windows
  <2> DEFINE z == PEER_RELIABLE_WINDOW_SIZE
             d == n \div z
  <2>1. d \in Int /\ z * d <= n /\ n < z * (d + 1)
    BY <1>1, <1>2
  <2>2. d >= 0
    BY <1>1, <2>1
  <2>3. d < PEER_RELIABLE_WINDOWS
    BY <1>1, <2>1, <2>2 DEF SEQUENCE_NUMBERS
  <2>4. d \in 0..(PEER_RELIABLE_WINDOWS - 1)
    <3> HIDE DEF d
    <3> QED BY <1>1, <2>1, <2>2, <2>3
  <2> QED BY <2>4 DEF Window, Windows
<1> QED BY <1>1, <1>2, <1>3, <1>4

LEMMA TransitLemma ==
    /\ DATA_MODULUS \in Nat /\ DATA_MODULUS > 0
    /\ \A t \in 0..(DATA_MODULUS - 1), length \in Nat :
          /\ Plus(t, length) \in 0..(DATA_MODULUS - 1)
          /\ Minus(t, length) \in 0..(DATA_MODULUS - 1)
<1>1. DATA_MODULUS \in Nat /\ DATA_MODULUS > 0
  BY PodAssumption
<1>2. \A a \in Int : a % DATA_MODULUS \in 0..(DATA_MODULUS - 1)
  BY <1>1
<1> QED BY <1>1, <1>2 DEF Plus, Minus

LEMMA CommandLemma ==
    ASSUME NEW c \in Command
    PROVE  /\ c.channel \in Numbered /\ c.serial \in Nat /\ c.length \in Nat
           /\ HasChannel(c) => c.channel \in CHANNELS
           /\ Rsn(c) \in 0..(SEQUENCE_NUMBERS - 1) /\ Window(Rsn(c)) \in Windows
<1>1. c.channel \in Numbered /\ c.serial \in Nat /\ c.length \in Nat
  BY DEF Command, Numbered
<1>2. HasChannel(c) => c.channel \in CHANNELS
  BY <1>1 DEF HasChannel, Numbered
<1>3. Rsn(c) \in 0..(SEQUENCE_NUMBERS - 1) /\ Window(Rsn(c)) \in Windows
  BY <1>1, WindowsLemma DEF Rsn
<1> QED BY <1>1, <1>2, <1>3

\* The fields of a pod but for those of the windows and the data under way.
SameLists(p, q) ==
    /\ q.numbers = p.numbers /\ q.outgoing = p.outgoing /\ q.sent = p.sent
    /\ q.attempted = p.attempted

LEMMA PodFields ==
    ASSUME NEW p \in Pod
    PROVE  /\ p.numbers \in [Numbered -> Nat] /\ p.outgoing \in Seq(Command)
           /\ p.sent \in Seq(Command) /\ p.attempted \subseteq Command
           /\ p.windows \in [CHANNELS -> [Windows -> Nat]]
           /\ p.used \in [CHANNELS -> SUBSET Windows] /\ p.transit \in 0..(DATA_MODULUS - 1)
  BY DEF Pod

LEMMA WindowsUpdate ==
    ASSUME NEW p \in Pod, NEW W \in [CHANNELS -> [Windows -> Nat]],
           NEW U \in [CHANNELS -> SUBSET Windows], NEW q, q = [p EXCEPT !.windows = W, !.used = U]
    PROVE  /\ q \in Pod /\ SameLists(p, q)
           /\ q.windows = W /\ q.used = U /\ q.transit = p.transit
  BY DEF Pod, SameLists

LEMMA SentUpdate ==
    ASSUME NEW p \in Pod, NEW A \in SUBSET Command, NEW s \in Seq(Command),
           NEW t \in 0..(DATA_MODULUS - 1),
           NEW q, q = [p EXCEPT !.attempted = A, !.transit = t, !.sent = s]
    PROVE  /\ q \in Pod /\ q.numbers = p.numbers /\ q.outgoing = p.outgoing
           /\ q.attempted = A /\ q.transit = t /\ q.sent = s
           /\ q.windows = p.windows /\ q.used = p.used
  BY DEF Pod

LEMMA OutgoingUpdate ==
    ASSUME NEW p \in Pod, NEW n \in [Numbered -> Nat], NEW s \in Seq(Command),
           NEW t \in 0..(DATA_MODULUS - 1),
           NEW q, q = [p EXCEPT !.numbers = n, !.outgoing = s, !.transit = t]
    PROVE  /\ q \in Pod /\ q.numbers = n /\ q.outgoing = s /\ q.transit = t
           /\ q.sent = p.sent /\ q.attempted = p.attempted
           /\ q.windows = p.windows /\ q.used = p.used
  BY DEF Pod

LEMMA CountEffect ==
    ASSUME NEW p \in Pod, NEW c \in Command
    PROVE  CountInWindow(p, c) \in Pod /\ SameLists(p, CountInWindow(p, c))
<1> DEFINE w == Window(Rsn(c))
           q == [p EXCEPT !.windows[c.channel][w] = @ + 1, !.used[c.channel] = @ \cup {w}]
<1>1. CASE HasChannel(c) /\ c \notin p.attempted
  <2>1. CountInWindow(p, c) = q
    BY <1>1 DEF CountInWindow
  <2>2. c.channel \in CHANNELS /\ w \in Windows
    BY <1>1, CommandLemma
  <2>3. q \in Pod /\ SameLists(p, q)
    <3> HIDE DEF w
    <3> DEFINE n == p.windows[c.channel][w] + 1
               u == p.used[c.channel] \cup {w}
               W == [p.windows EXCEPT ![c.channel] = [@ EXCEPT ![w] = n]]
               U == [p.used EXCEPT ![c.channel] = u]
    <3>0. n \in Nat /\ u \in SUBSET Windows
      BY <2>2, PodFields
    <3>3. q = [p EXCEPT !.windows = W, !.used = U]
      OBVIOUS
    <3> HIDE DEF n, u
    <3>1. W \in [CHANNELS -> [Windows -> Nat]]
      BY <2>2, <3>0, PodFields
    <3>2. U \in [CHANNELS -> SUBSET Windows]
      BY <2>2, <3>0, PodFields
    <3> HIDE DEF W, U, q
    <3> QED BY ZenonT(30), <3>1, <3>2, <3>3, WindowsUpdate
  <2> QED BY <2>1, <2>3
<1>2. CASE ~(HasChannel(c) /\ c \notin p.attempted)
  BY <1>2 DEF CountInWindow, SameLists
<1> QED BY <1>1, <1>2

LEMMA UncountEffect ==
    ASSUME NEW p \in Pod, NEW c \in Command
    PROVE  UncountInWindow(p, c) \in Pod /\ SameLists(p, UncountInWindow(p, c))
<1> DEFINE w     == Window(Rsn(c))
           count == p.windows[c.channel][w]
           q     == [p EXCEPT
                        !.windows[c.channel][w] = count - 1,
                        !.used[c.channel] = IF count = 1 THEN @ \ {w} ELSE @]
<1>1. CASE HasChannel(c) /\ count > 0
  <2>1. UncountInWindow(p, c) = q
    BY <1>1 DEF UncountInWindow
  <2>2. c.channel \in CHANNELS /\ w \in Windows
    BY <1>1, CommandLemma
  <2>3. q \in Pod /\ SameLists(p, q)
    <3>1. count \in Nat /\ count > 0
      BY <1>1, <2>2 DEF Pod
    <3> HIDE DEF w, count
    <3> DEFINE W == [p.windows EXCEPT ![c.channel] = [@ EXCEPT ![w] = count - 1]]
               U == [p.used EXCEPT ![c.channel] = IF count = 1 THEN @ \ {w} ELSE @]
    <3>2. W \in [CHANNELS -> [Windows -> Nat]]
      BY <2>2, <3>1, PodFields
    <3>3. U \in [CHANNELS -> SUBSET Windows]
      BY <2>2, PodFields
    <3>4. q = [p EXCEPT !.windows = W, !.used = U]
      OBVIOUS
    <3> HIDE DEF W, U, q
    <3> QED BY ZenonT(30), <3>2, <3>3, <3>4, WindowsUpdate
  <2> QED BY <2>1, <2>3
<1>2. CASE ~(HasChannel(c) /\ count > 0)
  BY <1>2 DEF UncountInWindow, SameLists
<1> QED BY <1>1, <1>2

LEMMA PutEffect ==
    ASSUME NEW p \in Pod, NEW c \in Command
    PROVE  LET q == PutOnWire(p, c)
           IN  /\ q \in Pod /\ q.numbers = p.numbers /\ q.outgoing = p.outgoing
               /\ q.sent = Append(p.sent, c) /\ q.attempted = p.attempted \cup {c}
<1>1. PICK r \in Pod : r = CountInWindow(p, c) /\ SameLists(p, r)
  BY CountEffect
<1>2. c.length \in Nat /\ Plus(r.transit, c.length) \in 0..(DATA_MODULUS - 1)
  BY <1>1, CommandLemma, TransitLemma DEF Pod
<1>3. PutOnWire(p, c) = [r EXCEPT !.attempted = @ \cup {c},
                                  !.transit   = Plus(@, c.length),
                                  !.sent      = Append(@, c)]
  BY <1>1 DEF PutOnWire
<1>4. r.attempted \cup {c} \in SUBSET Command /\ Append(r.sent, c) \in Seq(Command)
  BY <1>1, PodFields
<1>5. PutOnWire(p, c) =
         [r EXCEPT !.attempted = r.attempted \cup {c}, !.transit = Plus(r.transit, c.length),
                   !.sent = Append(r.sent, c)]
  BY <1>3
<1> DEFINE A == r.attempted \cup {c}
           s == Append(r.sent, c)
           t == Plus(r.transit, c.length)
<1> DEFINE q == [r EXCEPT !.attempted = A, !.transit = t, !.sent = s]
<1>6. /\ q \in Pod /\ q.numbers = r.numbers /\ q.outgoing = r.outgoing
      /\ q.attempted = A /\ q.sent = s
  <2>1. A \in SUBSET Command /\ s \in Seq(Command) /\ t \in 0..(DATA_MODULUS - 1)
    BY <1>2, <1>4
  <2>2. q = [r EXCEPT !.attempted = A, !.transit = t, !.sent = s]
    OBVIOUS
  <2> HIDE DEF A, s, t, q
  <2>3. q \in Pod
    BY <2>1, <2>2, SentUpdate
  <2>4. q.numbers = r.numbers /\ q.outgoing = r.outgoing
    BY <2>2
  <2>5. q.attempted = A /\ q.sent = s
    BY <2>2 DEF Pod
  <2> QED BY <2>3, <2>4, <2>5
<1>7. /\ r.numbers = p.numbers /\ r.outgoing = p.outgoing /\ A = p.attempted \cup {c}
      /\ s = Append(p.sent, c)
  BY <1>1 DEF SameLists
<1> QED BY <1>5, <1>6, <1>7

LEMMA RemoveAtLemma ==
    ASSUME NEW S, NEW s \in Seq(S), NEW k \in DOMAIN s
    PROVE  /\ RemoveAt(s, k) \in Seq(S) /\ ToSet(RemoveAt(s, k)) \subseteq ToSet(s)
           /\ ToSet(s) \subseteq ToSet(RemoveAt(s, k)) \cup {s[k]}
           /\ Len(RemoveAt(s, k)) = Len(s) - 1
           /\ \A i \in 1..(Len(s) - 1) :
                 RemoveAt(s, k)[i] = IF i < k THEN s[i] ELSE s[i + 1]
<1> DEFINE a == SubSeq(s, 1, k - 1)
           b == SubSeq(s, k + 1, Len(s))
<1>1. k \in 1..Len(s) /\ RemoveAt(s, k) = a \o b
  BY DEF RemoveAt
<1>2. /\ a \in Seq(S) /\ Len(a) = k - 1 /\ \A i \in 1..(k - 1) : a[i] = s[i]
      /\ b \in Seq(S) /\ Len(b) = Len(s) - k /\ \A i \in 1..(Len(s) - k) : b[i] = s[k + i]
  <2>1. a \in Seq(S) /\ Len(a) = k - 1 /\ \A i \in 1..(k - 1) : a[i] = s[i]
    BY <1>1
  <2>2. b \in Seq(S) /\ Len(b) = Len(s) - k
    BY <1>1
  <2>3. ASSUME NEW i \in 1..(Len(s) - k) PROVE b[i] = s[k + i]
    <3> k \in 1..Len(s)
      BY <1>1
    <3> QED OBVIOUS
  <2> QED BY <2>1, <2>2, <2>3
<1> HIDE DEF a, b
<1>3. /\ a \o b \in Seq(S) /\ Len(a \o b) = Len(s) - 1
      /\ \A i \in 1..(Len(s) - 1) : (a \o b)[i] = IF i < k THEN s[i] ELSE s[i + 1]
  BY <1>1, <1>2, SMTT(30)
<1>4. ToSet(a \o b) \subseteq ToSet(s)
  <2>1. ASSUME NEW i \in DOMAIN (a \o b) PROVE (a \o b)[i] \in ToSet(s)
    <3>1. i \in 1..(Len(s) - 1)
      BY <1>3
    <3>2. i \in DOMAIN s /\ i + 1 \in DOMAIN s
      BY <3>1
    <3> QED BY <1>3, <3>1, <3>2 DEF ToSet
  <2> QED BY <2>1 DEF ToSet
<1>5. ASSUME NEW i \in DOMAIN s, i # k PROVE s[i] \in ToSet(a \o b)
  <2>1. CASE i < k
    <3>1. i \in 1..(Len(s) - 1)
      BY <1>1, <2>1
    <3>2. i \in DOMAIN (a \o b)
      BY <1>3, <3>1
    <3>3. (a \o b)[i] = s[i]
      BY <1>3, <2>1, <3>1
    <3> QED BY <3>2, <3>3 DEF ToSet
  <2>2. CASE i > k
    <3>1. i - 1 \in 1..(Len(s) - 1) /\ ~(i - 1 < k) /\ (i - 1) + 1 = i
      BY <1>1, <2>2
    <3>2. i - 1 \in DOMAIN (a \o b)
      BY <1>3, <3>1
    <3>3. (a \o b)[i - 1] = s[i]
      BY <1>3, <3>1
    <3> QED BY <3>2, <3>3 DEF ToSet
  <2> QED BY <1>5, <2>1, <2>2
<1>6. ToSet(s) \subseteq ToSet(a \o b) \cup {s[k]}
  BY <1>5 DEF ToSet
<1> QED BY <1>1, <1>3, <1>4, <1>6

LEMMA RemoveEffect ==
    ASSUME NEW p \in Pod, NEW k \in DOMAIN p.sent
    PROVE  LET q == RemoveSentReliableCommand(p, k)
           IN  /\ q \in Pod /\ q.numbers = p.numbers /\ q.outgoing = p.outgoing
               /\ q.attempted = p.attempted /\ q.sent = RemoveAt(p.sent, k)
<1>1. PICK c \in Command : c = p.sent[k]
  BY DEF Pod
<1>2. PICK r \in Pod : r = UncountInWindow(p, c) /\ SameLists(p, r)
  BY UncountEffect
<1>3. c.length \in Nat /\ Minus(r.transit, c.length) \in 0..(DATA_MODULUS - 1)
  BY <1>1, <1>2, CommandLemma, TransitLemma DEF Pod
<1>4. RemoveAt(p.sent, k) \in Seq(Command)
  BY RemoveAtLemma DEF Pod
<1>5. RemoveSentReliableCommand(p, k) =
         [r EXCEPT !.transit = Minus(@, c.length), !.sent = RemoveAt(@, k)]
  BY <1>1, <1>2 DEF RemoveSentReliableCommand
<1>6. RemoveSentReliableCommand(p, k) =
         [r EXCEPT !.attempted = r.attempted, !.transit = Minus(r.transit, c.length),
                   !.sent = RemoveAt(p.sent, k)]
  BY <1>2, <1>5 DEF Pod, SameLists
<1>7. r.attempted \in SUBSET Command
  BY <1>2, PodFields
<1> DEFINE A == r.attempted
           s == RemoveAt(p.sent, k)
           t == Minus(r.transit, c.length)
<1> DEFINE q == [r EXCEPT !.attempted = A, !.transit = t, !.sent = s]
<1>8. /\ q \in Pod /\ q.numbers = r.numbers /\ q.outgoing = r.outgoing
      /\ q.attempted = A /\ q.sent = s
  <2>1. A \in SUBSET Command /\ s \in Seq(Command) /\ t \in 0..(DATA_MODULUS - 1)
    BY <1>3, <1>4, <1>7
  <2>2. q = [r EXCEPT !.attempted = A, !.transit = t, !.sent = s]
    OBVIOUS
  <2> HIDE DEF A, s, t, q
  <2>3. q \in Pod
    BY <2>1, <2>2, SentUpdate, ZenonT(30)
  <2>4. q.numbers = r.numbers /\ q.outgoing = r.outgoing
    BY <2>2
  <2>5. q.attempted = A /\ q.sent = s
    BY <2>2 DEF Pod
  <2> QED BY <2>3, <2>4, <2>5
<1> QED BY <1>2, <1>6, <1>8 DEF SameLists

-----------------------------------------------------------------------------
(* The walk over the outgoing list.                                        *)

WalkRecord == [pod : Pod, left : Seq(Command), room : Int, limit : Int,
               wrap : BOOLEAN, exceeded : BOOLEAN, full : BOOLEAN]

\* No later command of the channel is loaded, or of the peer itself.
Held(walk, c) == walk.full \/ (HasChannel(c) /\ (walk.wrap \/ walk.exceeded))

LEMMA LoadOneEffect ==
    ASSUME NEW walk \in WalkRecord, NEW c \in Command
    PROVE  LET next == LoadOne(walk, c)
           IN  /\ next \in WalkRecord
               /\ \A d \in Command : Held(walk, d) => Held(next, d)
               /\ next.pod.numbers = walk.pod.numbers
               /\ \/ /\ next.pod = walk.pod /\ next.left = Append(walk.left, c)
                     /\ Held(next, c)
                  \/ /\ next.left = walk.left /\ ~Held(walk, c)
                     /\ next.pod.sent = Append(walk.pod.sent, c)
                     /\ next.pod.attempted = walk.pod.attempted \cup {c}
<1> DEFINE skipped == [walk EXCEPT !.left = Append(@, c)]
           wraps   == HasChannel(c) /\ (walk.wrap \/ WindowWraps(walk.pod, c))
           exceeds == /\ HasPayload(c)
                      /\ walk.exceeded \/ WindowExceeds(walk.pod, walk.limit, c)
           next    == LoadOne(walk, c)
<1>0. /\ walk.pod \in Pod /\ walk.left \in Seq(Command) /\ walk.room \in Int
      /\ {walk.wrap, walk.exceeded, walk.full} \subseteq BOOLEAN
  BY DEF WalkRecord
<1>1. Append(walk.left, c) \in Seq(Command)
  BY <1>0
<1>2. CASE walk.full
  <2>1. next = [walk EXCEPT !.left = Append(@, c)]
    BY <1>2 DEF LoadOne
  <2> HIDE DEF next
  <2>2. next \in WalkRecord
    BY <1>1, <2>1 DEF WalkRecord
  <2>3. /\ next.pod = walk.pod /\ next.left = Append(walk.left, c) /\ next.full
        /\ next.wrap = walk.wrap /\ next.exceeded = walk.exceeded
    BY <1>2, <2>1 DEF WalkRecord
  <2>4. Held(next, c) /\ \A d \in Command : Held(walk, d) => Held(next, d)
    BY <2>3 DEF Held
  <2>5. next.pod.numbers = walk.pod.numbers
    BY <2>3
  <2> QED BY <2>2, <2>3, <2>4, <2>5 DEF next
<1>3. CASE ~walk.full /\ wraps
  <2>1. next = [walk EXCEPT !.left = Append(@, c), !.wrap = TRUE]
    BY <1>3 DEF LoadOne
  <2> QED BY <1>1, <1>3, <2>1 DEF WalkRecord, Held
<1>4. CASE ~walk.full /\ ~wraps /\ exceeds
  <2>1. next = [walk EXCEPT !.left = Append(@, c), !.exceeded = TRUE]
    BY <1>4 DEF LoadOne
  <2> QED BY <1>1, <1>4, <2>1 DEF WalkRecord, Held, HasPayload
<1>5. CASE ~walk.full /\ ~wraps /\ ~exceeds /\ walk.room = 0
  <2>1. next = [walk EXCEPT !.left = Append(@, c), !.full = TRUE]
    BY <1>5 DEF LoadOne
  <2> HIDE DEF next
  <2>2. next \in WalkRecord
    BY <1>1, <2>1 DEF WalkRecord
  <2>3. /\ next.pod = walk.pod /\ next.left = Append(walk.left, c) /\ next.full
        /\ next.wrap = walk.wrap /\ next.exceeded = walk.exceeded
    BY <1>5, <2>1 DEF WalkRecord
  <2>4. Held(next, c) /\ \A d \in Command : Held(walk, d) => Held(next, d)
    BY <2>3 DEF Held
  <2>5. next.pod.numbers = walk.pod.numbers
    BY <2>3
  <2> QED BY <2>2, <2>3, <2>4, <2>5 DEF next
<1>6. CASE ~walk.full /\ ~wraps /\ ~exceeds /\ walk.room # 0
  <2>1. next = [walk EXCEPT !.pod = PutOnWire(@, c), !.room = @ - 1]
    BY <1>6 DEF LoadOne
  <2>2. PICK q \in Pod : /\ q = PutOnWire(walk.pod, c) /\ q.numbers = walk.pod.numbers
                         /\ q.sent = Append(walk.pod.sent, c)
                         /\ q.attempted = walk.pod.attempted \cup {c}
    BY <1>0, PutEffect
  <2>3. next = [walk EXCEPT !.pod = q, !.room = @ - 1]
    BY <2>1, <2>2
  <2> HIDE DEF next
  <2>7. walk.room - 1 \in Int
    BY <1>0
  <2>4. next \in WalkRecord /\ next.pod = q /\ next.left = walk.left
    <3> DEFINE room == walk.room - 1
    <3>1. next = [walk EXCEPT !.pod = q, !.room = room]
      BY <2>3
    <3> HIDE DEF room
    <3>2. room \in Int
      BY <2>7 DEF room
    <3>3. next \in WalkRecord
      BY <3>1, <3>2 DEF WalkRecord
    <3>4. next.pod = q /\ next.left = walk.left
      BY <3>1 DEF WalkRecord
    <3> QED BY <3>3, <3>4
  <2>5. \A d \in Command : Held(walk, d) => Held(next, d)
    BY <2>3 DEF WalkRecord, Held
  <2>6. ~Held(walk, c)
    BY <1>6 DEF Held, HasPayload
  <2> QED BY <2>2, <2>4, <2>5, <2>6 DEF next
<1> QED BY <1>2, <1>3, <1>4, <1>5, <1>6

\* What a walk has made of the pod after i commands of its outgoing list.
WalkInv(p, walk, i) ==
    /\ walk \in WalkRecord
    /\ walk.pod.numbers = p.numbers
    /\ p.attempted \subseteq walk.pod.attempted
    /\ SentIsAttempted(walk.pod)
    /\ ToSet(walk.left) \cup ToSet(walk.pod.sent) =
          ToSet(p.sent) \cup {p.outgoing[k] : k \in 1..i}
    /\ \A c \in walk.pod.attempted \ p.attempted : \E k \in 1..i : c = p.outgoing[k]
    /\ \A a \in DOMAIN walk.left : \E k \in 1..i : walk.left[a] = p.outgoing[k]
    /\ \A a, b \in DOMAIN walk.left : a < b =>
          \E k, l \in 1..i : /\ k < l
                             /\ walk.left[a] = p.outgoing[k] /\ walk.left[b] = p.outgoing[l]
    /\ \A a \in DOMAIN walk.left : Held(walk, walk.left[a])
    /\ \A c \in walk.pod.attempted \ p.attempted : \A a \in DOMAIN walk.left :
          c.channel = walk.left[a].channel =>
             \E k, l \in 1..i : k < l /\ c = p.outgoing[k] /\ walk.left[a] = p.outgoing[l]

LEMMA WalkStart ==
    ASSUME NEW p \in Pod, SentIsAttempted(p), NEW limit \in Int, NEW room \in Int
    PROVE  WalkInv(p, Start(p, limit, room), 0)
<1> DEFINE walk == Start(p, limit, room)
<1>1. /\ walk \in WalkRecord /\ walk.pod = p /\ walk.left = <<>>
  BY DEF Start, WalkRecord
<1> HIDE DEF walk
<1>2. ToSet(walk.left) = {} /\ DOMAIN walk.left = {} /\ {p.outgoing[k] : k \in 1..0} = {}
  BY <1>1 DEF ToSet
<1>3. WalkInv(p, walk, 0)
  BY <1>1, <1>2 DEF WalkInv
<1> QED BY <1>3 DEF walk

LEMMA WalkStep ==
    ASSUME NEW p \in Pod, NEW i \in Nat, i + 1 <= Len(p.outgoing),
           NEW walk, WalkInv(p, walk, i)
    PROVE  WalkInv(p, LoadOne(walk, p.outgoing[i + 1]), i + 1)
<1>1. PICK c \in Command : c = p.outgoing[i + 1]
  BY PodFields
<1>2. walk \in WalkRecord
  BY DEF WalkInv
<1>3. PICK next \in WalkRecord :
         /\ next = LoadOne(walk, c)
         /\ \A d \in Command : Held(walk, d) => Held(next, d)
         /\ next.pod.numbers = walk.pod.numbers
         /\ \/ /\ next.pod = walk.pod /\ next.left = Append(walk.left, c)
               /\ Held(next, c)
            \/ /\ next.left = walk.left /\ ~Held(walk, c)
               /\ next.pod.sent = Append(walk.pod.sent, c)
               /\ next.pod.attempted = walk.pod.attempted \cup {c}
  BY <1>2, LoadOneEffect
<1>4. /\ walk.left \in Seq(Command) /\ walk.pod.sent \in Seq(Command)
      /\ walk.pod.attempted \subseteq Command
  BY <1>2 DEF WalkRecord, Pod
<1>5. \A a \in DOMAIN walk.left : walk.left[a] \in Command
  BY <1>4
<1>6. i + 1 \in 1..(i + 1) /\ 1..i \subseteq 1..(i + 1) /\ \A k \in 1..i : k < i + 1
  OBVIOUS
<1>7. {p.outgoing[k] : k \in 1..(i + 1)} = {p.outgoing[k] : k \in 1..i} \cup {c}
  BY <1>1
<1>8. CASE /\ next.pod = walk.pod /\ next.left = Append(walk.left, c) /\ Held(next, c)
  <2>1. /\ Len(next.left) = Len(walk.left) + 1 /\ next.left[Len(walk.left) + 1] = c
        /\ \A a \in 1..Len(walk.left) : next.left[a] = walk.left[a]
    BY <1>4, <1>8
  <2>2. ToSet(next.left) = ToSet(walk.left) \cup {c}
    BY <1>4, <1>8, SeqToSet
  <2>3. ToSet(next.left) \cup ToSet(next.pod.sent) =
          ToSet(p.sent) \cup {p.outgoing[k] : k \in 1..(i + 1)}
    BY <1>7, <1>8, <2>2 DEF WalkInv
  <2>4. \A d \in next.pod.attempted \ p.attempted : \E k \in 1..(i + 1) : d = p.outgoing[k]
    BY <1>6, <1>8 DEF WalkInv
  <2>5. DOMAIN next.left = 1..(Len(walk.left) + 1) /\ DOMAIN walk.left = 1..Len(walk.left)
    BY <1>4, <1>8
  <2>6. \A a \in DOMAIN next.left : \/ a \in DOMAIN walk.left /\ next.left[a] = walk.left[a]
                                    \/ a = Len(walk.left) + 1 /\ next.left[a] = c
    BY <2>1, <2>5
  <2>7. \A a \in DOMAIN next.left : \E k \in 1..(i + 1) : next.left[a] = p.outgoing[k]
    BY <1>1, <1>6, <2>6 DEF WalkInv
  <2>8. ASSUME NEW a \in DOMAIN next.left, NEW b \in DOMAIN next.left, a < b
        PROVE  \E k, l \in 1..(i + 1) : /\ k < l /\ next.left[a] = p.outgoing[k]
                                        /\ next.left[b] = p.outgoing[l]
    <3>1. a \in DOMAIN walk.left /\ next.left[a] = walk.left[a]
      BY <2>1, <2>5, <2>8
    <3>2. CASE b \in DOMAIN walk.left
      <4>1. next.left[b] = walk.left[b]
        BY <2>1, <2>5, <3>2
      <4> QED BY <1>6, <2>8, <3>1, <3>2, <4>1 DEF WalkInv
    <3>3. CASE b = Len(walk.left) + 1
      <4>1. next.left[b] = p.outgoing[i + 1]
        BY <1>1, <2>1, <3>3
      <4>2. PICK k \in 1..i : walk.left[a] = p.outgoing[k]
        BY <3>1 DEF WalkInv
      <4> QED BY <1>6, <3>1, <4>1, <4>2
    <3> QED BY <2>5, <3>2, <3>3
  <2>9. \A a \in DOMAIN next.left : Held(next, next.left[a])
    <3> SUFFICES ASSUME NEW a \in DOMAIN next.left PROVE Held(next, next.left[a])
      OBVIOUS
    <3>1. CASE a \in DOMAIN walk.left /\ next.left[a] = walk.left[a]
      BY <1>3, <1>5, <3>1 DEF WalkInv
    <3> QED BY <1>8, <2>6, <3>1
  <2>10. ASSUME NEW d \in next.pod.attempted \ p.attempted, NEW a \in DOMAIN next.left,
                d.channel = next.left[a].channel
         PROVE  \E k, l \in 1..(i + 1) : /\ k < l /\ d = p.outgoing[k]
                                         /\ next.left[a] = p.outgoing[l]
    <3>1. d \in walk.pod.attempted \ p.attempted
      BY <1>8
    <3>2. CASE a \in DOMAIN walk.left /\ next.left[a] = walk.left[a]
      BY <1>6, <2>10, <3>1, <3>2 DEF WalkInv
    <3>3. CASE next.left[a] = c
      <4>1. PICK k \in 1..i : d = p.outgoing[k]
        BY <3>1 DEF WalkInv
      <4> QED BY <1>1, <1>6, <3>3, <4>1
    <3> QED BY <2>6, <3>2, <3>3
  <2>11. /\ next.pod.numbers = p.numbers /\ p.attempted \subseteq next.pod.attempted
         /\ SentIsAttempted(next.pod)
    BY <1>8 DEF WalkInv
  <2>12. WalkInv(p, next, i + 1)
    BY <2>3, <2>4, <2>7, <2>8, <2>9, <2>10, <2>11 DEF WalkInv
  <2> QED BY <1>1, <1>3, <2>12
<1>9. CASE /\ next.left = walk.left /\ ~Held(walk, c)
           /\ next.pod.sent = Append(walk.pod.sent, c)
           /\ next.pod.attempted = walk.pod.attempted \cup {c}
  <2>1. ToSet(next.pod.sent) = ToSet(walk.pod.sent) \cup {c}
    BY <1>4, <1>9, SeqToSet
  <2>2. ToSet(next.left) \cup ToSet(next.pod.sent) =
          ToSet(p.sent) \cup {p.outgoing[k] : k \in 1..(i + 1)}
    BY <1>7, <1>9, <2>1 DEF WalkInv
  <2>3. \A d \in next.pod.attempted \ p.attempted : \E k \in 1..(i + 1) : d = p.outgoing[k]
    BY <1>1, <1>6, <1>9 DEF WalkInv
  <2>4. \A a \in DOMAIN next.left : \E k \in 1..(i + 1) : next.left[a] = p.outgoing[k]
    BY <1>6, <1>9 DEF WalkInv
  <2>5. \A a, b \in DOMAIN next.left : a < b =>
           \E k, l \in 1..(i + 1) : /\ k < l /\ next.left[a] = p.outgoing[k]
                                    /\ next.left[b] = p.outgoing[l]
    BY <1>6, <1>9 DEF WalkInv
  <2>6. \A a \in DOMAIN next.left : Held(next, next.left[a])
    BY <1>3, <1>5, <1>9 DEF WalkInv
  <2>7. ASSUME NEW d \in next.pod.attempted \ p.attempted, NEW a \in DOMAIN next.left,
               d.channel = next.left[a].channel
        PROVE  \E k, l \in 1..(i + 1) : /\ k < l /\ d = p.outgoing[k]
                                        /\ next.left[a] = p.outgoing[l]
    <3>1. Held(walk, walk.left[a])
      BY <1>9 DEF WalkInv
    <3>2. d # c
      BY <1>9, <2>7, <3>1 DEF Held, HasChannel
    <3>3. d \in walk.pod.attempted \ p.attempted
      BY <1>9, <3>2
    <3> QED BY <1>6, <1>9, <2>7, <3>3 DEF WalkInv
  <2>8. /\ next.pod.numbers = p.numbers /\ p.attempted \subseteq next.pod.attempted
        /\ SentIsAttempted(next.pod)
    BY <1>3, <1>9, <2>1 DEF WalkInv, SentIsAttempted
  <2>9. WalkInv(p, next, i + 1)
    BY <2>2, <2>3, <2>4, <2>5, <2>6, <2>7, <2>8 DEF WalkInv
  <2> QED BY <1>1, <1>3, <2>9
<1> QED BY <1>3, <1>8, <1>9

LEMMA WalksExist ==
    ASSUME NEW p \in Pod, NEW limits, NEW rooms
    PROVE  \E f : f = [i \in 0..Len(p.outgoing) |->
                          IF i = 0 THEN Starts(p, limits, rooms)
                          ELSE LoadNext(f[i - 1], p.outgoing[i])]
<1> DEFINE Is(f, n) ==
               f = [i \in 0..n |-> IF i = 0 THEN Starts(p, limits, rooms)
                                   ELSE LoadNext(f[i - 1], p.outgoing[i])]
           Good == {n \in Nat : \E f : Is(f, n)}
<1>1. 0 \in Good
  <2>1. Is([i \in 0..0 |-> Starts(p, limits, rooms)], 0)
    OBVIOUS
  <2> HIDE DEF Is
  <2> QED BY <2>1
<1>2. ASSUME NEW n \in Good PROVE n + 1 \in Good
  <2>1. PICK f : Is(f, n)
    OBVIOUS
  <2> DEFINE more == LoadNext(f[n], p.outgoing[n + 1])
             g == [i \in 0..(n + 1) |-> IF i = n + 1 THEN more ELSE f[i]]
  <2>2. ASSUME NEW i \in 0..(n + 1)
        PROVE  g[i] = IF i = 0 THEN Starts(p, limits, rooms)
                      ELSE LoadNext(g[i - 1], p.outgoing[i])
    <3>1. CASE i = n + 1
      <4>1. g[i] = more /\ g[i - 1] = f[n] /\ i # 0
        BY <3>1
      <4> QED BY <3>1, <4>1
    <3>2. CASE i \in 0..n
      <4>1. g[i] = f[i]
        BY <3>2
      <4>2. i # 0 => g[i - 1] = f[i - 1]
        BY <3>2
      <4>3. f[i] = IF i = 0 THEN Starts(p, limits, rooms)
                   ELSE LoadNext(f[i - 1], p.outgoing[i])
        BY <2>1, <3>2
      <4> HIDE DEF g, Is, Good
      <4> QED BY <4>1, <4>2, <4>3
    <3> QED BY <3>1, <3>2
  <2>3. Is(g, n + 1)
    <3> DEFINE h == [i \in 0..(n + 1) |->
                        IF i = 0 THEN Starts(p, limits, rooms)
                        ELSE LoadNext(g[i - 1], p.outgoing[i])]
    <3>1. DOMAIN g = 0..(n + 1) /\ g = [i \in 0..(n + 1) |-> g[i]]
      OBVIOUS
    <3> HIDE DEF g, Good
    <3>2. g = h
      BY <2>2, <3>1
    <3> QED BY <3>2
  <2> HIDE DEF Is, g
  <2> QED BY <2>3
<1>3. Nat \subseteq Good
  <2> HIDE DEF Good
  <2> QED BY <1>1, <1>2, NatSetInduction
<1>4. Len(p.outgoing) \in Nat
  BY PodFields
<1> QED BY <1>3, <1>4

LEMMA WalksLemma ==
    ASSUME NEW p \in Pod, NEW limits, NEW rooms
    PROVE  LET f == Walks(p, limits, rooms)
           IN  f = [i \in 0..Len(p.outgoing) |->
                       IF i = 0 THEN Starts(p, limits, rooms)
                       ELSE LoadNext(f[i - 1], p.outgoing[i])]
  BY WalksExist DEF Walks

LEMMA WalksKeep ==
    ASSUME NEW p \in Pod, SentIsAttempted(p), NEW limits \in SUBSET Int, NEW rooms \in SUBSET Int,
           NEW walk \in Walks(p, limits, rooms)[Len(p.outgoing)]
    PROVE  WalkInv(p, walk, Len(p.outgoing))
<1>1. PICK f : /\ f = [i \in 0..Len(p.outgoing) |->
                          IF i = 0 THEN Starts(p, limits, rooms)
                          ELSE LoadNext(f[i - 1], p.outgoing[i])]
               /\ f = Walks(p, limits, rooms)
  BY WalksLemma
<1> DEFINE Good == {n \in Nat : n <= Len(p.outgoing) => \A w \in f[n] : WalkInv(p, w, n)}
<1>2. Len(p.outgoing) \in Nat
  BY PodFields
<1>3. 0 \in Good
  <2>1. 0 \in 0..Len(p.outgoing)
    BY <1>2
  <2>3. f[0] = Starts(p, limits, rooms)
    BY <1>1, <2>1
  <2>2. \A w \in Starts(p, limits, rooms) : WalkInv(p, w, 0)
    BY WalkStart DEF Starts
  <2> QED BY <2>2, <2>3
<1>4. ASSUME NEW n \in Good PROVE n + 1 \in Good
  <2> SUFFICES ASSUME n + 1 <= Len(p.outgoing), NEW v \in f[n + 1] PROVE WalkInv(p, v, n + 1)
    OBVIOUS
  <2>1. n \in Nat /\ n <= Len(p.outgoing) /\ n + 1 \in 0..Len(p.outgoing) /\ (n + 1) - 1 = n
    BY <1>2
  <2>2. f[n + 1] = LoadNext(f[n], p.outgoing[n + 1])
    <3> DEFINE m == n + 1
    <3>1. m \in 0..Len(p.outgoing) /\ m # 0 /\ m - 1 = n
      BY <2>1
    <3> HIDE DEF m
    <3>2. f[m] = LoadNext(f[m - 1], p.outgoing[m])
      BY <1>1, <3>1
    <3> QED BY <3>1, <3>2 DEF m
  <2>3. PICK w \in f[n] : v = LoadOne(w, p.outgoing[n + 1])
    BY <2>2 DEF LoadNext
  <2>4. WalkInv(p, w, n)
    BY <2>1
  <2> QED BY <2>1, <2>3, <2>4, WalkStep
<1>5. Nat \subseteq Good
  <2> HIDE DEF Good
  <2> QED BY <1>3, <1>4, NatSetInduction
<1>6. Len(p.outgoing) \in Good
  <2> HIDE DEF Good
  <2> QED BY <1>2, <1>5
<1>7. walk \in f[Len(p.outgoing)]
  BY <1>1
<1> QED BY <1>6, <1>7

\* What loading does to a pod.
LEMMA LoadEffect ==
    ASSUME NEW p \in Pod, Orderly(p), NEW limits \in SUBSET Int, NEW rooms \in SUBSET Int,
           NEW q \in LoadReliableCommands(p, limits, rooms)
    PROVE  /\ q \in Pod /\ Orderly(q) /\ q.numbers = p.numbers
           /\ p.attempted \subseteq q.attempted
           /\ ToSet(q.outgoing) \cup ToSet(q.sent) = ToSet(p.outgoing) \cup ToSet(p.sent)
           /\ WithinNumbers(p) => WithinNumbers(q)
<1> DEFINE n == Len(p.outgoing)
<1>1. PICK walk \in Walks(p, limits, rooms)[n] : q = [walk.pod EXCEPT !.outgoing = walk.left]
  BY DEF LoadReliableCommands
<1>2. WalkInv(p, walk, n)
  BY WalksKeep DEF Orderly
<1>3. walk.pod \in Pod /\ walk.left \in Seq(Command)
  BY <1>2 DEF WalkInv, WalkRecord
<1>4. PICK r \in Pod : r = walk.pod
  BY <1>3
<1>5. q = [r EXCEPT !.outgoing = walk.left]
  BY <1>1, <1>4
<1>6. /\ q \in Pod /\ q.numbers = r.numbers /\ q.outgoing = walk.left /\ q.sent = r.sent
      /\ q.attempted = r.attempted
  BY <1>3, <1>5 DEF Pod
<1>7. q.numbers = p.numbers
  BY <1>2, <1>4, <1>6 DEF WalkInv
<1>8. /\ p.outgoing \in Seq(Command) /\ n \in Nat /\ DOMAIN p.outgoing = 1..n
      /\ ToSet(p.outgoing) = {p.outgoing[k] : k \in 1..n}
      /\ \A k \in 1..n : p.outgoing[k] \in ToSet(p.outgoing) /\ p.outgoing[k] \in Command
  BY PodFields DEF ToSet
<1>9. /\ ToSet(q.outgoing) \cup ToSet(q.sent) = ToSet(p.outgoing) \cup ToSet(p.sent)
      /\ p.attempted \subseteq q.attempted
  BY <1>2, <1>4, <1>6, <1>8 DEF WalkInv
<1>10. SentIsAttempted(q)
  BY <1>2, <1>4, <1>6 DEF WalkInv, SentIsAttempted
<1>11. AttemptedFirst(q)
  <2> SUFFICES ASSUME NEW c \in q.attempted, NEW d \in ToSet(q.outgoing) \ q.attempted,
                      c.channel = d.channel
               PROVE  c.serial < d.serial
    BY DEF AttemptedFirst
  <2>1. PICK a \in DOMAIN walk.left : d = walk.left[a]
    BY <1>6 DEF ToSet
  <2>2. d \notin p.attempted
    BY <1>2, <1>4, <1>6 DEF WalkInv
  <2>3. CASE c \in p.attempted
    <3>1. d \in ToSet(p.outgoing)
      BY <1>2, <1>8, <2>1 DEF WalkInv
    <3> QED BY <2>2, <2>3, <3>1 DEF Orderly, AttemptedFirst
  <2>4. CASE c \notin p.attempted
    <3>1. PICK k \in 1..n, l \in 1..n : k < l /\ c = p.outgoing[k] /\ d = p.outgoing[l]
      BY <1>2, <1>4, <1>6, <2>1, <2>4 DEF WalkInv
    <3> QED BY <1>8, <2>2, <2>4, <3>1 DEF Orderly, WaitsInOrder
  <2> QED BY <2>3, <2>4
<1>12. WaitsInOrder(q)
  <2> SUFFICES ASSUME NEW a \in DOMAIN q.outgoing, NEW b \in DOMAIN q.outgoing, a < b,
                      q.outgoing[a].channel = q.outgoing[b].channel,
                      q.outgoing[a] \notin q.attempted, q.outgoing[b] \notin q.attempted
               PROVE  q.outgoing[a].serial < q.outgoing[b].serial
    BY DEF WaitsInOrder
  <2>1. PICK k \in 1..n, l \in 1..n : /\ k < l /\ q.outgoing[a] = p.outgoing[k]
                                      /\ q.outgoing[b] = p.outgoing[l]
    BY <1>2, <1>6 DEF WalkInv
  <2>2. q.outgoing[a] \notin p.attempted /\ q.outgoing[b] \notin p.attempted
    BY <1>2, <1>4, <1>6 DEF WalkInv
  <2> QED BY <1>8, <2>1, <2>2 DEF Orderly, WaitsInOrder
<1>13. ASSUME WithinNumbers(p) PROVE WithinNumbers(q)
  <2>1. q.attempted \subseteq p.attempted \cup ToSet(p.outgoing)
    BY <1>2, <1>4, <1>6, <1>8 DEF WalkInv
  <2>2. ToSet(q.outgoing) \subseteq ToSet(p.outgoing)
    BY <1>2, <1>6, <1>8 DEF WalkInv, ToSet
  <2> QED BY <1>7, <1>13, <2>1, <2>2 DEF WithinNumbers
<1> QED BY <1>6, <1>7, <1>9, <1>10, <1>11, <1>12, <1>13 DEF Orderly

-----------------------------------------------------------------------------
(* Timeouts.                                                               *)

\* What a pod is when some of its sent commands are queued once more.
Requeued(p, q) ==
    /\ q \in Pod /\ Orderly(q)
    /\ q.numbers = p.numbers /\ q.sent = p.sent /\ q.attempted = p.attempted
    /\ q.windows = p.windows /\ q.used = p.used
    /\ ToSet(p.outgoing) \subseteq ToSet(q.outgoing)
    /\ ToSet(q.outgoing) \subseteq ToSet(p.outgoing) \cup ToSet(p.sent)

LEMMA PrependLemma ==
    ASSUME NEW S, NEW c \in S, NEW s \in Seq(S)
    PROVE  /\ <<c>> \o s \in Seq(S) /\ Len(<<c>> \o s) = Len(s) + 1
           /\ (<<c>> \o s)[1] = c
           /\ \A i \in 1..Len(s) : (<<c>> \o s)[i + 1] = s[i]
           /\ ToSet(<<c>> \o s) = ToSet(s) \cup {c}
<1>1. /\ <<c>> \in Seq(S) /\ Len(<<c>>) = 1 /\ <<c>>[1] = c
  OBVIOUS
<1>2. DOMAIN <<c>> = 1..1
  OBVIOUS
<1>3. ToSet(<<c>>) = {c}
  BY <1>1, <1>2 DEF ToSet
<1>4. \A a, b \in Seq(S) : ToSet(a \o b) = ToSet(a) \cup ToSet(b)
  BY SeqToSet
<1> DEFINE one == <<c>>
<1> HIDE DEF one
<1>6. one \in Seq(S) /\ ToSet(one) = {c}
  BY <1>1, <1>3 DEF one
<1>7. ToSet(one \o s) = {c} \cup ToSet(s)
  BY <1>4, <1>6
<1>5. ToSet(<<c>> \o s) = ToSet(s) \cup {c}
  BY <1>7 DEF one
<1> QED BY <1>1, <1>5

LEMMA ExpireEffect ==
    ASSUME NEW p \in Pod, Orderly(p), NEW q, Requeued(p, q), NEW c \in ToSet(p.sent)
    PROVE  Requeued(p, Expire(q, c))
<1>1. q \in Pod /\ c \in Command /\ c \in q.attempted
  <2>1. ToSet(p.sent) \subseteq Command
    BY PodFields, SeqToSet
  <2> QED BY <2>1 DEF Requeued, Orderly, SentIsAttempted
<1>2. PICK o \in Seq(Command) : o = q.outgoing
  BY <1>1, PodFields
<1> DEFINE s == <<c>> \o o
           t == Minus(q.transit, c.length)
           r == Expire(q, c)
<1>3. t \in 0..(DATA_MODULUS - 1)
  BY <1>1, CommandLemma, PodFields, TransitLemma
<1>4. s \in Seq(Command) /\ ToSet(s) = ToSet(o) \cup {c}
  BY <1>1, PrependLemma
<1>5. r = [q EXCEPT !.outgoing = s, !.transit = t]
  BY <1>2 DEF Expire
<1>6. /\ r \in Pod /\ r.numbers = q.numbers /\ r.sent = q.sent /\ r.attempted = q.attempted
      /\ r.windows = q.windows /\ r.used = q.used /\ r.outgoing = s
  <2> HIDE DEF s, t, r
  <2> QED BY <1>1, <1>3, <1>4, <1>5 DEF Pod
<1> HIDE DEF r, t
<1>7. SentIsAttempted(r) /\ AttemptedFirst(r)
  BY <1>1, <1>2, <1>4, <1>6 DEF Requeued, Orderly, SentIsAttempted, AttemptedFirst
<1>8. WaitsInOrder(r)
  <2> SUFFICES ASSUME NEW i \in DOMAIN s, NEW j \in DOMAIN s, i < j, s[i].channel = s[j].channel,
                      s[i] \notin q.attempted, s[j] \notin q.attempted
               PROVE  s[i].serial < s[j].serial
    BY <1>6 DEF WaitsInOrder
  <2>1. DOMAIN s = 1..(Len(o) + 1) /\ Len(o) \in Nat
    BY <1>1, PrependLemma
  <2>2. i # 1
    BY <1>1, PrependLemma
  <2>3. i - 1 \in DOMAIN o /\ j - 1 \in DOMAIN o /\ i - 1 < j - 1
    BY <2>1, <2>2
  <2>4. s[(i - 1) + 1] = o[i - 1] /\ s[(j - 1) + 1] = o[j - 1]
    BY <1>1, <2>1, <2>3, PrependLemma
  <2>5. (i - 1) + 1 = i /\ (j - 1) + 1 = j
    BY <2>1
  <2>6. WaitsInOrder(q)
    BY DEF Requeued, Orderly
  <2> HIDE DEF s
  <2> QED BY <1>2, <2>3, <2>4, <2>5, <2>6 DEF WaitsInOrder
<1>9. /\ ToSet(p.outgoing) \subseteq ToSet(r.outgoing)
      /\ ToSet(r.outgoing) \subseteq ToSet(p.outgoing) \cup ToSet(p.sent)
  BY <1>2, <1>4, <1>6 DEF Requeued
<1> QED BY <1>6, <1>7, <1>8, <1>9 DEF Requeued, Orderly, r

LEMMA ExpirationsExist ==
    ASSUME NEW p \in Pod, NEW expired
    PROVE  \E f : f = [i \in 0..Len(p.sent) |->
                          IF i = 0 THEN p
                          ELSE IF i \in expired THEN Expire(f[i - 1], p.sent[i])
                          ELSE f[i - 1]]
<1> DEFINE Is(f, n) == f = [i \in 0..n |-> IF i = 0 THEN p
                                           ELSE IF i \in expired THEN Expire(f[i - 1], p.sent[i])
                                           ELSE f[i - 1]]
           Good == {n \in Nat : \E f : Is(f, n)}
<1>1. 0 \in Good
  <2>1. Is([i \in 0..0 |-> p], 0)
    OBVIOUS
  <2> HIDE DEF Is
  <2> QED BY <2>1
<1>2. ASSUME NEW n \in Good PROVE n + 1 \in Good
  <2>1. PICK f : Is(f, n)
    OBVIOUS
  <2> DEFINE more == IF n + 1 \in expired THEN Expire(f[n], p.sent[n + 1]) ELSE f[n]
             g == [i \in 0..(n + 1) |-> IF i = n + 1 THEN more ELSE f[i]]
  <2>2. ASSUME NEW i \in 0..(n + 1)
        PROVE  g[i] = IF i = 0 THEN p
                      ELSE IF i \in expired THEN Expire(g[i - 1], p.sent[i])
                      ELSE g[i - 1]
    <3>1. CASE i = n + 1
      <4>1. g[i] = more /\ g[i - 1] = f[n] /\ i # 0
        BY <3>1
      <4> QED BY <3>1, <4>1
    <3>2. CASE i \in 0..n
      <4>1. g[i] = f[i]
        BY <3>2
      <4>2. i # 0 => g[i - 1] = f[i - 1]
        BY <3>2
      <4>3. f[i] = IF i = 0 THEN p
                   ELSE IF i \in expired THEN Expire(f[i - 1], p.sent[i])
                   ELSE f[i - 1]
        BY <2>1, <3>2
      <4> HIDE DEF g, Is, Good
      <4> QED BY <4>1, <4>2, <4>3
    <3> QED BY <3>1, <3>2
  <2>3. Is(g, n + 1)
    <3> DEFINE h == [i \in 0..(n + 1) |->
                        IF i = 0 THEN p
                        ELSE IF i \in expired THEN Expire(g[i - 1], p.sent[i])
                        ELSE g[i - 1]]
    <3>1. DOMAIN g = 0..(n + 1) /\ g = [i \in 0..(n + 1) |-> g[i]]
      OBVIOUS
    <3> HIDE DEF g, Good
    <3>2. g = h
      BY <2>2, <3>1
    <3> QED BY <3>2
  <2> HIDE DEF Is, g
  <2> QED BY <2>3
<1>3. Nat \subseteq Good
  <2> HIDE DEF Good
  <2> QED BY <1>1, <1>2, NatSetInduction
<1>4. Len(p.sent) \in Nat
  BY PodFields
<1> QED BY <1>3, <1>4

LEMMA ExpirationsLemma ==
    ASSUME NEW p \in Pod, NEW expired
    PROVE  LET f == Expirations(p, expired)
           IN  f = [i \in 0..Len(p.sent) |->
                       IF i = 0 THEN p
                       ELSE IF i \in expired THEN Expire(f[i - 1], p.sent[i])
                       ELSE f[i - 1]]
  BY ExpirationsExist, SMTT(30) DEF Expirations

LEMMA TimeoutEffect ==
    ASSUME NEW p \in Pod, Orderly(p), NEW expired
    PROVE  Requeued(p, Timeout(p, expired))
<1>1. PICK f : /\ f = [i \in 0..Len(p.sent) |->
                          IF i = 0 THEN p
                          ELSE IF i \in expired THEN Expire(f[i - 1], p.sent[i])
                          ELSE f[i - 1]]
               /\ f = Expirations(p, expired)
  BY ExpirationsLemma
<1> DEFINE Good == {n \in Nat : n <= Len(p.sent) => Requeued(p, f[n])}
<1>2. Len(p.sent) \in Nat /\ DOMAIN p.sent = 1..Len(p.sent)
  BY PodFields
<1>3. 0 \in Good
  <2>1. 0 \in 0..Len(p.sent)
    BY <1>2
  <2>2. f[0] = p
    BY <1>1, <2>1
  <2> QED BY <2>2 DEF Requeued
<1>4. ASSUME NEW n \in Good PROVE n + 1 \in Good
  <2> SUFFICES ASSUME n + 1 <= Len(p.sent) PROVE Requeued(p, f[n + 1])
    OBVIOUS
  <2> DEFINE m == n + 1
  <2>1. m \in 0..Len(p.sent) /\ m # 0 /\ m - 1 = n /\ m \in DOMAIN p.sent /\ n <= Len(p.sent)
    BY <1>2
  <2>2. Requeued(p, f[n])
    BY <2>1
  <2> HIDE DEF m
  <2>3. f[m] = IF m \in expired THEN Expire(f[m - 1], p.sent[m]) ELSE f[m - 1]
    BY <1>1, <2>1
  <2>4. p.sent[m] \in ToSet(p.sent)
    BY <2>1 DEF ToSet
  <2>5. Requeued(p, f[m])
    BY <2>1, <2>2, <2>3, <2>4, ExpireEffect
  <2> QED BY <2>5 DEF m
<1>5. Nat \subseteq Good
  <2> HIDE DEF Good
  <2> QED BY <1>3, <1>4, NatSetInduction
<1>6. Len(p.sent) \in Good
  <2> HIDE DEF Good
  <2> QED BY <1>2, <1>5
<1> QED BY <1>1, <1>6 DEF Timeout

-----------------------------------------------------------------------------
(* Commands that are queued, and pods that are set back.                   *)

LEMMA FragmentsLemma ==
    ASSUME NEW p \in Pod, NEW ch \in Numbered, NEW lengths \in Seq(Nat)
    PROVE  LET f == Fragments(p, ch, lengths)
           IN  /\ f \in Seq(Command) /\ Len(f) = Len(lengths)
               /\ \A i \in 1..Len(lengths) : /\ f[i].channel = ch
                                             /\ f[i].serial = p.numbers[ch] + i
<1> DEFINE f == Fragments(p, ch, lengths)
<1>1. p.numbers[ch] \in Nat /\ Len(lengths) \in Nat
  BY PodFields
<1>2. f = [i \in 1..Len(lengths) |->
              [channel |-> ch, serial |-> p.numbers[ch] + i, length |-> lengths[i]]]
  BY DEF Fragments
<1> HIDE DEF f
<1>3. ASSUME NEW i \in 1..Len(lengths)
      PROVE  f[i] \in Command /\ f[i].channel = ch /\ f[i].serial = p.numbers[ch] + i
  <2>1. f[i] = [channel |-> ch, serial |-> p.numbers[ch] + i, length |-> lengths[i]]
    BY <1>2
  <2>2. lengths[i] \in Nat /\ p.numbers[ch] + i \in Nat
    BY <1>1
  <2> QED BY <2>1, <2>2 DEF Command, Numbered
<1>4. f \in Seq(Command) /\ Len(f) = Len(lengths)
  BY <1>1, <1>2, <1>3
<1> QED BY <1>3, <1>4 DEF f

\* What a pod is when commands f of a channel are queued behind the others.
LEMMA QueueEffect ==
    ASSUME NEW p \in Pod, Orderly(p), WithinNumbers(p), NEW ch \in Numbered,
           NEW lengths \in Seq(Nat)
    PROVE  LET q == QueueMessage(p, ch, lengths)
           IN  /\ q \in Pod /\ Orderly(q) /\ WithinNumbers(q)
               /\ q.numbers = [p.numbers EXCEPT ![ch] = @ + Len(lengths)]
               /\ q.sent = p.sent /\ q.attempted = p.attempted
               /\ q.windows = p.windows /\ q.used = p.used
               /\ q.outgoing = p.outgoing \o Fragments(p, ch, lengths)
<1>1. PICK f \in Seq(Command) :
         /\ f = Fragments(p, ch, lengths) /\ Len(f) = Len(lengths)
         /\ \A i \in 1..Len(f) : f[i].channel = ch /\ f[i].serial = p.numbers[ch] + i
  BY FragmentsLemma
<1>2. PICK o \in Seq(Command) : o = p.outgoing
  BY PodFields
<1> DEFINE n == [p.numbers EXCEPT ![ch] = @ + Len(lengths)]
           s == o \o f
           q == QueueMessage(p, ch, lengths)
<1>3. /\ p.numbers \in [Numbered -> Nat] /\ n \in [Numbered -> Nat] /\ s \in Seq(Command)
      /\ n[ch] = p.numbers[ch] + Len(f) /\ \A c \in Numbered : p.numbers[c] <= n[c]
  BY <1>1, PodFields
<1>4. q = [p EXCEPT !.numbers = n, !.outgoing = s]
  BY <1>1, <1>2 DEF QueueMessage
<1> HIDE DEF n, q
<1>5. /\ q \in Pod /\ q.numbers = n /\ q.outgoing = s /\ q.sent = p.sent
      /\ q.attempted = p.attempted /\ q.windows = p.windows /\ q.used = p.used
  <2> HIDE DEF s
  <2> QED BY <1>3, <1>4 DEF Pod
<1>6. ToSet(s) = ToSet(o) \cup ToSet(f)
  BY SeqToSet
<1>7. \A c \in ToSet(f) : /\ c.channel = ch /\ c.serial \in Nat
                          /\ p.numbers[ch] < c.serial /\ c.serial <= n[ch]
  <2> SUFFICES ASSUME NEW i \in DOMAIN f
               PROVE  /\ f[i].channel = ch /\ f[i].serial \in Nat
                      /\ p.numbers[ch] < f[i].serial /\ f[i].serial <= n[ch]
    BY DEF ToSet
  <2>1. i \in 1..Len(f) /\ p.numbers[ch] \in Nat
    BY PodFields
  <2> QED BY <1>1, <1>3, <2>1
<1>8. \A c \in p.attempted \cup ToSet(o) :
         /\ c.channel \in Numbered /\ c.serial \in Nat /\ p.numbers[c.channel] \in Nat
         /\ c.serial <= p.numbers[c.channel]
  <2>1. p.attempted \subseteq Command /\ ToSet(o) \subseteq Command
    BY PodFields, SeqToSet
  <2> QED BY <1>2, <1>3, <2>1, CommandLemma DEF WithinNumbers
<1>9. SentIsAttempted(q)
  BY <1>5 DEF Orderly, SentIsAttempted
<1>10. AttemptedFirst(q)
  <2> SUFFICES ASSUME NEW c \in p.attempted, NEW d \in ToSet(s) \ p.attempted,
                      c.channel = d.channel
               PROVE  c.serial < d.serial
    BY <1>5 DEF AttemptedFirst
  <2>1. CASE d \in ToSet(o)
    BY <1>2, <2>1 DEF Orderly, AttemptedFirst
  <2>2. CASE d \in ToSet(f)
    BY <1>7, <1>8, <2>2
  <2> QED BY <1>6, <2>1, <2>2
<1>11. WaitsInOrder(q)
  <2> SUFFICES ASSUME NEW i \in DOMAIN s, NEW j \in DOMAIN s, i < j,
                      s[i].channel = s[j].channel,
                      s[i] \notin p.attempted, s[j] \notin p.attempted
               PROVE  s[i].serial < s[j].serial
    BY <1>5 DEF WaitsInOrder
  <2> DEFINE l == Len(o)
  <2>1. /\ l \in Nat /\ DOMAIN s = 1..(l + Len(f)) /\ DOMAIN o = 1..l
        /\ \A k \in 1..l : s[k] = o[k]
        /\ \A k \in (l + 1)..(l + Len(f)) : s[k] = f[k - l]
    OBVIOUS
  <2>2. CASE j <= l
    <3>1. i \in DOMAIN o /\ j \in DOMAIN o /\ s[i] = o[i] /\ s[j] = o[j]
      BY <2>1, <2>2
    <3> QED BY <1>2, <3>1 DEF Orderly, WaitsInOrder
  <2>3. CASE i <= l /\ l < j
    <3>1. i \in DOMAIN o /\ s[i] = o[i]
      BY <2>1, <2>3
    <3>2. j - l \in DOMAIN f /\ s[j] = f[j - l]
      BY <2>1, <2>3
    <3>3. s[i] \in ToSet(o) /\ s[j] \in ToSet(f)
      BY <3>1, <3>2 DEF ToSet
    <3> DEFINE a == s[i]
               b == s[j]
    <3>4. /\ a.serial \in Nat /\ p.numbers[a.channel] \in Nat
          /\ a.serial <= p.numbers[a.channel]
      BY <1>8, <3>3
    <3>5. b.channel = ch /\ b.serial \in Nat /\ p.numbers[ch] < b.serial
      BY <1>7, <3>3
    <3>6. a.channel = b.channel
      OBVIOUS
    <3> HIDE DEF a, b
    <3>7. a.serial < b.serial
      BY <3>4, <3>5, <3>6
    <3> QED BY <3>7 DEF a, b
  <2>4. CASE l < i
    <3>1. /\ i - l \in 1..Len(f) /\ s[i] = f[i - l]
          /\ j - l \in 1..Len(f) /\ s[j] = f[j - l] /\ i - l < j - l
      BY <2>1, <2>4
    <3>2. p.numbers[ch] \in Nat
      BY <1>3
    <3>3. /\ s[i].serial = p.numbers[ch] + (i - l)
          /\ s[j].serial = p.numbers[ch] + (j - l)
      BY <1>1, <3>1
    <3> QED BY <3>1, <3>2, <3>3
  <2> QED BY <2>1, <2>2, <2>3, <2>4
<1>12. WithinNumbers(q)
  <2> SUFFICES ASSUME NEW c \in p.attempted \cup ToSet(s) PROVE c.serial <= n[c.channel]
    BY <1>5 DEF WithinNumbers
  <2>1. CASE c \in ToSet(f)
    BY <1>7, <2>1
  <2>2. CASE c \in p.attempted \cup ToSet(o)
    BY <1>3, <1>8, <2>2
  <2> QED BY <1>6, <2>1, <2>2
<1> QED BY <1>1, <1>2, <1>5, <1>9, <1>10, <1>11, <1>12 DEF Orderly, n, q

LEMMA SetupIsQueue ==
    ASSUME NEW p \in Pod, NEW ch \in Numbered, NEW length \in Nat
    PROVE  SetupOutgoingCommand(p, ch, length) = QueueMessage(p, ch, <<length>>)
<1> DEFINE c == [channel |-> ch, serial |-> p.numbers[ch] + 1, length |-> length]
           f == Fragments(p, ch, <<length>>)
<1>1. p.outgoing \in Seq(Command) /\ p.numbers[ch] \in Nat
  BY PodFields
<1>2. c \in Command
  BY <1>1 DEF Command, Numbered
<1>3. f = <<c>>
  <2>1. <<length>> \in Seq(Nat) /\ Len(<<length>>) = 1 /\ <<length>>[1] = length
    OBVIOUS
  <2>2. f = [i \in 1..1 |-> [channel |-> ch, serial |-> p.numbers[ch] + i,
                             length |-> <<length>>[i]]]
    BY <2>1 DEF Fragments
  <2>3. f = [i \in 1..1 |-> c]
    BY <2>1, <2>2
  <2> HIDE DEF c
  <2> QED BY <2>3
<1>4. Append(p.outgoing, c) = p.outgoing \o <<c>>
  BY <1>1, <1>2
<1>5. p.numbers[ch] + 1 = p.numbers[ch] + Len(<<length>>)
  OBVIOUS
<1> QED BY <1>3, <1>4, <1>5 DEF SetupOutgoingCommand, QueueMessage

LEMMA EmptyPodLemma == EmptyPod \in Pod /\ Orderly(EmptyPod) /\ WithinNumbers(EmptyPod)
<1>1. 0 \in 0..(DATA_MODULUS - 1) /\ <<>> \in Seq(Command)
  BY TransitLemma
<1>2. EmptyPod \in Pod
  BY <1>1 DEF EmptyPod, Pod, Numbered
<1>3. ToSet(<<>>) = {} /\ DOMAIN <<>> = {}
  BY DEF ToSet
<1>4. EmptyPod.outgoing = <<>> /\ EmptyPod.sent = <<>> /\ EmptyPod.attempted = {}
  BY DEF EmptyPod
<1> QED BY <1>2, <1>3, <1>4
        DEF Orderly, SentIsAttempted, AttemptedFirst, WaitsInOrder, WithinNumbers

LEMMA ResetEffect ==
    ASSUME NEW p \in Pod, Orderly(p)
    PROVE  LET q == Reset(p)
           IN  /\ q \in Pod /\ Orderly(q)
               /\ q.attempted = p.attempted /\ q.outgoing = p.outgoing /\ q.sent = p.sent
<1> DEFINE q == Reset(p)
<1>1. PICK e \in Pod : e = EmptyPod
  BY EmptyPodLemma
<1>2. q = [e EXCEPT !.outgoing = p.outgoing, !.sent = p.sent, !.attempted = p.attempted]
  BY <1>1 DEF Reset
<1>3. q \in Pod /\ q.attempted = p.attempted /\ q.outgoing = p.outgoing /\ q.sent = p.sent
  <2>1. PICK A \in SUBSET Command, o \in Seq(Command), s \in Seq(Command) :
           A = p.attempted /\ o = p.outgoing /\ s = p.sent
    BY PodFields
  <2>2. q = [e EXCEPT !.outgoing = o, !.sent = s, !.attempted = A]
    BY <1>2, <2>1
  <2> HIDE DEF q
  <2> QED BY <2>1, <2>2 DEF Pod
<1> HIDE DEF q
<1>4. Orderly(q)
  BY <1>3 DEF Orderly, SentIsAttempted, AttemptedFirst, WaitsInOrder
<1> QED BY <1>3, <1>4 DEF q

LEMMA DisconnectedEffect ==
    ASSUME NEW p \in Pod
    PROVE  LET q == Disconnected(p)
           IN  q \in Pod /\ Orderly(q) /\ WithinNumbers(q) /\ q.attempted = {} /\ q.sent = <<>>
<1>1. PICK e \in Pod : e = EmptyPod
  BY EmptyPodLemma
<1>2. PICK n \in [Numbered -> Nat], t \in 0..(DATA_MODULUS - 1) : n = p.numbers /\ t = p.transit
  BY PodFields
<1>3. PICK r : r = ResetPeerQueues(p)
  OBVIOUS
<1>4. r = [e EXCEPT !.numbers = n, !.transit = t]
  BY <1>1, <1>2, <1>3 DEF ResetPeerQueues
<1>5. r \in Pod /\ r.outgoing = e.outgoing /\ r.sent = e.sent /\ r.attempted = e.attempted
  BY <1>4 DEF Pod
<1>6. r.outgoing = <<>> /\ r.sent = <<>> /\ r.attempted = {}
  BY <1>1, <1>5 DEF EmptyPod
<1>7. ToSet(<<>>) = {} /\ DOMAIN <<>> = {}
  BY DEF ToSet
<1>8. Orderly(r) /\ WithinNumbers(r)
  BY <1>6, <1>7
     DEF Orderly, SentIsAttempted, AttemptedFirst, WaitsInOrder, WithinNumbers
<1>9. <<0>> \in Seq(Nat) /\ NO_CHANNEL \in Numbered
  BY DEF Numbered
<1>10. Disconnected(p) = QueueMessage(r, NO_CHANNEL, <<0>>)
  BY <1>3, <1>5, <1>9, SetupIsQueue DEF Disconnected
<1>11. PICK q : q = QueueMessage(r, NO_CHANNEL, <<0>>)
  OBVIOUS
<1>12. /\ q \in Pod /\ Orderly(q) /\ WithinNumbers(q)
       /\ q.sent = r.sent /\ q.attempted = r.attempted
  BY <1>5, <1>8, <1>9, <1>11, QueueEffect
<1> QED BY <1>6, <1>10, <1>11, <1>12

LEMMA TransmittedLemma ==
    ASSUME Typed, NEW copies \in Seq(Command)
    PROVE  LET sent == Transmitted(copies)
           IN  /\ DOMAIN sent = DOMAIN under_way \cup ToSet(copies)
               /\ DOMAIN sent \subseteq Command /\ sent \in [DOMAIN sent -> Nat]
               /\ \A c \in DOMAIN sent :
                     sent[c] = Copies(c) + Cardinality({i \in DOMAIN copies : copies[i] = c})
<1> DEFINE sent  == Transmitted(copies)
           N(c)  == Cardinality({i \in DOMAIN copies : copies[i] = c})
           D     == DOMAIN under_way \cup ToSet(copies)
<1>1. ToSet(copies) \subseteq Command
  BY SeqToSet
<1>2. D \subseteq Command
  BY <1>1 DEF Typed
<1>3. ASSUME NEW c PROVE N(c) \in Nat
  <2>1. IsFiniteSet(DOMAIN copies)
    BY FS_Interval
  <2>2. IsFiniteSet({i \in DOMAIN copies : copies[i] = c})
    BY <2>1, FS_Subset
  <2> QED BY <2>2, FS_CardinalityType
<1>4. ASSUME NEW c PROVE Copies(c) \in Nat
  BY DEF Copies, Typed
<1>5. sent = [c \in D |-> Copies(c) + N(c)]
  BY DEF Transmitted
<1> HIDE DEF sent, D, N
<1>6. DOMAIN sent = D /\ sent \in [D -> Nat] /\ \A c \in D : sent[c] = Copies(c) + N(c)
  BY <1>3, <1>4, <1>5
<1> QED BY <1>2, <1>6 DEF sent, D, N

-----------------------------------------------------------------------------
(* The steps.                                                              *)

Sound(p) == p \in Pod /\ Orderly(p) /\ WithinNumbers(p)

\* Neither a command nor the number of one is forgotten, and a channel gets no
\* new one.
Keeps(p, q) ==
    /\ p.attempted \subseteq q.attempted
    /\ \A ch \in CHANNELS : q.numbers[ch] = p.numbers[ch]
    /\ ToSet(p.outgoing) \cup ToSet(p.sent) \subseteq ToSet(q.outgoing) \cup ToSet(q.sent)
    /\ \A c \in ToSet(q.outgoing) \cup ToSet(q.sent) :
          HasChannel(c) => c \in ToSet(p.outgoing) \cup ToSet(p.sent)

LEMMA TimeoutKeeps ==
    ASSUME NEW p, Sound(p), NEW expired
    PROVE  Sound(Timeout(p, expired)) /\ Keeps(p, Timeout(p, expired))
<1>1. PICK q : q = Timeout(p, expired) /\ Requeued(p, q)
  BY TimeoutEffect DEF Sound
<1>2. WithinNumbers(q)
  <2>1. ToSet(q.outgoing) \subseteq ToSet(p.outgoing) \cup p.attempted
    BY <1>1 DEF Requeued, Sound, Orderly, SentIsAttempted
  <2> QED BY <1>1, <2>1 DEF Requeued, Sound, WithinNumbers
<1> QED BY <1>1, <1>2 DEF Requeued, Sound, Keeps

LEMMA LoadKeeps ==
    ASSUME NEW p, Sound(p), NEW limits \in SUBSET Int, NEW rooms \in SUBSET Int,
           NEW q \in LoadReliableCommands(p, limits, rooms)
    PROVE  Sound(q) /\ Keeps(p, q)
<1>1. /\ q \in Pod /\ Orderly(q) /\ q.numbers = p.numbers /\ p.attempted \subseteq q.attempted
      /\ ToSet(q.outgoing) \cup ToSet(q.sent) = ToSet(p.outgoing) \cup ToSet(p.sent)
      /\ WithinNumbers(q)
  <2>1. p \in Pod /\ Orderly(p) /\ WithinNumbers(p)
    BY DEF Sound
  <2> QED BY <2>1, LoadEffect
<1> QED BY <1>1 DEF Sound, Keeps

LEMMA PingKeeps ==
    ASSUME NEW p, Sound(p)
    PROVE  Sound(Ping(p)) /\ Keeps(p, Ping(p))
<1>1. CASE Ping(p) = p
  BY <1>1 DEF Keeps
<1>2. CASE Ping(p) = SetupOutgoingCommand(p, NO_CHANNEL, 0)
  <2>0. PICK z \in Seq(Nat) : z = <<0>>
    <3>1. <<0>> \in Seq(Nat)
      OBVIOUS
    <3> QED BY <3>1
  <2>1. NO_CHANNEL \in Numbered /\ p \in Pod /\ Orderly(p) /\ WithinNumbers(p)
    BY DEF Numbered, Sound
  <2>2. Ping(p) = QueueMessage(p, NO_CHANNEL, z)
    <3>1. SetupOutgoingCommand(p, NO_CHANNEL, 0) = QueueMessage(p, NO_CHANNEL, <<0>>)
      BY <2>1, SetupIsQueue
    <3> QED BY <1>2, <2>0, <3>1
  <2>3. PICK f \in Seq(Command) :
           /\ f = Fragments(p, NO_CHANNEL, z)
           /\ Len(f) = Len(z) /\ \A j \in 1..Len(z) : f[j].channel = NO_CHANNEL
    BY <2>1, FragmentsLemma
  <2>4. PICK q : q = QueueMessage(p, NO_CHANNEL, z)
    OBVIOUS
  <2>5. /\ q \in Pod /\ Orderly(q) /\ WithinNumbers(q)
        /\ q.numbers = [p.numbers EXCEPT ![NO_CHANNEL] = @ + Len(z)]
        /\ q.sent = p.sent /\ q.attempted = p.attempted
        /\ q.outgoing = p.outgoing \o f
    BY <2>1, <2>3, <2>4, QueueEffect
  <2>6. p.numbers \in [Numbered -> Nat] /\ p.outgoing \in Seq(Command)
    BY PodFields DEF Sound
  <2>7. \A ch \in CHANNELS : q.numbers[ch] = p.numbers[ch]
    BY <2>5, <2>6, PodAssumption DEF Numbered
  <2>8. ToSet(q.outgoing) = ToSet(p.outgoing) \cup ToSet(f)
    BY <2>3, <2>5, <2>6, SeqToSet
  <2>9. ASSUME NEW c \in ToSet(f) PROVE ~HasChannel(c)
    <3>1. PICK i \in DOMAIN f : c = f[i]
      BY <2>9 DEF ToSet
    <3>2. i \in 1..Len(z)
      BY <2>3
    <3> QED BY <2>3, <3>1, <3>2 DEF HasChannel
  <2>10. Sound(q) /\ Keeps(p, q)
    BY <2>5, <2>7, <2>8, <2>9 DEF Sound, Keeps
  <2> QED BY <2>2, <2>4, <2>10
<1> QED BY <1>1, <1>2 DEF Ping

LEMMA SubSeqLemma ==
    ASSUME NEW S, NEW s \in Seq(S), NEW n \in Nat
    PROVE  /\ SubSeq(s, n + 1, Len(s)) \in Seq(S)
           /\ ToSet(SubSeq(s, n + 1, Len(s))) \subseteq ToSet(s)
<1> DEFINE t == SubSeq(s, n + 1, Len(s))
<1>1. t \in Seq(S) /\ DOMAIN t = 1..Len(t)
  OBVIOUS
<1>2. ASSUME NEW i \in DOMAIN t PROVE t[i] \in ToSet(s)
  <2>1. t[i] = s[n + i] /\ n + i \in DOMAIN s
    OBVIOUS
  <2> QED BY <2>1 DEF ToSet
<1> QED BY <1>1, <1>2 DEF ToSet

LEMMA KeepsTransitive ==
    ASSUME NEW p, NEW q, NEW r, Keeps(p, q), Keeps(q, r)
    PROVE  Keeps(p, r)
  BY DEF Keeps

LEMMA SenderConstants ==
    /\ IN_TRANSIT_LIMITS \in SUBSET Int /\ ROOMS \in SUBSET Int
    /\ \A m \in Messages : m \in Seq(Nat)
    /\ MAX_MESSAGES \in Nat /\ MAX_LOSSES \in Nat
<1>1. DATA_MODULUS \in Nat
  BY TransitLemma
<1>2. IN_TRANSIT_LIMITS \in SUBSET Int
  BY <1>1, SenderAssumption
<1> QED BY <1>2, SenderAssumption

\* Host::Service sends what is queued.
LEMMA PollEffect ==
    ASSUME Inv, Poll
    PROVE  /\ state # "DISCONNECTED" /\ Sound(pod') /\ Keeps(pod, pod')
           /\ \E copies \in Seq(Command) : /\ ToSet(copies) \subseteq ToSet(pod'.sent)
                                           /\ under_way' = Transmitted(copies)
           /\ UNCHANGED <<state, gave_up, acknowledged, messages, losses>>
<1>1. PICK expired : SendOutgoingCommands(expired, ROOMS)
  BY DEF Poll
<1>2. PICK timed : timed = Timeout(pod, expired)
  OBVIOUS
<1>3. PICK loaded, after :
         /\ loaded \in LoadReliableCommands(timed, IN_TRANSIT_LIMITS, ROOMS)
         /\ \/ after = loaded
            \/ after \in LoadReliableCommands(Ping(loaded), IN_TRANSIT_LIMITS, ROOMS)
         /\ pod' = after
         /\ under_way' = Transmitted(Loaded(timed, after))
  BY <1>1, <1>2 DEF SendOutgoingCommands
<1>4. /\ state # "DISCONNECTED"
      /\ UNCHANGED <<state, gave_up, acknowledged, messages, losses>>
  BY <1>1 DEF SendOutgoingCommands
<1>5. Sound(pod)
  BY <1>4 DEF Inv, Typed, Sound
<1>6. Sound(timed) /\ Keeps(pod, timed)
  BY <1>2, <1>5, TimeoutKeeps
<1>7. Sound(loaded) /\ Keeps(timed, loaded)
  BY <1>3, <1>6, LoadKeeps, SenderConstants
<1>8. Sound(Ping(loaded)) /\ Keeps(loaded, Ping(loaded))
  BY <1>7, PingKeeps
<1>9. Sound(after) /\ Keeps(loaded, after)
  <2>1. CASE after = loaded
    BY <1>7, <2>1 DEF Keeps
  <2>2. CASE after \in LoadReliableCommands(Ping(loaded), IN_TRANSIT_LIMITS, ROOMS)
    <3>1. PICK pinged : pinged = Ping(loaded)
      OBVIOUS
    <3>2. Sound(after) /\ Keeps(pinged, after)
      BY <1>8, <2>2, <3>1, LoadKeeps, SenderConstants
    <3> QED BY <1>8, <3>1, <3>2, KeepsTransitive
  <2> QED BY <1>3, <2>1, <2>2
<1>10. Keeps(pod, after)
  BY <1>6, <1>7, <1>9, KeepsTransitive
<1>11. PICK before \in Seq(Command), sent \in Seq(Command) :
          before = timed.sent /\ sent = after.sent
  BY <1>6, <1>9, PodFields DEF Sound
<1>12. PICK n \in Nat : n = Len(before)
  OBVIOUS
<1>13. Loaded(timed, after) = SubSeq(sent, n + 1, Len(sent))
  BY <1>11, <1>12 DEF Loaded
<1>14. /\ Loaded(timed, after) \in Seq(Command)
       /\ ToSet(Loaded(timed, after)) \subseteq ToSet(pod'.sent)
  BY <1>3, <1>11, <1>13, SubSeqLemma
<1> QED BY <1>3, <1>4, <1>9, <1>10, <1>14

LEMMA GiveUpEffect ==
    ASSUME Inv, NEW expired, NEW p, GiveUp(expired, p)
    PROVE  /\ state # "DISCONNECTED" /\ Sound(pod') /\ Keeps(pod, pod') /\ gave_up' = TRUE
           /\ UNCHANGED <<state, under_way, acknowledged, messages, losses>>
<1>1. /\ state # "DISCONNECTED" /\ pod' = Timeout(pod, expired) /\ gave_up' = TRUE
      /\ UNCHANGED <<state, under_way, acknowledged, messages, losses>>
  BY DEF GiveUp
<1>2. Sound(pod)
  BY <1>1 DEF Inv, Typed, Sound
<1>3. Sound(pod') /\ Keeps(pod, pod')
  BY <1>1, <1>2, TimeoutKeeps
<1> QED BY <1>1, <1>3

LEMMA SendEffect ==
    ASSUME Inv, NEW ch \in CHANNELS, NEW lengths \in Messages, Send(ch, lengths)
    PROVE  /\ state = "CONNECTED" /\ Sound(pod')
           /\ pod'.numbers = [pod.numbers EXCEPT ![ch] = @ + Len(lengths)]
           /\ pod'.sent = pod.sent /\ pod'.attempted = pod.attempted
           /\ pod'.outgoing = pod.outgoing \o Fragments(pod, ch, lengths)
           /\ messages' \in [CHANNELS -> 0..MAX_MESSAGES]
           /\ UNCHANGED <<state, gave_up, under_way, acknowledged, losses>>
<1>1. /\ state = "CONNECTED" /\ messages[ch] < MAX_MESSAGES
      /\ messages' = [messages EXCEPT ![ch] = @ + 1]
      /\ UNCHANGED <<state, gave_up, under_way, acknowledged, losses>>
  BY DEF Send
<1>2. PICK p : p = pod /\ Sound(p)
  BY <1>1 DEF Inv, Typed, Sound
<1>3. PICK q : q = QueueMessage(p, ch, lengths)
  OBVIOUS
<1>4. pod' = q
  BY <1>2, <1>3 DEF Send
<1>5. ch \in Numbered /\ lengths \in Seq(Nat)
  BY SenderConstants DEF Numbered
<1>6. /\ q \in Pod /\ Orderly(q) /\ WithinNumbers(q)
      /\ q.numbers = [p.numbers EXCEPT ![ch] = @ + Len(lengths)]
      /\ q.sent = p.sent /\ q.attempted = p.attempted
      /\ q.outgoing = p.outgoing \o Fragments(p, ch, lengths)
  <2>1. p \in Pod /\ Orderly(p) /\ WithinNumbers(p)
    BY <1>2 DEF Sound
  <2> QED BY <1>3, <1>5, <2>1, QueueEffect
<1>7. messages' \in [CHANNELS -> 0..MAX_MESSAGES]
  BY <1>1, SenderConstants DEF Inv, Typed
<1> QED BY <1>1, <1>2, <1>4, <1>6, <1>7 DEF Sound

\* What an acknowledgement leaves of the peer: `removed` is the pod without
\* the command that was acknowledged.
LEMMA AfterAcknowledgeEffect ==
    ASSUME Inv, state # "DISCONNECTED", NEW removed, Sound(removed), NEW found \in BOOLEAN,
           AfterAcknowledge(removed, found)
    PROVE  /\ state' \in {"CONNECTED", "DISCONNECT_LATER", "DISCONNECTING", "DISCONNECTED"}
           /\ pod' \in Pod /\ Orderly(pod')
           /\ state' # "DISCONNECTED" => WithinNumbers(pod')
           /\ Open' => Open /\ pod' = removed
<1>1. \/ state' = "DISCONNECTING" /\ pod' = Disconnected(removed)
      \/ state' = "DISCONNECTED" /\ pod' = Reset(removed)
      \/ UNCHANGED state /\ pod' = removed
  BY DEF AfterAcknowledge
<1>2. CASE state' = "DISCONNECTING" /\ pod' = Disconnected(removed)
  <2>1. pod' \in Pod /\ Orderly(pod') /\ WithinNumbers(pod')
    BY <1>2, DisconnectedEffect DEF Sound
  <2> QED BY <1>2, <2>1 DEF Open
<1>3. CASE state' = "DISCONNECTED" /\ pod' = Reset(removed)
  <2>1. pod' \in Pod /\ Orderly(pod')
    BY <1>3, ResetEffect DEF Sound
  <2> QED BY <1>3, <2>1 DEF Open
<1>4. CASE UNCHANGED state /\ pod' = removed
  BY <1>4 DEF Open, Sound, Inv, Typed
<1> QED BY <1>1, <1>2, <1>3, <1>4

\* The pod without the command that was acknowledged.
LEMMA RemovedEffect ==
    ASSUME NEW p, Sound(p), NEW k \in DOMAIN p.sent
    PROVE  LET q == RemoveSentReliableCommand(p, k)
           IN  /\ Sound(q) /\ q.numbers = p.numbers /\ q.attempted = p.attempted
               /\ q.outgoing = p.outgoing
               /\ ToSet(q.sent) \subseteq ToSet(p.sent)
               /\ ToSet(p.sent) \subseteq ToSet(q.sent) \cup {p.sent[k]}
<1>1. PICK q : q = RemoveSentReliableCommand(p, k)
  OBVIOUS
<1>2. p \in Pod /\ Orderly(p) /\ WithinNumbers(p)
  BY DEF Sound
<1>3. /\ q \in Pod /\ q.numbers = p.numbers /\ q.outgoing = p.outgoing
      /\ q.attempted = p.attempted /\ q.sent = RemoveAt(p.sent, k)
  BY <1>1, <1>2, RemoveEffect
<1>4. /\ ToSet(q.sent) \subseteq ToSet(p.sent)
      /\ ToSet(p.sent) \subseteq ToSet(q.sent) \cup {p.sent[k]}
  BY <1>2, <1>3, RemoveAtLemma, PodFields
<1>5. Orderly(q) /\ WithinNumbers(q)
  BY <1>2, <1>3, <1>4
     DEF Orderly, SentIsAttempted, AttemptedFirst, WaitsInOrder, WithinNumbers
<1> QED BY <1>1, <1>3, <1>4, <1>5 DEF Sound

LEMMA AcknowledgeEffect ==
    ASSUME Inv, NEW c \in DOMAIN under_way, HandleAcknowledge(c)
    PROVE  /\ under_way' \in [DOMAIN under_way -> Nat]
           /\ gave_up' \in BOOLEAN /\ acknowledged' \subseteq Command
           /\ acknowledged \subseteq acknowledged'
           /\ state' \in {"CONNECTED", "DISCONNECT_LATER", "DISCONNECTING", "DISCONNECTED"}
           /\ pod' \in Pod /\ Orderly(pod')
           /\ state' # "DISCONNECTED" => WithinNumbers(pod')
           /\ UNCHANGED <<messages, losses>>
           /\ Open' => /\ Open /\ pod'.numbers = pod.numbers /\ pod'.attempted = pod.attempted
                       /\ pod'.outgoing = pod.outgoing /\ c \in acknowledged'
                       /\ \/ ToSet(pod.sent) \subseteq ToSet(pod'.sent)
                          \/ \E d \in ToSet(pod.sent) :
                                /\ d.channel = c.channel /\ Rsn(d) = Rsn(c)
                                /\ ToSet(pod.sent) \subseteq ToSet(pod'.sent) \cup {d}
<1>1. /\ Copies(c) > 0 /\ under_way' = [under_way EXCEPT ![c] = @ - 1]
      /\ UNCHANGED <<messages, losses>>
  BY DEF HandleAcknowledge
<1>2. under_way' \in [DOMAIN under_way -> Nat]
  BY <1>1 DEF Copies, Inv, Typed
<1>3. c \in Command
  BY DEF Inv, Typed
<1>4. CASE state = "DISCONNECTED"
  <2>1. UNCHANGED <<state, pod, gave_up, acknowledged>>
    BY <1>4 DEF HandleAcknowledge
  <2>2. ~ Open'
    BY <1>4, <2>1 DEF Open
  <2> QED BY <1>1, <1>2, <1>4, <2>1, <2>2 DEF Inv, Typed
<1>5. CASE state # "DISCONNECTED"
  <2>1. gave_up' = FALSE /\ acknowledged' = acknowledged \cup {c}
    BY <1>5 DEF HandleAcknowledge
  <2>2. PICK p : p = pod /\ Sound(p)
    BY <1>5 DEF Inv, Typed, Sound
  <2>3. \/ \E k \in DOMAIN p.sent :
              /\ Acknowledges(p, c.channel, Rsn(c), k)
              /\ AfterAcknowledge(RemoveSentReliableCommand(p, k), TRUE)
        \/ AfterAcknowledge(p, FALSE)
    BY <1>5, <2>2 DEF HandleAcknowledge
  <2>4. CASE AfterAcknowledge(p, FALSE)
    <3>1. /\ state' \in {"CONNECTED", "DISCONNECT_LATER", "DISCONNECTING", "DISCONNECTED"}
          /\ pod' \in Pod /\ Orderly(pod')
          /\ state' # "DISCONNECTED" => WithinNumbers(pod')
          /\ Open' => Open /\ pod' = p
      BY <1>5, <2>2, <2>4, AfterAcknowledgeEffect
    <3> QED BY <1>1, <1>2, <1>3, <2>1, <2>2, <3>1 DEF Inv, Typed
  <2>5. CASE \E k \in DOMAIN p.sent :
                /\ Acknowledges(p, c.channel, Rsn(c), k)
                /\ AfterAcknowledge(RemoveSentReliableCommand(p, k), TRUE)
    <3>1. PICK k \in DOMAIN p.sent :
             /\ Acknowledges(p, c.channel, Rsn(c), k)
             /\ AfterAcknowledge(RemoveSentReliableCommand(p, k), TRUE)
      BY <2>5
    <3>2. PICK q : /\ q = RemoveSentReliableCommand(p, k)
                   /\ Sound(q) /\ q.numbers = p.numbers /\ q.attempted = p.attempted
                   /\ q.outgoing = p.outgoing
                   /\ ToSet(p.sent) \subseteq ToSet(q.sent) \cup {p.sent[k]}
      BY <2>2, <3>1, RemovedEffect
    <3>3. AfterAcknowledge(q, TRUE)
      BY <3>1, <3>2
    <3>4. /\ state' \in {"CONNECTED", "DISCONNECT_LATER", "DISCONNECTING", "DISCONNECTED"}
          /\ pod' \in Pod /\ Orderly(pod')
          /\ state' # "DISCONNECTED" => WithinNumbers(pod')
          /\ Open' => Open /\ pod' = q
      BY <1>5, <3>2, <3>3, AfterAcknowledgeEffect
    <3>5. /\ p.sent[k] \in ToSet(p.sent) /\ p.sent[k].channel = c.channel
          /\ Rsn(p.sent[k]) = Rsn(c)
      BY <3>1 DEF Acknowledges, ToSet
    <3>6. Open' => \E d \in ToSet(pod.sent) :
                      /\ d.channel = c.channel /\ Rsn(d) = Rsn(c)
                      /\ ToSet(pod.sent) \subseteq ToSet(pod'.sent) \cup {d}
      BY <2>2, <3>2, <3>4, <3>5
    <3>7. acknowledged' \subseteq Command
      BY <1>3, <2>1 DEF Inv, Typed
    <3> QED BY <1>1, <1>2, <2>1, <2>2, <3>2, <3>4, <3>6, <3>7
  <2> QED BY <2>3, <2>4, <2>5
<1> QED BY <1>4, <1>5

LEMMA LoseEffect ==
    ASSUME Inv, NEW c \in DOMAIN under_way, Lose(c)
    PROVE  /\ under_way' \in [DOMAIN under_way -> Nat] /\ losses' \in 0..MAX_LOSSES
           /\ UNCHANGED <<state, pod, gave_up, acknowledged, messages>>
<1>1. /\ Copies(c) > 0 /\ under_way' = [under_way EXCEPT ![c] = @ - 1]
      /\ losses < MAX_LOSSES /\ losses' = losses + 1
      /\ UNCHANGED <<state, pod, gave_up, acknowledged, messages>>
  BY DEF Lose
<1>2. under_way' \in [DOMAIN under_way -> Nat]
  BY <1>1 DEF Copies, Inv, Typed
<1>3. losses' \in 0..MAX_LOSSES
  BY <1>1, SenderConstants DEF Inv, Typed
<1> QED BY <1>1, <1>2, <1>3

LEMMA DisconnectLaterEffect ==
    ASSUME Inv, DisconnectLater
    PROVE  /\ state' \in {"DISCONNECT_LATER", "DISCONNECTING"} /\ Sound(pod')
           /\ Open' => Open /\ pod' = pod
           /\ UNCHANGED <<gave_up, under_way, acknowledged, messages, losses>>
<1>1. /\ state = "CONNECTED"
      /\ \/ state' = "DISCONNECT_LATER" /\ pod' = pod
         \/ state' = "DISCONNECTING" /\ pod' = Disconnected(pod)
      /\ UNCHANGED <<gave_up, under_way, acknowledged, messages, losses>>
  BY DEF DisconnectLater
<1>2. Sound(pod)
  BY <1>1 DEF Inv, Typed, Sound
<1>3. Sound(Disconnected(pod))
  BY <1>2, DisconnectedEffect DEF Sound
<1> QED BY <1>1, <1>2, <1>3 DEF Open

-----------------------------------------------------------------------------
(* The invariant.                                                          *)

LEMMA InvInit == Init => Inv
<1> SUFFICES ASSUME Init PROVE Inv
  OBVIOUS
<1>1. Sound(pod)
  BY EmptyPodLemma DEF Init, Sound
<1>2. under_way = <<>> /\ DOMAIN under_way = {}
  BY DEF Init
<1>3. under_way \in [DOMAIN under_way -> Nat]
  BY <1>2
<1>4. messages \in [CHANNELS -> 0..MAX_MESSAGES] /\ losses \in 0..MAX_LOSSES
  BY SenderConstants DEF Init
<1>5. Typed
  BY <1>1, <1>2, <1>3, <1>4 DEF Init, Typed, Sound
<1> QED BY <1>1, <1>2, <1>5 DEF Inv, Sound, UnderWayIsAttempted

LEMMA InvNext == Inv /\ [Next]_vars => Inv'
<1> SUFFICES ASSUME Inv, [Next]_vars PROVE Inv'
  OBVIOUS
<1>1. ASSUME NEW ch \in CHANNELS, NEW lengths \in Messages, Send(ch, lengths) PROVE Inv'
  <2>1. /\ Sound(pod') /\ pod'.attempted = pod.attempted
        /\ messages' \in [CHANNELS -> 0..MAX_MESSAGES]
        /\ UNCHANGED <<state, gave_up, under_way, acknowledged, losses>>
    BY <1>1, SendEffect
  <2>2. Typed'
    BY <2>1 DEF Inv, Typed, Sound
  <2> QED BY <2>1, <2>2 DEF Inv, Sound, UnderWayIsAttempted, Open
<1>2. ASSUME Poll PROVE Inv'
  <2>1. /\ Sound(pod') /\ Keeps(pod, pod')
        /\ UNCHANGED <<state, gave_up, acknowledged, messages, losses>>
    BY <1>2, PollEffect
  <2>2. PICK copies \in Seq(Command) : /\ ToSet(copies) \subseteq ToSet(pod'.sent)
                                       /\ under_way' = Transmitted(copies)
    BY <1>2, PollEffect
  <2>3. /\ DOMAIN under_way' = DOMAIN under_way \cup ToSet(copies)
        /\ DOMAIN under_way' \subseteq Command /\ under_way' \in [DOMAIN under_way' -> Nat]
    BY <2>2, TransmittedLemma DEF Inv
  <2>4. Typed'
    BY <2>1, <2>3 DEF Inv, Typed, Sound
  <2>5. UnderWayIsAttempted'
    <3>1. ToSet(copies) \subseteq pod'.attempted
      BY <2>1, <2>2 DEF Sound, Orderly, SentIsAttempted
    <3> QED BY <2>1, <2>3, <3>1 DEF Inv, UnderWayIsAttempted, Keeps, Open
  <2> QED BY <2>1, <2>4, <2>5 DEF Inv, Sound
<1>3. ASSUME NEW expired, NEW p, GiveUp(expired, p) PROVE Inv'
  <2>1. /\ Sound(pod') /\ Keeps(pod, pod') /\ gave_up' = TRUE
        /\ UNCHANGED <<state, under_way, acknowledged, messages, losses>>
    BY <1>3, GiveUpEffect
  <2>2. Typed'
    BY <2>1 DEF Inv, Typed, Sound
  <2> QED BY <2>1, <2>2 DEF Inv, Sound, UnderWayIsAttempted, Keeps, Open
<1>4. ASSUME NEW c \in DOMAIN under_way, HandleAcknowledge(c) PROVE Inv'
  <2>1. /\ under_way' \in [DOMAIN under_way -> Nat]
        /\ gave_up' \in BOOLEAN /\ acknowledged' \subseteq Command
        /\ state' \in {"CONNECTED", "DISCONNECT_LATER", "DISCONNECTING", "DISCONNECTED"}
        /\ pod' \in Pod /\ Orderly(pod')
        /\ state' # "DISCONNECTED" => WithinNumbers(pod')
        /\ UNCHANGED <<messages, losses>>
        /\ Open' => Open /\ pod'.attempted = pod.attempted
    BY <1>4, AcknowledgeEffect
  <2>2. DOMAIN under_way' = DOMAIN under_way
    BY <2>1
  <2>3. Typed'
    BY <2>1, <2>2 DEF Inv, Typed
  <2> QED BY <2>1, <2>2, <2>3 DEF Inv, UnderWayIsAttempted
<1>5. ASSUME NEW c \in DOMAIN under_way, Lose(c) PROVE Inv'
  <2>1. /\ under_way' \in [DOMAIN under_way -> Nat] /\ losses' \in 0..MAX_LOSSES
        /\ UNCHANGED <<state, pod, gave_up, acknowledged, messages>>
    BY <1>5, LoseEffect
  <2>2. DOMAIN under_way' = DOMAIN under_way
    BY <2>1
  <2>3. Typed'
    BY <2>1, <2>2 DEF Inv, Typed
  <2>4. Orderly(pod') /\ (state' # "DISCONNECTED" => WithinNumbers(pod'))
    BY <2>1 DEF Inv
  <2> QED BY <2>1, <2>2, <2>3, <2>4 DEF Inv, UnderWayIsAttempted, Open
<1>6. ASSUME DisconnectLater PROVE Inv'
  <2>1. /\ state' \in {"DISCONNECT_LATER", "DISCONNECTING"} /\ Sound(pod')
        /\ Open' => Open /\ pod' = pod
        /\ UNCHANGED <<gave_up, under_way, acknowledged, messages, losses>>
    BY <1>6, DisconnectLaterEffect
  <2>2. Typed'
    BY <2>1 DEF Inv, Typed, Sound
  <2> QED BY <2>1, <2>2 DEF Inv, Sound, UnderWayIsAttempted
<1>7. CASE UNCHANGED vars
  <2>1. Typed' /\ UnderWayIsAttempted'
    BY <1>7 DEF Inv, Typed, UnderWayIsAttempted, Open, vars
  <2> QED BY <1>7, <2>1 DEF Inv, vars
<1> QED BY <1>1, <1>2, <1>3, <1>4, <1>5, <1>6, <1>7 DEF Next

\* Inv is an invariant of the sender.
THEOREM SenderInvariant == Spec => []Inv
<1>1. Init => Inv
  BY InvInit
<1>2. Inv /\ [Next]_vars => Inv'
  BY InvNext
<1> QED BY <1>1, <1>2, PTL DEF Spec

\* Every variable has its type, for any geometry of the windows and whatever
\* is sent, lost or late: reliable_data_in_transit_ above all, which is taken
\* down for every copy that times out, stays an unsigned number.
THEOREM SenderTypes == Spec => []TypeOK
<1>1. Inv => TypeOK
  <2> SUFFICES ASSUME Inv PROVE TypeOK
    OBVIOUS
  <2>1. /\ pod.numbers \in [CHANNELS \cup {NO_CHANNEL} -> Nat]
        /\ {pod.outgoing, pod.sent} \subseteq Seq(Command)
        /\ pod.attempted \subseteq Command
        /\ pod.windows \in [CHANNELS -> [Windows -> Nat]]
        /\ pod.used \in [CHANNELS -> SUBSET Windows]
        /\ pod.transit \in 0..(DATA_MODULUS - 1)
    BY PodFields DEF Inv, Typed, Numbered
  <2>2. \A c \in DOMAIN under_way : under_way[c] \in Nat
    BY DEF Inv, Typed
  <2> QED BY <2>1, <2>2 DEF Inv, Typed, TypeOK
<1> QED BY <1>1, SenderInvariant, PTL

\* A channel's commands go out for the first time in the order of their
\* numbers, whatever the walks over the queue skip and the timeouts put back
\* in front.
THEOREM SentInOrder == Spec => []FirstSentInOrder
<1>1. Inv => FirstSentInOrder
  <2> SUFFICES ASSUME Inv PROVE FirstSentInOrder
    OBVIOUS
  <2>1. \A i, j \in DOMAIN pod.outgoing :
           (/\ i < j /\ pod.outgoing[i].channel = pod.outgoing[j].channel
            /\ {pod.outgoing[i], pod.outgoing[j]} \cap pod.attempted = {})
           => pod.outgoing[i].serial < pod.outgoing[j].serial
    BY DEF Inv, Orderly, WaitsInOrder
  <2>2. \A c \in pod.attempted : \A d \in ToSet(pod.outgoing) \ pod.attempted :
           c.channel = d.channel => c.serial < d.serial
    BY DEF Inv, Orderly, AttemptedFirst
  <2> QED BY <2>1, <2>2 DEF FirstSentInOrder
<1> QED BY <1>1, SenderInvariant, PTL

-----------------------------------------------------------------------------
(* Nothing is forgotten.                                                   *)

\* The acknowledgement of a command that may still arrive does not bear the
\* number of another one that waits for its own: what the uint16_t numbers
\* need, and what the windows give them as long as no copy is very late.
TellApart ==
    Open => \A c \in DOMAIN under_way : \A d \in ToSet(pod.sent) :
               (Copies(c) > 0 /\ HasChannel(c) /\ c.channel = d.channel /\ Rsn(c) = Rsn(d))
                  => c.serial = d.serial

\* No channel has used up its numbers.
FirstLap == \A ch \in CHANNELS : pod.numbers[ch] < SEQUENCE_NUMBERS

LEMMA FirstLapTellsApart == Inv /\ FirstLap => TellApart
<1> SUFFICES ASSUME Inv, FirstLap, Open, NEW c \in DOMAIN under_way, NEW d \in ToSet(pod.sent),
                    HasChannel(c), c.channel = d.channel, Rsn(c) = Rsn(d)
             PROVE  c.serial = d.serial
  BY DEF TellApart
<1>1. {c, d} \subseteq pod.attempted /\ WithinNumbers(pod) /\ pod \in Pod
  BY DEF Inv, Typed, UnderWayIsAttempted, Open, Orderly, SentIsAttempted
<1>2. c \in Command /\ d \in Command
  BY <1>1, PodFields
<1>3. PICK n \in Nat : n = pod.numbers[c.channel] /\ n < SEQUENCE_NUMBERS
  BY <1>1, <1>2, CommandLemma, PodFields DEF FirstLap
<1>4. c.serial \in 0..n /\ d.serial \in 0..n
  BY <1>1, <1>2, <1>3, CommandLemma DEF WithinNumbers
<1>5. ASSUME NEW s \in Nat, s > 0, NEW k \in 0..(s - 1) PROVE k % s = k
  OBVIOUS
<1>6. SEQUENCE_NUMBERS \in Nat /\ SEQUENCE_NUMBERS > 0
  BY WindowsLemma
<1>7. c.serial \in 0..(SEQUENCE_NUMBERS - 1) /\ d.serial \in 0..(SEQUENCE_NUMBERS - 1)
  BY <1>3, <1>4, <1>6
<1>8. c.serial % SEQUENCE_NUMBERS = c.serial /\ d.serial % SEQUENCE_NUMBERS = d.serial
  BY <1>5, <1>6, <1>7
<1> QED BY <1>8 DEF Rsn

\* The commands that bear a number of a channel are among `some`.
Bears(some, ch, n) == \E c \in some : c.channel = ch /\ c.serial = n

LEMMA KeepsBears ==
    ASSUME NothingForgotten, Open,
           \A ch \in CHANNELS : pod'.numbers[ch] = pod.numbers[ch],
           \A ch \in CHANNELS, n \in Nat :
              Bears(Queued \cup acknowledged, ch, n) => Bears((Queued \cup acknowledged)', ch, n)
    PROVE  NothingForgotten'
<1> SUFFICES ASSUME NEW ch \in CHANNELS, NEW n \in 1..pod'.numbers[ch]
             PROVE  Bears((Queued \cup acknowledged)', ch, n)
  BY DEF NothingForgotten, Bears
<1>1. n \in 1..pod.numbers[ch]
  OBVIOUS
<1>2. Bears(Queued \cup acknowledged, ch, n)
  BY <1>1 DEF NothingForgotten, Bears
<1> QED BY <1>2

LEMMA NothingForgottenNext ==
    ASSUME Inv, TellApart, NothingForgotten, [Next]_vars
    PROVE  NothingForgotten'
<1> SUFFICES ASSUME Open' PROVE NothingForgotten'
  BY DEF NothingForgotten
<1>1. ASSUME NEW ch \in CHANNELS, NEW lengths \in Messages, Send(ch, lengths)
      PROVE  NothingForgotten'
  <2>1. /\ state = "CONNECTED" /\ pod \in Pod
        /\ pod'.numbers = [pod.numbers EXCEPT ![ch] = @ + Len(lengths)]
        /\ pod'.sent = pod.sent
        /\ pod'.outgoing = pod.outgoing \o Fragments(pod, ch, lengths)
        /\ acknowledged' = acknowledged
    BY <1>1, SendEffect DEF Inv, Typed
  <2>2. PICK f \in Seq(Command), k \in Nat :
           /\ f = Fragments(pod, ch, lengths) /\ Len(f) = k /\ k = Len(lengths)
           /\ \A i \in 1..k : f[i].channel = ch /\ f[i].serial = pod.numbers[ch] + i
    <3>1. ch \in Numbered /\ lengths \in Seq(Nat) /\ Len(lengths) \in Nat
      BY SenderConstants DEF Numbered
    <3>2. PICK p \in Pod : p = pod
      BY <2>1
    <3>3. PICK f : f = Fragments(p, ch, lengths)
      OBVIOUS
    <3>4. /\ f \in Seq(Command) /\ Len(f) = Len(lengths)
          /\ \A i \in 1..Len(lengths) : f[i].channel = ch /\ f[i].serial = p.numbers[ch] + i
      BY <3>1, <3>3, FragmentsLemma
    <3> QED BY <3>1, <3>2, <3>3, <3>4
  <2>3. PICK o \in Seq(Command) : o = pod.outgoing
    BY <2>1, PodFields
  <2>4. ToSet(pod'.outgoing) = ToSet(o) \cup ToSet(f)
    BY <2>1, <2>2, <2>3, SeqToSet
  <2>5. (Queued \cup acknowledged)' = Queued \cup acknowledged \cup ToSet(f)
    BY <2>1, <2>3, <2>4 DEF Queued
  <2> SUFFICES ASSUME NEW e \in CHANNELS, NEW n \in 1..pod'.numbers[e]
               PROVE  Bears((Queued \cup acknowledged)', e, n)
    BY DEF NothingForgotten, Bears
  <2>6. /\ pod.numbers \in [Numbered -> Nat] /\ e \in Numbered /\ ch \in Numbered
        /\ pod.numbers[e] \in Nat
    BY <2>1, PodFields DEF Numbered
  <2>7. CASE n <= pod.numbers[e]
    <3>1. n \in 1..pod.numbers[e]
      BY <2>6, <2>7
    <3>2. Bears(Queued \cup acknowledged, e, n)
      BY <2>1, <3>1 DEF NothingForgotten, Bears, Open
    <3> QED BY <2>5, <3>2 DEF Bears
  <2>8. CASE n > pod.numbers[e]
    <3>1. e = ch /\ n <= pod.numbers[e] + k
      BY <2>1, <2>2, <2>6, <2>8
    <3>2. PICK i \in 1..k : n = pod.numbers[ch] + i
      <4>1. n - pod.numbers[ch] \in 1..k /\ n = pod.numbers[ch] + (n - pod.numbers[ch])
        BY <2>2, <2>6, <2>8, <3>1
      <4> QED BY <4>1
    <3>3. f[i] \in ToSet(f)
      BY <2>2, <3>2 DEF ToSet
    <3>4. f[i].channel = e /\ f[i].serial = n
      BY <2>2, <3>1, <3>2
    <3> QED BY <2>5, <3>3, <3>4 DEF Bears
  <2> QED BY <2>6, <2>7, <2>8
<1>2. ASSUME Keeps(pod, pod'), UNCHANGED <<state, acknowledged>>
      PROVE  NothingForgotten'
  <2>1. Queued \cup acknowledged \subseteq (Queued \cup acknowledged)'
    BY <1>2 DEF Keeps, Queued
  <2>2. Open /\ \A ch \in CHANNELS : pod'.numbers[ch] = pod.numbers[ch]
    BY <1>2 DEF Keeps, Open
  <2> QED BY <2>1, <2>2, KeepsBears DEF Bears
<1>3. ASSUME NEW c \in DOMAIN under_way, HandleAcknowledge(c) PROVE NothingForgotten'
  <2>1. /\ Open /\ pod'.numbers = pod.numbers /\ pod'.outgoing = pod.outgoing
        /\ c \in acknowledged' /\ acknowledged \subseteq acknowledged'
        /\ \/ ToSet(pod.sent) \subseteq ToSet(pod'.sent)
           \/ \E d \in ToSet(pod.sent) :
                 /\ d.channel = c.channel /\ Rsn(d) = Rsn(c)
                 /\ ToSet(pod.sent) \subseteq ToSet(pod'.sent) \cup {d}
    BY <1>3, AcknowledgeEffect
  <2>2. Copies(c) > 0
    BY <1>3 DEF HandleAcknowledge
  <2>3. CASE ToSet(pod.sent) \subseteq ToSet(pod'.sent)
    <3>1. Queued \cup acknowledged \subseteq (Queued \cup acknowledged)'
      BY <2>1, <2>3 DEF Queued
    <3> QED BY <2>1, <3>1, KeepsBears DEF Bears
  <2>4. CASE \E d \in ToSet(pod.sent) :
                /\ d.channel = c.channel /\ Rsn(d) = Rsn(c)
                /\ ToSet(pod.sent) \subseteq ToSet(pod'.sent) \cup {d}
    <3>1. PICK d \in ToSet(pod.sent) :
             /\ d.channel = c.channel /\ Rsn(d) = Rsn(c)
             /\ ToSet(pod.sent) \subseteq ToSet(pod'.sent) \cup {d}
      BY <2>4
    <3>2. Queued \cup acknowledged \subseteq (Queued \cup acknowledged)' \cup {d}
      BY <2>1, <3>1 DEF Queued
    <3>3. HasChannel(c) => c.serial = d.serial
      BY <2>1, <2>2, <3>1 DEF TellApart
    <3>4. c \in (Queued \cup acknowledged)'
      BY <2>1
    <3>5. ASSUME NEW ch \in CHANNELS, NEW n \in Nat, Bears(Queued \cup acknowledged, ch, n)
          PROVE  Bears((Queued \cup acknowledged)', ch, n)
      <4>1. PICK e \in (Queued \cup acknowledged)' \cup {d} : e.channel = ch /\ e.serial = n
        BY <3>2, <3>5 DEF Bears
      <4>2. CASE e \in (Queued \cup acknowledged)'
        BY <4>1, <4>2 DEF Bears
      <4>3. CASE e = d
        <5>1. c.channel = ch /\ HasChannel(c)
          BY <3>1, <4>1, <4>3, PodAssumption DEF HasChannel
        <5>2. c.serial = n
          BY <3>3, <4>1, <4>3, <5>1
        <5> QED BY <3>4, <5>1, <5>2 DEF Bears
      <4> QED BY <4>1, <4>2, <4>3
    <3> QED BY <2>1, <3>5, KeepsBears
  <2> QED BY <2>1, <2>3, <2>4
<1>4. ASSUME Open, pod' = pod, acknowledged' = acknowledged PROVE NothingForgotten'
  BY <1>4 DEF NothingForgotten, Queued
<1>5. ASSUME Poll PROVE NothingForgotten'
  BY <1>2, <1>5, PollEffect
<1>6. ASSUME NEW expired, NEW p, GiveUp(expired, p) PROVE NothingForgotten'
  BY <1>2, <1>6, GiveUpEffect
<1>7. ASSUME NEW c \in DOMAIN under_way, Lose(c) PROVE NothingForgotten'
  BY <1>4, <1>7, LoseEffect DEF Open
<1>8. ASSUME DisconnectLater PROVE NothingForgotten'
  BY <1>4, <1>8, DisconnectLaterEffect
<1>9. CASE UNCHANGED vars
  BY <1>4, <1>9 DEF vars, Open
<1> QED BY <1>1, <1>3, <1>5, <1>6, <1>7, <1>8, <1>9 DEF Next

LEMMA NothingForgottenInit == Init => NothingForgotten
<1> SUFFICES ASSUME Init, NEW ch \in CHANNELS, NEW n \in 1..pod.numbers[ch] PROVE FALSE
  BY DEF NothingForgotten
<1>1. pod.numbers[ch] = 0
  BY DEF Init, EmptyPod
<1> QED BY <1>1

\* Until the peer disconnects, every command that was numbered is in one of
\* the two lists or acknowledged, whatever is lost and however late the
\* answers are, as long as the late ones can be told from the new.
THEOREM NothingIsForgotten == Spec /\ []TellApart => []NothingForgotten
<1>1. Inv /\ TellApart /\ NothingForgotten /\ [Next]_vars => NothingForgotten'
  BY NothingForgottenNext
<1> QED BY <1>1, NothingForgottenInit, SenderInvariant, PTL DEF Spec

LEMMA NumbersGrow ==
    ASSUME Inv, [Next]_vars, Open'
    PROVE  Open /\ \A ch \in CHANNELS : /\ pod.numbers[ch] \in Nat /\ pod'.numbers[ch] \in Nat
                                        /\ pod.numbers[ch] <= pod'.numbers[ch]
<1>1. /\ \A ch \in CHANNELS : pod.numbers[ch] \in Nat /\ ch \in Numbered
      /\ pod.numbers \in [Numbered -> Nat]
  BY PodFields DEF Inv, Typed, Numbered
<1>2. ASSUME NEW c \in CHANNELS, NEW lengths \in Messages, Send(c, lengths)
      PROVE  Open /\ \A ch \in CHANNELS : /\ pod'.numbers[ch] \in Nat
                                          /\ pod.numbers[ch] <= pod'.numbers[ch]
  <2>1. /\ state = "CONNECTED"
        /\ pod'.numbers = [pod.numbers EXCEPT ![c] = @ + Len(lengths)]
    BY <1>2, SendEffect
  <2>2. Len(lengths) \in Nat
    BY SenderConstants
  <2> QED BY <1>1, <2>1, <2>2 DEF Open
<1>3. ASSUME Open, \A ch \in CHANNELS : pod'.numbers[ch] = pod.numbers[ch]
      PROVE  Open /\ \A ch \in CHANNELS : /\ pod'.numbers[ch] \in Nat
                                          /\ pod.numbers[ch] <= pod'.numbers[ch]
  BY <1>1, <1>3
<1>4. ASSUME Poll
      PROVE  Open /\ \A ch \in CHANNELS : pod'.numbers[ch] = pod.numbers[ch]
  BY <1>4, PollEffect DEF Keeps, Open
<1>5. ASSUME NEW expired, NEW p, GiveUp(expired, p)
      PROVE  Open /\ \A ch \in CHANNELS : pod'.numbers[ch] = pod.numbers[ch]
  BY <1>5, GiveUpEffect DEF Keeps, Open
<1>6. ASSUME NEW c \in DOMAIN under_way, HandleAcknowledge(c)
      PROVE  Open /\ \A ch \in CHANNELS : pod'.numbers[ch] = pod.numbers[ch]
  BY <1>6, AcknowledgeEffect
<1>7. ASSUME NEW c \in DOMAIN under_way, Lose(c)
      PROVE  Open /\ \A ch \in CHANNELS : pod'.numbers[ch] = pod.numbers[ch]
  BY <1>7, LoseEffect DEF Open
<1>8. ASSUME DisconnectLater
      PROVE  Open /\ \A ch \in CHANNELS : pod'.numbers[ch] = pod.numbers[ch]
  BY <1>8, DisconnectLaterEffect
<1>9. CASE UNCHANGED vars
  BY <1>1, <1>9 DEF vars, Open
<1> QED BY <1>1, <1>2, <1>3, <1>4, <1>5, <1>6, <1>7, <1>8, <1>9 DEF Next

\* Without that premise while no channel has used up its numbers.
THEOREM NothingIsForgottenAtFirst == Spec => [](FirstLap => NothingForgotten)
<1> DEFINE Kept == FirstLap => NothingForgotten
<1>1. Init => Kept
  BY NothingForgottenInit
<1>2. Inv /\ Kept /\ [Next]_vars => Kept'
  <2> SUFFICES ASSUME Inv, Kept, [Next]_vars, FirstLap', Open' PROVE NothingForgotten'
    BY DEF NothingForgotten
  <2>1. FirstLap
    <3>1. SEQUENCE_NUMBERS \in Nat
      BY WindowsLemma
    <3> QED BY <3>1, NumbersGrow DEF FirstLap
  <2> QED BY <2>1, FirstLapTellsApart, NothingForgottenNext
<1> QED BY <1>1, <1>2, SenderInvariant, PTL DEF Spec

-----------------------------------------------------------------------------
(* What a module that composes the sender needs of its steps.              *)

\* Copies may arrive or be lost without more.
LEMMA CopiesMayGo ==
    ASSUME Inv, under_way' \in [DOMAIN under_way -> Nat],
           UNCHANGED <<state, pod, gave_up, acknowledged, messages, losses>>
    PROVE  /\ Inv'
           /\ NothingForgotten => NothingForgotten'
<1>1. DOMAIN under_way' = DOMAIN under_way
  OBVIOUS
<1>2. Typed'
  BY <1>1 DEF Inv, Typed
<1>3. Orderly(pod)' /\ (state # "DISCONNECTED" => WithinNumbers(pod))' /\ UnderWayIsAttempted'
  BY <1>1 DEF Inv, Orderly, SentIsAttempted, AttemptedFirst, WaitsInOrder, WithinNumbers,
              UnderWayIsAttempted, Open
<1> QED BY <1>2, <1>3 DEF Inv, NothingForgotten, Open, Queued

\* A poll adds copies, and nothing else that a channel did not have.
LEMMA PollCopies ==
    ASSUME Inv, Poll
    PROVE  /\ DOMAIN under_way \subseteq DOMAIN under_way'
           /\ \A c \in DOMAIN under_way : /\ under_way[c] \in Nat /\ under_way'[c] \in Nat
                                          /\ under_way'[c] >= under_way[c]
<1>1. PICK copies \in Seq(Command) : under_way' = Transmitted(copies)
  BY PollEffect
<1>2. PICK sent : sent = Transmitted(copies)
  OBVIOUS
<1>3. /\ DOMAIN sent = DOMAIN under_way \cup ToSet(copies)
      /\ sent \in [DOMAIN sent -> Nat]
      /\ \A c \in DOMAIN sent :
            sent[c] = Copies(c) + Cardinality({i \in DOMAIN copies : copies[i] = c})
  BY <1>2, TransmittedLemma DEF Inv
<1>4. ASSUME NEW c \in DOMAIN under_way
      PROVE  under_way[c] \in Nat /\ sent[c] \in Nat /\ sent[c] >= under_way[c]
  <2>1. PICK n : n = Cardinality({i \in DOMAIN copies : copies[i] = c})
    OBVIOUS
  <2>2. n \in Nat
    <3>1. IsFiniteSet(DOMAIN copies)
      BY FS_Interval
    <3>2. IsFiniteSet({i \in DOMAIN copies : copies[i] = c})
      BY <3>1, FS_Subset
    <3> QED BY <2>1, <3>2, FS_CardinalityType
  <2>3. sent[c] = under_way[c] + n /\ under_way[c] \in Nat /\ sent[c] \in Nat
    BY <1>3, <2>1 DEF Copies, Inv, Typed
  <2> QED BY <2>2, <2>3
<1> QED BY <1>1, <1>2, <1>3, <1>4

\* While the peer is connected an acknowledgement takes a command off the sent
\* list at most.
LEMMA ConnectedAcknowledge ==
    ASSUME Inv, state = "CONNECTED", NEW c \in DOMAIN under_way, HandleAcknowledge(c)
    PROVE  /\ state' = "CONNECTED" /\ acknowledged' = acknowledged \cup {c}
           /\ Queued' \subseteq Queued
           /\ under_way' = [under_way EXCEPT ![c] = @ - 1]
           /\ UNCHANGED <<messages, losses>>
<1>1. /\ acknowledged' = acknowledged \cup {c}
      /\ under_way' = [under_way EXCEPT ![c] = @ - 1]
      /\ UNCHANGED <<messages, losses>>
  BY DEF HandleAcknowledge
<1>2. PICK p : p = pod /\ Sound(p)
  BY DEF Inv, Typed, Sound
<1>3. \/ \E k \in DOMAIN p.sent : AfterAcknowledge(RemoveSentReliableCommand(p, k), TRUE)
      \/ AfterAcknowledge(p, FALSE)
  BY <1>2 DEF HandleAcknowledge
<1>4. CASE AfterAcknowledge(p, FALSE)
  <2>1. state' = "CONNECTED" /\ pod' = p
    BY <1>4 DEF AfterAcknowledge
  <2> QED BY <1>1, <1>2, <2>1 DEF Queued
<1>5. ASSUME NEW k \in DOMAIN p.sent, AfterAcknowledge(RemoveSentReliableCommand(p, k), TRUE)
      PROVE  state' = "CONNECTED" /\ Queued' \subseteq Queued
  <2>1. PICK q : /\ q = RemoveSentReliableCommand(p, k) /\ q.outgoing = p.outgoing
                 /\ ToSet(q.sent) \subseteq ToSet(p.sent)
    BY <1>2, RemovedEffect
  <2>2. AfterAcknowledge(q, TRUE)
    BY <1>5, <2>1
  <2>3. state' = "CONNECTED" /\ pod' = q
    BY <2>2 DEF AfterAcknowledge
  <2> QED BY <1>2, <2>1, <2>3 DEF Queued
<1> QED BY <1>1, <1>3, <1>4, <1>5

\* A message of one fragment is one command, with the next number.
LEMMA SendOne ==
    ASSUME Inv, NEW ch \in CHANNELS, NEW length \in Nat, <<length>> \in Messages,
           Send(ch, <<length>>)
    PROVE  /\ messages' = [messages EXCEPT ![ch] = @ + 1]
           /\ pod.numbers \in [Numbered -> Nat]
           /\ pod'.numbers = [pod.numbers EXCEPT ![ch] = @ + 1]
           /\ \A c \in Queued' : c \in Queued \/ c.length = length
           /\ UNCHANGED <<state, gave_up, under_way, acknowledged, losses>>
<1>1. /\ pod'.numbers = [pod.numbers EXCEPT ![ch] = @ + Len(<<length>>)]
      /\ pod'.sent = pod.sent
      /\ pod'.outgoing = pod.outgoing \o Fragments(pod, ch, <<length>>)
      /\ UNCHANGED <<state, gave_up, under_way, acknowledged, losses>>
  BY SendEffect
<1>2. Sound(pod) /\ ch \in Numbered /\ <<length>> \in Seq(Nat)
  BY DEF Inv, Typed, Sound, Numbered, Send
<1>3. PICK f \in Seq(Command) : f = Fragments(pod, ch, <<length>>) /\ Len(f) = Len(<<length>>)
  <2>1. PICK lengths \in Seq(Nat) : lengths = <<length>>
    BY <1>2
  <2>2. PICK g : g = Fragments(pod, ch, lengths)
    OBVIOUS
  <2>3. g \in Seq(Command) /\ Len(g) = Len(lengths)
    BY <1>2, <2>1, <2>2, FragmentsLemma DEF Sound
  <2> QED BY <2>1, <2>2, <2>3
<1>4. \A c \in ToSet(f) : c.length = length
  <2>1. \A i \in 1..Len(<<length>>) : f[i].length = <<length>>[i]
    BY <1>3 DEF Fragments
  <2>2. \A i \in 1..Len(<<length>>) : <<length>>[i] = length
    OBVIOUS
  <2> QED BY <1>3, <2>1, <2>2 DEF ToSet
<1>5. ToSet(pod'.outgoing) = ToSet(pod.outgoing) \cup ToSet(f)
  BY <1>1, <1>2, <1>3, SeqToSet, PodFields DEF Sound
<1>6. pod'.numbers = [pod.numbers EXCEPT ![ch] = @ + 1]
  BY <1>1
<1>7. messages' = [messages EXCEPT ![ch] = @ + 1] /\ pod.numbers \in [Numbered -> Nat]
  BY <1>2, PodFields DEF Send, Sound
<1> QED BY <1>1, <1>4, <1>5, <1>6, <1>7 DEF Queued

\* The windows of two numbers next to each other.
LEMMA NextWindow ==
    ASSUME NEW n \in Nat, n > 0
    PROVE  /\ Window(n) \in Nat /\ Window(n - 1) \in Nat
           /\ IF n % PEER_RELIABLE_WINDOW_SIZE = 0 THEN Window(n) = Window(n - 1) + 1
                                                    ELSE Window(n) = Window(n - 1)
<1>1. PICK s \in Nat : s = PEER_RELIABLE_WINDOW_SIZE /\ s > 0
  BY WindowsLemma
<1>2. PICK q \in Nat, r \in 0..(s - 1) : n = s * q + r /\ q = n \div s /\ r = n % s
  BY <1>1, DivisionExists
<1>3. CASE r = 0
  <2>4. s * (q - 1) = s * q - s
    BY <1>1
  <2>1. n - 1 = s * (q - 1) + (s - 1) /\ s - 1 \in 0..(s - 1)
    BY <1>1, <1>2, <1>3, <2>4
  <2>2. (n - 1) \div s = q - 1
    BY <1>1, <2>1, DivisionIs
  <2>3. q # 0
    <3>1. SUFFICES ASSUME q = 0 PROVE FALSE
      OBVIOUS
    <3>2. s * q = 0
      BY <1>1, <3>1
    <3>3. n = s * q + r
      BY <1>2
    <3>4. n = 0
      BY <1>3, <3>2, <3>3
    <3> QED BY <3>4
  <2> QED BY <1>1, <1>2, <1>3, <2>2, <2>3 DEF Window
<1>4. CASE r # 0
  <2>1. n - 1 = s * q + (r - 1) /\ r - 1 \in 0..(s - 1)
    BY <1>1, <1>2, <1>4
  <2>2. (n - 1) \div s = q
    BY <1>1, <2>1, DivisionIs
  <2> QED BY <1>1, <1>2, <1>4, <2>2 DEF Window
<1> QED BY <1>3, <1>4

LEMMA WindowMonotone ==
    ASSUME NEW m \in Nat, NEW n \in Nat, m <= n
    PROVE  Window(m) \in Nat /\ Window(n) \in Nat /\ Window(m) <= Window(n)
<1>1. PICK s \in Nat : s = PEER_RELIABLE_WINDOW_SIZE /\ s > 0
  BY WindowsLemma
<1>2. PICK q \in Nat, r \in 0..(s - 1) : n = s * q + r /\ q = n \div s
  BY <1>1, DivisionExists
<1>3. PICK p \in Nat, t \in 0..(s - 1) : m = s * p + t /\ p = m \div s
  BY <1>1, DivisionExists
<1>4. ~(q + 1 <= p)
  <2>1. SUFFICES ASSUME q + 1 <= p PROVE FALSE
    OBVIOUS
  <2>2. s * (q + 1) <= s * p
    BY <2>1
  <2>3. s * (q + 1) = s * q + s
    BY <1>1
  <2> QED BY <1>1, <1>2, <1>3, <2>2, <2>3
<1> QED BY <1>1, <1>2, <1>3, <1>4 DEF Window

\* The window of a number that has wrapped, and whether it is the first of one.
LEMMA WindowWrapped ==
    ASSUME NEW n \in Nat
    PROVE  /\ Window(n % SEQUENCE_NUMBERS) = Window(n) % PEER_RELIABLE_WINDOWS
           /\ (n % SEQUENCE_NUMBERS) % PEER_RELIABLE_WINDOW_SIZE = n % PEER_RELIABLE_WINDOW_SIZE
<1>1. PICK s \in Nat, w \in Nat : /\ s = PEER_RELIABLE_WINDOW_SIZE /\ s > 0
                                  /\ w = PEER_RELIABLE_WINDOWS /\ w > 0
  BY WindowsLemma
<1>2. PICK z \in Nat : z = SEQUENCE_NUMBERS /\ z > 0
  BY WindowsLemma
<1>10. z = w * s
  BY <1>1, <1>2 DEF SEQUENCE_NUMBERS
<1>11. PICK k \in Int, m \in 0..(z - 1) : n = z * k + m /\ m = n % z /\ (n \in Nat => k \in Nat)
  <2>1. \E q \in Int, r \in 0..(z - 1) :
              n = z * q + r /\ q = n \div z /\ r = n % z /\ (n \in Nat => q \in Nat)
    BY <1>2, DivisionExists
  <2> QED BY <2>1
<1>3. k \in Nat /\ m \in Nat /\ n = z * k + m /\ m = n % z
  BY <1>2, <1>11
<1>9. m \in Nat
  BY <1>3
<1>4. PICK q \in Nat, r \in 0..(s - 1) : m = s * q + r /\ q = m \div s /\ r = m % s
  BY <1>1, <1>9, DivisionExists
<1>5. q \in 0..(w - 1)
  <2>1. Window(n % SEQUENCE_NUMBERS) \in Windows
    BY WindowsLemma
  <2> QED BY <1>1, <1>2, <1>3, <1>4, <2>1 DEF Window, Windows
<1>6. n = s * (w * k + q) + r
  BY <1>1, <1>10, <1>3, <1>4
<1>7. n \div s = w * k + q /\ n % s = r
  <2>1. PICK a \in Int : a = w * k + q
    BY <1>1
  <2> QED BY <1>1, <1>6, <2>1, DivisionIs
<1>8. (w * k + q) % w = q
  BY <1>1, <1>5, DivisionIs
<1> QED BY <1>1, <1>2, <1>3, <1>4, <1>7, <1>8 DEF Window

\* The last window that must be empty before the one of n is entered is too far
\* behind it.
LEMMA FarBehindIsFree ==
    ASSUME NEW n \in Nat, NEW m \in Nat,
           Window(n) - Window(m) = PEER_RELIABLE_WINDOWS - PEER_FREE_RELIABLE_WINDOWS + 1
    PROVE  Window(m % SEQUENCE_NUMBERS) \in FreeWindows(Window(n % SEQUENCE_NUMBERS))
<1>1. PICK w \in Nat, f \in Nat : /\ w = PEER_RELIABLE_WINDOWS /\ w > 0
                                  /\ f = PEER_FREE_RELIABLE_WINDOWS /\ f > 0 /\ f <= w
  BY WindowAssumption
<1>2. PICK a \in Nat, b \in Nat : a = Window(n) /\ b = Window(m)
  BY WindowMonotone
<1>3. \E q \in Int, r \in 0..(w - 1) :
         a = w * q + r /\ q = a \div w /\ r = a % w /\ (a \in Nat => q \in Nat)
  BY <1>1, DivisionExists
<1>4. PICK k \in Int, r \in 0..(w - 1) : a = w * k + r /\ r = a % w
  BY <1>3
<1>5. PICK x \in Nat : x = r + (f - 1)
  BY <1>1
<1>6. \E q \in Int, t \in 0..(w - 1) :
         x = w * q + t /\ q = x \div w /\ t = x % w /\ (x \in Nat => q \in Nat)
  BY <1>1, DivisionExists
<1>7. PICK j \in Int, t \in 0..(w - 1) : x = w * j + t /\ t = x % w
  BY <1>6
<1>8. PICK y \in Int : y = k + j - 1
  OBVIOUS
<1>9. w * y = w * k + w * j - w
  BY <1>1, <1>8
<1>10. b = a - (w - f + 1)
  BY <1>1, <1>2
<1>11. b = w * y + t
  <2>1. a = w * k + r /\ x = w * j + t
    BY <1>4, <1>7
  <2> QED BY <1>1, <1>5, <1>9, <1>10, <2>1
<1>12. b % w = t
  BY <1>1, <1>11, DivisionIs
<1>13. /\ Window(m % SEQUENCE_NUMBERS) = b % w /\ Window(n % SEQUENCE_NUMBERS) = r
  BY <1>1, <1>2, <1>4, WindowWrapped
<1>14. f - 1 \in 0..(f - 1)
  BY <1>1
<1> QED BY <1>1, <1>5, <1>7, <1>12, <1>13, <1>14 DEF FreeWindows

-----------------------------------------------------------------------------
(* What the windows count.                                                 *)

\* The commands of a channel that are in a window.
InWindow(some, ch, w) == {c \in some : c.channel = ch /\ Window(Rsn(c)) = w}

\* A window counts its commands that were sent, and is marked if there are any.
Counted(p) ==
    \A ch \in CHANNELS :
       /\ \A w \in Windows : p.windows[ch][w] = Cardinality(InWindow(ToSet(p.sent), ch, w))
       /\ p.used[ch] = {w \in Windows : p.windows[ch][w] > 0}

\* A command that waits for its acknowledgement is not far behind any other.
Near(p) ==
    \A c \in ToSet(p.sent), d \in p.attempted :
       HasChannel(c) /\ c.channel = d.channel =>
          Window(d.serial) - Window(c.serial)
             <= PEER_RELIABLE_WINDOWS - PEER_FREE_RELIABLE_WINDOWS

\* No command of a channel is in the sent list twice.
Distinct(p) ==
    \A i, j \in DOMAIN p.sent : HasChannel(p.sent[i]) /\ p.sent[i] = p.sent[j] => i = j

\* What a channel has sent is in the sent list or acknowledged.
Accounted(p, acked) ==
    \A c \in p.attempted : HasChannel(c) => (c \in ToSet(p.sent) <=> c \notin acked)

Neat(p, acked) ==
    Counted(p) /\ Near(p) /\ Distinct(p) /\ Accounted(p, acked) /\ acked \subseteq p.attempted

LEMMA SentIsFinite ==
    ASSUME NEW s \in Seq(Command), NEW ch, NEW w
    PROVE  /\ IsFiniteSet(ToSet(s)) /\ IsFiniteSet(InWindow(ToSet(s), ch, w))
           /\ Cardinality(InWindow(ToSet(s), ch, w)) \in Nat
<1>1. IsFiniteSet(DOMAIN s)
  BY FS_Interval
<1>2. s \in Surjection(DOMAIN s, ToSet(s))
  BY DEF Surjection, ToSet
<1>3. IsFiniteSet(ToSet(s))
  BY <1>1, <1>2, FS_Surjection
<1>4. IsFiniteSet(InWindow(ToSet(s), ch, w))
  BY <1>3, FS_Subset DEF InWindow
<1> QED BY <1>3, <1>4, FS_CardinalityType

\* A command that was not sent is one more in its window, and in no other.
LEMMA InWindowMore ==
    ASSUME NEW s \in Seq(Command), NEW c \in Command, c \notin ToSet(s), NEW ch, NEW w
    PROVE  Cardinality(InWindow(ToSet(s) \cup {c}, ch, w)) =
              Cardinality(InWindow(ToSet(s), ch, w))
                 + (IF c.channel = ch /\ Window(Rsn(c)) = w THEN 1 ELSE 0)
<1>1. PICK S : S = InWindow(ToSet(s), ch, w)
  OBVIOUS
<1>2. IsFiniteSet(S) /\ Cardinality(S) \in Nat
  BY <1>1, SentIsFinite
<1>3. CASE c.channel = ch /\ Window(Rsn(c)) = w
  <2>1. InWindow(ToSet(s) \cup {c}, ch, w) = S \cup {c} /\ c \notin S
    BY <1>1, <1>3 DEF InWindow
  <2>2. Cardinality(S \cup {c}) = Cardinality(S) + 1
    BY <1>2, <2>1, FS_AddElement
  <2> QED BY <1>1, <1>3, <2>1, <2>2
<1>4. CASE ~(c.channel = ch /\ Window(Rsn(c)) = w)
  <2>1. InWindow(ToSet(s) \cup {c}, ch, w) = S
    BY <1>1, <1>4 DEF InWindow
  <2> QED BY <1>1, <1>2, <1>4, <2>1
<1> QED BY <1>3, <1>4

\* A command that leaves the sent list is one less in its window.
LEMMA InWindowLess ==
    ASSUME NEW s \in Seq(Command), NEW c \in ToSet(s), NEW ch, NEW w
    PROVE  Cardinality(InWindow(ToSet(s) \ {c}, ch, w)) =
              Cardinality(InWindow(ToSet(s), ch, w))
                 - (IF c.channel = ch /\ Window(Rsn(c)) = w THEN 1 ELSE 0)
<1>1. PICK S : S = InWindow(ToSet(s), ch, w)
  OBVIOUS
<1>2. IsFiniteSet(S) /\ Cardinality(S) \in Nat
  BY <1>1, SentIsFinite
<1>3. CASE c.channel = ch /\ Window(Rsn(c)) = w
  <2>1. InWindow(ToSet(s) \ {c}, ch, w) = S \ {c} /\ c \in S
    BY <1>1, <1>3 DEF InWindow
  <2>2. Cardinality(S \ {c}) = Cardinality(S) - 1
    BY <1>2, <2>1, FS_RemoveElement
  <2> QED BY <1>1, <1>3, <2>1, <2>2
<1>4. CASE ~(c.channel = ch /\ Window(Rsn(c)) = w)
  <2>1. InWindow(ToSet(s) \ {c}, ch, w) = S
    BY <1>1, <1>4 DEF InWindow
  <2> QED BY <1>1, <1>2, <1>4, <2>1
<1> QED BY <1>3, <1>4

LEMMA CountWindows ==
    ASSUME NEW p \in Pod, NEW c \in Command, HasChannel(c), c \notin p.attempted
    PROVE  LET q == CountInWindow(p, c)
           IN  \A ch \in CHANNELS :
                 /\ \A w \in Windows :
                       q.windows[ch][w] = p.windows[ch][w]
                          + (IF c.channel = ch /\ Window(Rsn(c)) = w THEN 1 ELSE 0)
                 /\ q.used[ch] = IF ch = c.channel THEN p.used[ch] \cup {Window(Rsn(c))}
                                                   ELSE p.used[ch]
<1>1. PICK v \in Windows, d \in CHANNELS : v = Window(Rsn(c)) /\ d = c.channel
  BY CommandLemma
<1>2. PICK q : q = CountInWindow(p, c)
  OBVIOUS
<1>3. q = [p EXCEPT !.windows[d][v] = @ + 1, !.used[d] = @ \cup {v}]
  BY <1>1, <1>2 DEF CountInWindow
<1>6. PICK W \in [CHANNELS -> [Windows -> Nat]], U \in [CHANNELS -> SUBSET Windows] :
         W = p.windows /\ U = p.used
  BY PodFields
<1>9. PICK n \in Nat : n = W[d][v] + 1
  BY <1>6
<1> DEFINE X == [W EXCEPT ![d] = [@ EXCEPT ![v] = n]]
           Y == [U EXCEPT ![d] = @ \cup {v}]
<1>4. q = [p EXCEPT !.windows = X, !.used = Y]
  <2>1. q = [p EXCEPT !.windows = [p.windows EXCEPT ![d] = [@ EXCEPT ![v] = p.windows[d][v] + 1]],
                      !.used = [p.used EXCEPT ![d] = @ \cup {v}]]
    BY <1>3
  <2> QED BY <1>6, <1>9, <2>1
<1>10. X \in [CHANNELS -> [Windows -> Nat]] /\ Y \in [CHANNELS -> SUBSET Windows]
  BY <1>6, <1>9
<1>5. q.windows = X /\ q.used = Y
  <2> HIDE DEF X, Y
  <2> QED BY <1>4, <1>10 DEF Pod
<1>7. ASSUME NEW ch \in CHANNELS, NEW w \in Windows
      PROVE  q.windows[ch][w] = W[ch][w] + (IF d = ch /\ v = w THEN 1 ELSE 0)
  <2>1. W[ch] \in [Windows -> Nat] /\ W[ch][w] \in Nat
    BY <1>6
  <2>2. CASE ch = d
    <3>1. X[ch] = [W[ch] EXCEPT ![v] = n]
      BY <1>6, <2>2
    <3>2. X[ch][w] = IF w = v THEN n ELSE W[ch][w]
      BY <2>1, <3>1
    <3> QED BY <1>5, <1>9, <2>1, <2>2, <3>2
  <2>3. CASE ch # d
    <3>1. X[ch] = W[ch]
      BY <1>6, <2>3
    <3> QED BY <1>5, <2>1, <2>3, <3>1
  <2> QED BY <2>2, <2>3
<1>8. ASSUME NEW ch \in CHANNELS
      PROVE  q.used[ch] = IF ch = d THEN U[ch] \cup {v} ELSE U[ch]
  BY <1>5, <1>6
<1> QED BY <1>1, <1>2, <1>6, <1>7, <1>8, ZenonT(40)

LEMMA PutWindows ==
    ASSUME NEW p \in Pod, NEW c \in Command
    PROVE  PutOnWire(p, c).windows = CountInWindow(p, c).windows
           /\ PutOnWire(p, c).used = CountInWindow(p, c).used
<1>1. PICK r \in Pod : r = CountInWindow(p, c)
  BY CountEffect
<1>2. PICK A, s, t : A = r.attempted \cup {c} /\ s = Append(r.sent, c)
                     /\ t = Plus(r.transit, c.length)
  OBVIOUS
<1>3. PutOnWire(p, c) = [r EXCEPT !.attempted = A, !.transit = t, !.sent = s]
  BY <1>1, <1>2 DEF PutOnWire
<1> QED BY <1>1, <1>3 DEF Pod

LEMMA PutCounted ==
    ASSUME NEW p \in Pod, Counted(p), SentIsAttempted(p), NEW c \in Command,
           HasChannel(c) => c \notin p.attempted
    PROVE  Counted(PutOnWire(p, c))
<1>1. PICK q \in Pod : q = PutOnWire(p, c) /\ q.sent = Append(p.sent, c)
  BY PutEffect
<1>2. p.sent \in Seq(Command) /\ ToSet(q.sent) = ToSet(p.sent) \cup {c}
  BY <1>1, PodFields, SeqToSet
<1>3. CASE HasChannel(c)
  <2>1. c \notin ToSet(p.sent) /\ c \notin p.attempted
    BY <1>3 DEF SentIsAttempted
  <2>2. PICK v : v = Window(Rsn(c))
    OBVIOUS
  <2>6. PICK r : r = CountInWindow(p, c) /\ q.windows = r.windows /\ q.used = r.used
    BY <1>1, PutWindows
  <2>3. \A ch \in CHANNELS :
           /\ \A w \in Windows : q.windows[ch][w] = p.windows[ch][w]
                                    + (IF c.channel = ch /\ Window(Rsn(c)) = w THEN 1 ELSE 0)
           /\ q.used[ch] = IF ch = c.channel THEN p.used[ch] \cup {v} ELSE p.used[ch]
    BY <1>3, <2>1, <2>2, <2>6, CountWindows
  <2>4. ASSUME NEW ch \in CHANNELS, NEW w \in Windows
        PROVE  q.windows[ch][w] = Cardinality(InWindow(ToSet(q.sent), ch, w))
    <3>1. p.windows[ch][w] = Cardinality(InWindow(ToSet(p.sent), ch, w))
      BY DEF Counted
    <3>2. Cardinality(InWindow(ToSet(p.sent) \cup {c}, ch, w)) =
              Cardinality(InWindow(ToSet(p.sent), ch, w))
                 + (IF c.channel = ch /\ Window(Rsn(c)) = w THEN 1 ELSE 0)
      BY <1>2, <2>1, InWindowMore
    <3>3. q.windows[ch][w] = p.windows[ch][w]
                                + (IF c.channel = ch /\ Window(Rsn(c)) = w THEN 1 ELSE 0)
      BY <2>3
    <3> QED BY <1>2, <3>1, <3>2, <3>3
  <2>5. ASSUME NEW ch \in CHANNELS
        PROVE  q.used[ch] = {w \in Windows : q.windows[ch][w] > 0}
    <3>1. p.used[ch] = {w \in Windows : p.windows[ch][w] > 0}
      BY DEF Counted
    <3>2. \A w \in Windows : p.windows[ch][w] \in Nat
      BY PodFields
    <3>3. v \in Windows
      BY <2>2, CommandLemma
    <3>4. \A w \in Windows : q.windows[ch][w] > 0
                                <=> p.windows[ch][w] > 0 \/ (ch = c.channel /\ w = v)
      <4> SUFFICES ASSUME NEW w \in Windows
                   PROVE  q.windows[ch][w] > 0
                             <=> p.windows[ch][w] > 0 \/ (ch = c.channel /\ w = v)
        OBVIOUS
      <4>1. q.windows[ch][w] = p.windows[ch][w]
                                + (IF c.channel = ch /\ v = w THEN 1 ELSE 0)
        BY <2>2, <2>3
      <4>2. p.windows[ch][w] \in Nat
        BY <3>2
      <4> QED BY <4>1, <4>2
    <3>5. q.used[ch] = IF ch = c.channel THEN p.used[ch] \cup {v} ELSE p.used[ch]
      BY <2>3
    <3> QED BY <3>1, <3>3, <3>4, <3>5
  <2>7. Counted(q)
    BY <2>4, <2>5 DEF Counted
  <2> QED BY <1>1, <2>7
<1>4. CASE ~HasChannel(c)
  <2>1. CountInWindow(p, c) = p
    BY <1>4 DEF CountInWindow
  <2>2. q.windows = p.windows /\ q.used = p.used
    BY <1>1, <2>1, PutWindows
  <2>3. \A ch \in CHANNELS, w \in Windows :
           InWindow(ToSet(q.sent), ch, w) = InWindow(ToSet(p.sent), ch, w)
    BY <1>2, <1>4, PodAssumption DEF InWindow, HasChannel
  <2> QED BY <1>1, <2>2, <2>3 DEF Counted
<1> QED BY <1>1, <1>3, <1>4

\* What a command that goes out for the first time needs around it.
Due(p, c) ==
    HasChannel(c) =>
       /\ c \notin p.attempted /\ c.serial > 0 /\ ~WindowWraps(p, c)
       /\ \A d \in p.attempted : d.channel = c.channel => 0 < d.serial /\ d.serial < c.serial
       /\ c.serial > 1 =>
             \E d \in p.attempted : d.channel = c.channel /\ d.serial = c.serial - 1

LEMMA PutNear ==
    ASSUME NEW p \in Pod, Counted(p), Near(p), SentIsAttempted(p), NEW c \in Command, Due(p, c)
    PROVE  Near(PutOnWire(p, c))
<1> DEFINE far == PEER_RELIABLE_WINDOWS - PEER_FREE_RELIABLE_WINDOWS
<1>1. PICK q \in Pod : /\ q = PutOnWire(p, c) /\ q.sent = Append(p.sent, c)
                       /\ q.attempted = p.attempted \cup {c}
  BY PutEffect
<1>2. p.sent \in Seq(Command) /\ ToSet(q.sent) = ToSet(p.sent) \cup {c}
  BY <1>1, PodFields, SeqToSet
<1>3. far \in Nat
  BY WindowAssumption
<1> SUFFICES ASSUME NEW x \in ToSet(q.sent), NEW d \in q.attempted, HasChannel(x),
                    x.channel = d.channel
             PROVE  Window(d.serial) - Window(x.serial) <= far
  BY <1>1 DEF Near
<1>4. x \in Command /\ d \in Command /\ x.serial \in Nat /\ d.serial \in Nat /\ c.serial \in Nat
  BY <1>1, <1>2, PodFields, CommandLemma, SeqToSet
<1>5. CASE x \in ToSet(p.sent) /\ d \in p.attempted
  BY <1>5 DEF Near
<1>6. CASE x = c
  <2>1. d.serial <= x.serial
    BY <1>1, <1>4, <1>6 DEF Due
  <2>2. Window(d.serial) <= Window(x.serial) /\ {Window(d.serial), Window(x.serial)} \subseteq Nat
    BY <1>4, <2>1, WindowMonotone
  <2> HIDE DEF far
  <2> QED BY <1>3, <2>2
<1>7. CASE x \in ToSet(p.sent) /\ d = c
  <2>1. x \in p.attempted
    BY <1>7 DEF SentIsAttempted
  <2>2. HasChannel(c) /\ 0 < x.serial /\ x.serial < c.serial
    BY <1>7, <2>1 DEF Due, HasChannel
  <2>3. PICK e \in p.attempted : e.channel = c.channel /\ e.serial = c.serial - 1
    BY <1>4, <2>2 DEF Due
  <2>4. Window(e.serial) - Window(x.serial) <= far
    BY <1>7, <2>3 DEF Near
  <2>5. PICK n \in Nat : n = c.serial /\ n > 0
    BY <1>4, <2>2
  <2>6. /\ Window(n) \in Nat /\ Window(n - 1) \in Nat
        /\ IF n % PEER_RELIABLE_WINDOW_SIZE = 0 THEN Window(n) = Window(n - 1) + 1
                                                 ELSE Window(n) = Window(n - 1)
    BY <2>5, NextWindow
  <2>7. Window(x.serial) \in Nat
    BY <1>4, WindowMonotone
  <2>8. CASE n % PEER_RELIABLE_WINDOW_SIZE # 0
    BY <1>7, <2>3, <2>4, <2>5, <2>6, <2>8
  <2>9. CASE n % PEER_RELIABLE_WINDOW_SIZE = 0
    <3>1. Window(n) - Window(x.serial) <= far + 1
      <4>1. Window(n) = Window(n - 1) + 1 /\ Window(n - 1) - Window(x.serial) <= far
        BY <2>3, <2>4, <2>5, <2>6, <2>9
      <4> HIDE DEF far
      <4> QED BY <1>3, <2>6, <2>7, <4>1
    <3>2. Window(n) - Window(x.serial) # far + 1
      <4>1. SUFFICES ASSUME Window(n) - Window(x.serial) = far + 1 PROVE FALSE
        OBVIOUS
      <4>2. Window(Rsn(x)) \in FreeWindows(Window(Rsn(c)))
        BY <1>4, <2>5, <4>1, FarBehindIsFree DEF Rsn
      <4>3. Rsn(c) % PEER_RELIABLE_WINDOW_SIZE = 0
        BY <2>5, <2>9, WindowWrapped DEF Rsn
      <4>4. p.used[c.channel] \cap FreeWindows(Window(Rsn(c))) = {}
        BY <2>2, <4>3 DEF Due, WindowWraps
      <4>5. c.channel \in CHANNELS /\ Window(Rsn(x)) \in Windows
        BY <1>4, <2>2, CommandLemma
      <4>6. x \in InWindow(ToSet(p.sent), c.channel, Window(Rsn(x)))
        BY <1>7 DEF InWindow
      <4>7. p.windows[c.channel][Window(Rsn(x))] > 0
        <5>1. PICK S : S = InWindow(ToSet(p.sent), c.channel, Window(Rsn(x)))
          OBVIOUS
        <5>2. IsFiniteSet(S) /\ Cardinality(S) \in Nat /\ S # {}
          BY <1>2, <4>6, <5>1, SentIsFinite
        <5>3. Cardinality(S) # 0
          BY <5>2, FS_EmptySet
        <5>4. p.windows[c.channel][Window(Rsn(x))] = Cardinality(S)
          BY <4>5, <5>1 DEF Counted
        <5> QED BY <5>2, <5>3, <5>4
      <4>8. Window(Rsn(x)) \in p.used[c.channel]
        BY <4>5, <4>7 DEF Counted
      <4> QED BY <4>2, <4>4, <4>8
    <3> HIDE DEF far
    <3> QED BY <1>3, <1>7, <2>5, <2>6, <2>7, <3>1, <3>2
  <2> QED BY <2>8, <2>9
<1>8. CASE x = c /\ d = c
  BY <1>6, <1>8
<1> QED BY <1>1, <1>2, <1>5, <1>6, <1>7

\* A command that is due leaves everything as neat as it was.
LEMMA PutNeat ==
    ASSUME NEW p \in Pod, SentIsAttempted(p), NEW acked, Neat(p, acked),
           NEW c \in Command, Due(p, c)
    PROVE  Neat(PutOnWire(p, c), acked)
<1>1. PICK q \in Pod : /\ q = PutOnWire(p, c) /\ q.sent = Append(p.sent, c)
                       /\ q.attempted = p.attempted \cup {c}
  BY PutEffect
<1>2. PICK s \in Seq(Command) : s = p.sent /\ ToSet(q.sent) = ToSet(s) \cup {c}
  BY <1>1, PodFields, SeqToSet
<1>3. Counted(q) /\ Near(q)
  BY <1>1, PutCounted, PutNear DEF Neat, Due
<1>4. Distinct(q)
  <2>1. HasChannel(c) => c \notin ToSet(s)
    BY <1>2 DEF SentIsAttempted, Due
  <2>2. /\ DOMAIN q.sent = 1..(Len(s) + 1) /\ q.sent[Len(s) + 1] = c
        /\ \A i \in 1..Len(s) : q.sent[i] = s[i] /\ s[i] \in ToSet(s)
    BY <1>1, <1>2 DEF ToSet
  <2>3. \A i, j \in 1..Len(s) : HasChannel(s[i]) /\ s[i] = s[j] => i = j
    BY <1>2 DEF Neat, Distinct
  <2> SUFFICES ASSUME NEW i \in DOMAIN q.sent, NEW j \in DOMAIN q.sent,
                      HasChannel(q.sent[i]), q.sent[i] = q.sent[j]
               PROVE  i = j
    BY DEF Distinct
  <2>4. Len(s) \in Nat
    OBVIOUS
  <2>5. CASE i \in 1..Len(s) /\ j \in 1..Len(s)
    BY <2>2, <2>3, <2>5
  <2>6. CASE i = Len(s) + 1 /\ j \in 1..Len(s)
    BY <2>1, <2>2, <2>6
  <2>7. CASE i \in 1..Len(s) /\ j = Len(s) + 1
    BY <2>1, <2>2, <2>7
  <2> QED BY <2>2, <2>4, <2>5, <2>6, <2>7
<1>5. Accounted(q, acked) /\ acked \subseteq q.attempted
  <2>1. HasChannel(c) => c \notin acked
    BY DEF Neat, Due
  <2> QED BY <1>1, <1>2, <2>1 DEF Neat, Accounted
<1> QED BY <1>1, <1>3, <1>4, <1>5 DEF Neat

-----------------------------------------------------------------------------
(* What loading does to the windows.                                       *)

Known(p) == p.attempted \cup ToSet(p.outgoing)

\* The numbers that a channel has given out are those from 1 on, and each
\* belongs to one command.
Given(p) ==
    \A ch \in CHANNELS :
       /\ \A c \in Known(p) : c.channel = ch => c.serial > 0
       /\ \A n \in 1..p.numbers[ch] : \E c \in Known(p) : c.channel = ch /\ c.serial = n
       /\ \A c, d \in Known(p) :
             c.channel = ch /\ d.channel = ch /\ c.serial = d.serial => c = d

\* No command of a channel waits to go out again.
Fresh(p) == \A c \in ToSet(p.outgoing) : HasChannel(c) => c \notin p.attempted

\* q has sent what p has, and perhaps more.
Continues(p, q) ==
    Len(p.sent) <= Len(q.sent) /\ \A i \in 1..Len(p.sent) : q.sent[i] = p.sent[i]

LEMMA LoadOneLoads ==
    ASSUME NEW walk \in WalkRecord, NEW c \in Command
    PROVE  LET next == LoadOne(walk, c)
           IN  \/ next.pod = walk.pod /\ next.left = Append(walk.left, c)
               \/ /\ next.pod = PutOnWire(walk.pod, c) /\ next.left = walk.left
                  /\ ~Held(walk, c)
                  /\ HasChannel(c) => ~WindowWraps(walk.pod, c)
<1> DEFINE skipped == [walk EXCEPT !.left = Append(@, c)]
           wraps   == HasChannel(c) /\ (walk.wrap \/ WindowWraps(walk.pod, c))
           exceeds == /\ HasPayload(c)
                      /\ walk.exceeded \/ WindowExceeds(walk.pod, walk.limit, c)
           next    == LoadOne(walk, c)
<1>1. CASE walk.full
  <2>1. next = [walk EXCEPT !.left = Append(@, c)]
    BY <1>1 DEF LoadOne
  <2> QED BY <2>1 DEF WalkRecord
<1>2. CASE ~walk.full /\ wraps
  <2>1. next = [walk EXCEPT !.left = Append(@, c), !.wrap = TRUE]
    BY <1>2 DEF LoadOne
  <2> QED BY <2>1 DEF WalkRecord
<1>3. CASE ~walk.full /\ ~wraps /\ exceeds
  <2>1. next = [walk EXCEPT !.left = Append(@, c), !.exceeded = TRUE]
    BY <1>3 DEF LoadOne
  <2> QED BY <2>1 DEF WalkRecord
<1>4. CASE ~walk.full /\ ~wraps /\ ~exceeds /\ walk.room = 0
  <2>1. next = [walk EXCEPT !.left = Append(@, c), !.full = TRUE]
    BY <1>4 DEF LoadOne
  <2> QED BY <2>1 DEF WalkRecord
<1>5. CASE ~walk.full /\ ~wraps /\ ~exceeds /\ walk.room # 0
  <2>1. next = [walk EXCEPT !.pod = PutOnWire(@, c), !.room = @ - 1]
    BY <1>5 DEF LoadOne
  <2>2. PICK q : q = PutOnWire(walk.pod, c)
    OBVIOUS
  <2>3. next = [walk EXCEPT !.pod = q, !.room = @ - 1]
    BY <2>1, <2>2
  <2> HIDE DEF next
  <2>4. next.pod = q /\ next.left = walk.left
    BY <2>3 DEF WalkRecord
  <2>5. ~Held(walk, c) /\ (HasChannel(c) => ~WindowWraps(walk.pod, c))
    BY <1>5 DEF Held, HasPayload
  <2> QED BY <2>2, <2>4, <2>5 DEF next
<1> QED BY <1>1, <1>2, <1>3, <1>4, <1>5

\* Of the commands of a channel those that a walk has not held back went out,
\* one after the other.
LEMMA WalkDue ==
    ASSUME NEW p \in Pod, Orderly(p), WithinNumbers(p), Fresh(p), Given(p),
           NEW i \in Nat, i + 1 <= Len(p.outgoing), NEW walk, WalkInv(p, walk, i),
           NEW c \in Command, c = p.outgoing[i + 1], ~Held(walk, c),
           HasChannel(c) => ~WindowWraps(walk.pod, c)
    PROVE  Due(walk.pod, c)
<1> SUFFICES ASSUME HasChannel(c) PROVE Due(walk.pod, c)
  BY DEF Due
<1>1. /\ DOMAIN p.outgoing = 1..Len(p.outgoing) /\ Len(p.outgoing) \in Nat
      /\ \A k \in DOMAIN p.outgoing : p.outgoing[k] \in ToSet(p.outgoing)
      /\ \A k \in DOMAIN p.outgoing : p.outgoing[k] \in Command
  BY PodFields DEF ToSet
<1>2. i + 1 \in DOMAIN p.outgoing /\ \A k \in 1..i : k \in DOMAIN p.outgoing /\ k < i + 1
  BY <1>1
<1>3. c \in ToSet(p.outgoing) /\ c \in Known(p) /\ c.channel \in CHANNELS
  BY <1>1, <1>2, CommandLemma DEF Known
<1>4. c \notin p.attempted
  BY <1>3 DEF Fresh
<1>5. c.serial \in Nat /\ c.serial > 0
  BY <1>3, CommandLemma DEF Given
<1>6. p.attempted \subseteq walk.pod.attempted
  BY DEF WalkInv
<1>7. ASSUME NEW d \in walk.pod.attempted, d.channel = c.channel
      PROVE  0 < d.serial /\ d.serial < c.serial
  <2>1. CASE d \in p.attempted
    <3>1. d \in Known(p)
      BY <2>1 DEF Known
    <3> QED BY <1>3, <1>4, <1>7, <2>1, <3>1 DEF Orderly, AttemptedFirst, Given
  <2>2. CASE d \notin p.attempted
    <3>1. PICK k \in 1..i : d = p.outgoing[k]
      BY <2>2 DEF WalkInv
    <3>2. d \in Known(p)
      BY <1>1, <1>2, <3>1 DEF Known
    <3>3. d.serial < c.serial
      BY <1>2, <1>4, <1>7, <2>2, <3>1 DEF Orderly, WaitsInOrder
    <3> QED BY <1>3, <1>7, <3>2, <3>3 DEF Given
  <2> QED BY <2>1, <2>2
<1>8. c \notin walk.pod.attempted
  BY <1>5, <1>7
<1>9. ASSUME c.serial > 1
      PROVE  \E d \in walk.pod.attempted : d.channel = c.channel /\ d.serial = c.serial - 1
  <2>1. c.serial <= p.numbers[c.channel] /\ p.numbers[c.channel] \in Nat
    BY <1>3, PodFields DEF WithinNumbers, Numbered
  <2>2. c.serial - 1 \in 1..p.numbers[c.channel]
    BY <1>5, <1>9, <2>1
  <2>3. PICK e \in Known(p) : e.channel = c.channel /\ e.serial = c.serial - 1
    BY <1>3, <2>2 DEF Given
  <2>4. CASE e \in p.attempted
    BY <1>6, <2>3, <2>4
  <2>5. CASE e \notin p.attempted
    <3>1. PICK k \in DOMAIN p.outgoing : e = p.outgoing[k]
      BY <2>3, <2>5 DEF Known, ToSet
    <3>2. k # i + 1
      BY <1>5, <2>3, <3>1
    <3>3. ~(i + 1 < k)
      <4>1. SUFFICES ASSUME i + 1 < k PROVE FALSE
        OBVIOUS
      <4>2. c.serial < e.serial
        BY <1>2, <1>4, <2>3, <2>5, <3>1, <4>1 DEF Orderly, WaitsInOrder
      <4> QED BY <1>5, <2>3, <4>2
    <3>4. k \in 1..i
      BY <1>1, <3>2, <3>3
    <3>5. e \in ToSet(walk.left) \cup ToSet(walk.pod.sent)
      BY <3>1, <3>4 DEF WalkInv
    <3>6. e \notin ToSet(walk.left)
      <4>1. SUFFICES ASSUME NEW a \in DOMAIN walk.left, e = walk.left[a] PROVE FALSE
        BY DEF ToSet
      <4>2. Held(walk, e)
        BY <4>1 DEF WalkInv
      <4> QED BY <2>3, <4>2 DEF Held, HasChannel
    <3>7. e \in walk.pod.attempted
      BY <3>5, <3>6 DEF WalkInv, SentIsAttempted
    <3> QED BY <2>3, <3>7
  <2> QED BY <2>4, <2>5
<1> QED BY <1>5, <1>7, <1>8, <1>9 DEF Due

LEMMA WalkNeat ==
    ASSUME NEW p \in Pod, Orderly(p), WithinNumbers(p), Fresh(p), Given(p), NEW acked,
           NEW i \in Nat, i + 1 <= Len(p.outgoing), NEW walk, WalkInv(p, walk, i),
           Neat(walk.pod, acked)
    PROVE  Neat(LoadOne(walk, p.outgoing[i + 1]).pod, acked)
<1>1. PICK c \in Command : c = p.outgoing[i + 1]
  BY PodFields
<1>2. PICK r \in Pod : r = walk.pod /\ walk \in WalkRecord /\ SentIsAttempted(r)
  BY DEF WalkInv, WalkRecord
<1>3. PICK next : next = LoadOne(walk, c)
  OBVIOUS
<1>4. \/ next.pod = r
      \/ /\ next.pod = PutOnWire(r, c) /\ ~Held(walk, c)
         /\ HasChannel(c) => ~WindowWraps(r, c)
  BY <1>2, <1>3, LoadOneLoads
<1>5. CASE next.pod = r
  BY <1>1, <1>2, <1>3, <1>5
<1>6. CASE /\ next.pod = PutOnWire(r, c) /\ ~Held(walk, c)
           /\ HasChannel(c) => ~WindowWraps(r, c)
  <2>1. Due(r, c)
    BY <1>1, <1>2, <1>6, WalkDue
  <2>2. Neat(PutOnWire(r, c), acked)
    BY <1>2, <2>1, PutNeat
  <2> QED BY <1>1, <1>3, <1>6, <2>2
<1> QED BY <1>4, <1>5, <1>6

\* What the walk has come by is left or went out behind what was sent before.
Moves(p, walk, i) ==
    /\ Continues(p, walk.pod)
    /\ \A k \in 1..i :
          \/ p.outgoing[k] \in ToSet(walk.left)
          \/ \E j \in (Len(p.sent) + 1)..Len(walk.pod.sent) : walk.pod.sent[j] = p.outgoing[k]

LEMMA WalkMoves ==
    ASSUME NEW p \in Pod, NEW i \in Nat, i + 1 <= Len(p.outgoing), NEW walk \in WalkRecord,
           Moves(p, walk, i)
    PROVE  Moves(p, LoadOne(walk, p.outgoing[i + 1]), i + 1)
<1>1. PICK c \in Command : c = p.outgoing[i + 1]
  BY PodFields
<1>2. PICK next \in WalkRecord :
         /\ next = LoadOne(walk, c)
         /\ \/ next.pod = walk.pod /\ next.left = Append(walk.left, c)
            \/ next.left = walk.left /\ next.pod.sent = Append(walk.pod.sent, c)
  BY LoadOneEffect
<1>3. PICK s \in Seq(Command), t \in Seq(Command), l \in Seq(Command) :
         s = p.sent /\ t = walk.pod.sent /\ l = walk.left
  BY PodFields DEF WalkRecord
<1>4. /\ Len(s) \in Nat /\ Len(t) \in Nat /\ Len(s) <= Len(t)
      /\ \A k \in 1..Len(s) : t[k] = s[k]
  BY <1>3 DEF Moves, Continues
<1>5. \A k \in 1..(i + 1) : k \in 1..i \/ k = i + 1
  OBVIOUS
<1>6. CASE next.pod = walk.pod /\ next.left = Append(walk.left, c)
  <2>1. ToSet(next.left) = ToSet(l) \cup {c}
    BY <1>3, <1>6, SeqToSet
  <2>2. Moves(p, next, i + 1)
    BY <1>1, <1>3, <1>5, <1>6, <2>1 DEF Moves
  <2> QED BY <1>1, <1>2, <2>2
<1>7. CASE next.left = walk.left /\ next.pod.sent = Append(walk.pod.sent, c)
  <2>1. PICK u \in Seq(Command) : u = next.pod.sent /\ u = Append(t, c)
    <3>1. Append(t, c) \in Seq(Command)
      OBVIOUS
    <3> QED BY <1>3, <1>7, <3>1
  <2>2. Len(u) = Len(t) + 1 /\ u[Len(t) + 1] = c /\ \A k \in 1..Len(t) : u[k] = t[k]
    BY <2>1
  <2>3. Len(s) <= Len(u) /\ \A k \in 1..Len(s) : u[k] = s[k]
    BY <1>4, <2>2
  <2>4. Continues(p, next.pod)
    BY <1>3, <2>1, <2>3 DEF Continues
  <2>5. ASSUME NEW k \in 1..(i + 1)
        PROVE  \/ p.outgoing[k] \in ToSet(l)
               \/ \E j \in (Len(s) + 1)..Len(u) : u[j] = p.outgoing[k]
    <3>1. CASE k = i + 1
      <4>1. Len(t) + 1 \in (Len(s) + 1)..Len(u)
        BY <1>4, <2>2
      <4> QED BY <1>1, <2>2, <3>1, <4>1
    <3>2. CASE k \in 1..i
      <4>1. \/ p.outgoing[k] \in ToSet(l)
            \/ \E j \in (Len(s) + 1)..Len(t) : t[j] = p.outgoing[k]
        BY <1>3, <3>2 DEF Moves
      <4>2. \A j \in (Len(s) + 1)..Len(t) : j \in (Len(s) + 1)..Len(u) /\ u[j] = t[j]
        BY <1>4, <2>2
      <4> QED BY <4>1, <4>2
    <3> QED BY <1>5, <3>1, <3>2
  <2>6. Moves(p, next, i + 1)
    BY <1>3, <1>7, <2>1, <2>4, <2>5 DEF Moves
  <2> QED BY <1>1, <1>2, <2>6
<1> QED BY <1>2, <1>6, <1>7

\* A pod whose commands of a channel each go out once.
Poised(p) == Orderly(p) /\ WithinNumbers(p) /\ Fresh(p) /\ Given(p)

LEMMA WalksMove ==
    ASSUME NEW p \in Pod, SentIsAttempted(p), NEW limits \in SUBSET Int, NEW rooms \in SUBSET Int,
           NEW acked, NEW walk \in Walks(p, limits, rooms)[Len(p.outgoing)]
    PROVE  /\ WalkInv(p, walk, Len(p.outgoing)) /\ Moves(p, walk, Len(p.outgoing))
           /\ Poised(p) /\ Neat(p, acked) => Neat(walk.pod, acked)
<1>1. PICK f : /\ f = [i \in 0..Len(p.outgoing) |->
                          IF i = 0 THEN Starts(p, limits, rooms)
                          ELSE LoadNext(f[i - 1], p.outgoing[i])]
               /\ f = Walks(p, limits, rooms)
  BY WalksLemma
<1> DEFINE Step(w, n) == /\ WalkInv(p, w, n) /\ Moves(p, w, n)
                         /\ Poised(p) /\ Neat(p, acked) => Neat(w.pod, acked)
           Good == {n \in Nat : n <= Len(p.outgoing) => \A w \in f[n] : Step(w, n)}
<1>2. Len(p.outgoing) \in Nat
  BY PodFields
<1>3. 0 \in Good
  <2>1. 0 \in 0..Len(p.outgoing)
    BY <1>2
  <2>2. f[0] = Starts(p, limits, rooms)
    BY <1>1, <2>1
  <2>3. ASSUME NEW w \in Starts(p, limits, rooms) PROVE Step(w, 0)
    <3>1. WalkInv(p, w, 0) /\ w.pod = p
      BY WalkStart DEF Starts, Start
    <3>2. Continues(p, p)
      BY PodFields DEF Continues
    <3> QED BY <3>1, <3>2 DEF Moves
  <2> QED BY <2>2, <2>3
<1>4. ASSUME NEW n \in Good PROVE n + 1 \in Good
  <2> SUFFICES ASSUME n + 1 <= Len(p.outgoing), NEW v \in f[n + 1] PROVE Step(v, n + 1)
    OBVIOUS
  <2>1. n \in Nat /\ n <= Len(p.outgoing) /\ n + 1 \in 0..Len(p.outgoing) /\ (n + 1) - 1 = n
    BY <1>2
  <2>2. f[n + 1] = LoadNext(f[n], p.outgoing[n + 1])
    <3> DEFINE m == n + 1
    <3>1. m \in 0..Len(p.outgoing) /\ m # 0 /\ m - 1 = n
      BY <2>1
    <3> HIDE DEF m
    <3>2. f[m] = LoadNext(f[m - 1], p.outgoing[m])
      BY <1>1, <3>1
    <3> QED BY <3>1, <3>2 DEF m
  <2>3. PICK w \in f[n] : v = LoadOne(w, p.outgoing[n + 1])
    BY <2>2 DEF LoadNext
  <2>4. Step(w, n)
    BY <2>1
  <2>5. WalkInv(p, v, n + 1)
    BY <2>1, <2>3, <2>4, WalkStep
  <2>6. w \in WalkRecord
    BY <2>4 DEF WalkInv
  <2>7. Moves(p, v, n + 1)
    BY <2>1, <2>3, <2>4, <2>6, WalkMoves
  <2>8. ASSUME Poised(p), Neat(p, acked) PROVE Neat(v.pod, acked)
    <3>1. Neat(w.pod, acked)
      BY <2>4, <2>8
    <3> QED BY <2>1, <2>3, <2>4, <2>8, <3>1, WalkNeat DEF Poised
  <2> QED BY <2>5, <2>7, <2>8
<1>5. Nat \subseteq Good
  <2> HIDE DEF Good
  <2> QED BY <1>3, <1>4, NatSetInduction
<1>6. Len(p.outgoing) \in Good
  <2> HIDE DEF Good
  <2> QED BY <1>2, <1>5
<1>7. walk \in f[Len(p.outgoing)]
  BY <1>1
<1> QED BY <1>6, <1>7

\* A command of a channel is in the lists twice.
Doubled(p) ==
    \E i \in DOMAIN p.sent :
       /\ HasChannel(p.sent[i])
       /\ \/ p.sent[i] \in ToSet(p.outgoing)
          \/ \E j \in DOMAIN p.sent : j # i /\ p.sent[j] = p.sent[i]

\* Loading keeps a pod ready and neat; and it keeps a command that is there
\* twice.
LEMMA LoadNeat ==
    ASSUME NEW p, Sound(p), NEW limits \in SUBSET Int, NEW rooms \in SUBSET Int,
           NEW acked, NEW q \in LoadReliableCommands(p, limits, rooms)
    PROVE  /\ Continues(p, q) /\ Known(q) = Known(p) /\ q.numbers = p.numbers
           /\ Poised(p) /\ Neat(p, acked) => Poised(q) /\ Neat(q, acked)
           /\ Doubled(p) => Doubled(q)
<1> DEFINE n == Len(p.outgoing)
<1>0. p \in Pod /\ Orderly(p) /\ WithinNumbers(p) /\ SentIsAttempted(p)
  BY DEF Sound, Orderly
<1>1. PICK walk \in Walks(p, limits, rooms)[n] : q = [walk.pod EXCEPT !.outgoing = walk.left]
  BY DEF LoadReliableCommands
<1>2. /\ WalkInv(p, walk, n) /\ Moves(p, walk, n)
      /\ Poised(p) /\ Neat(p, acked) => Neat(walk.pod, acked)
  BY <1>0, WalksMove
<1>3. walk.pod \in Pod /\ walk.left \in Seq(Command)
  BY <1>2 DEF WalkInv, WalkRecord
<1>4. PICK r \in Pod : r = walk.pod
  BY <1>3
<1>5. q = [r EXCEPT !.outgoing = walk.left]
  BY <1>1, <1>4
<1>6. /\ q \in Pod /\ q.numbers = r.numbers /\ q.outgoing = walk.left /\ q.sent = r.sent
      /\ q.attempted = r.attempted /\ q.windows = r.windows /\ q.used = r.used
  BY <1>3, <1>5 DEF Pod
<1>7. /\ p.outgoing \in Seq(Command) /\ n \in Nat /\ DOMAIN p.outgoing = 1..n
      /\ ToSet(p.outgoing) = {p.outgoing[k] : k \in 1..n}
      /\ \A k \in 1..n : p.outgoing[k] \in ToSet(p.outgoing) /\ p.outgoing[k] \in Command
  <2>1. PICK o \in Seq(Command) : o = p.outgoing
    BY <1>0, PodFields
  <2> QED BY <2>1 DEF ToSet
<1>8. Continues(p, q)
  BY <1>2, <1>4, <1>6 DEF Moves, Continues
<1>9. /\ Orderly(q) /\ q.numbers = p.numbers /\ WithinNumbers(q)
      /\ p.attempted \subseteq q.attempted
      /\ ToSet(q.outgoing) \cup ToSet(q.sent) = ToSet(p.outgoing) \cup ToSet(p.sent)
  BY <1>0, LoadEffect
<1>10. Known(q) = Known(p)
  <2>1. q.attempted \subseteq p.attempted \cup ToSet(p.outgoing)
    BY <1>2, <1>4, <1>6, <1>7 DEF WalkInv
  <2>2. ToSet(q.outgoing) \subseteq ToSet(p.outgoing)
    BY <1>2, <1>6, <1>7 DEF WalkInv, ToSet
  <2>3. ToSet(p.outgoing) \subseteq ToSet(q.outgoing) \cup q.attempted
    BY <1>9 DEF Orderly, SentIsAttempted
  <2> QED BY <1>9, <2>1, <2>2, <2>3 DEF Known
<1>11. ASSUME Poised(p), Neat(p, acked) PROVE Poised(q) /\ Neat(q, acked)
  <2>1. Neat(q, acked)
    <3>1. Neat(r, acked)
      BY <1>2, <1>4, <1>11
    <3> QED BY <1>6, <3>1 DEF Neat, Counted, Near, Distinct, Accounted
  <2>2. Given(q)
    BY <1>9, <1>10, <1>11 DEF Poised, Given
  <2>3. Fresh(q)
    <3> SUFFICES ASSUME NEW a \in DOMAIN walk.left, HasChannel(walk.left[a]),
                        walk.left[a] \in q.attempted
                 PROVE  FALSE
      BY <1>6 DEF Fresh, ToSet
    <3>1. PICK c : c = walk.left[a]
      OBVIOUS
    <3>2. c \in ToSet(p.outgoing)
      BY <1>2, <1>7, <3>1 DEF WalkInv
    <3>3. c \notin p.attempted
      BY <1>11, <3>1, <3>2 DEF Poised, Fresh
    <3>4. PICK k \in 1..n, l \in 1..n : k < l /\ c = p.outgoing[k] /\ c = p.outgoing[l]
      BY <1>2, <1>4, <1>6, <3>1, <3>3 DEF WalkInv
    <3>5. c.serial < c.serial /\ c \in Command
      BY <1>0, <1>7, <3>3, <3>4 DEF Orderly, WaitsInOrder
    <3>6. c.serial \in Nat
      BY <3>5, CommandLemma
    <3> QED BY <3>5, <3>6
  <2> QED BY <1>9, <2>1, <2>2, <2>3 DEF Poised
<1>12. ASSUME Doubled(p) PROVE Doubled(q)
  <2>1. PICK s \in Seq(Command), t \in Seq(Command) : s = p.sent /\ t = q.sent
    BY <1>0, <1>6, PodFields
  <2>2. /\ Len(s) \in Nat /\ Len(t) \in Nat /\ Len(s) <= Len(t)
        /\ \A k \in 1..Len(s) : t[k] = s[k]
    BY <1>8, <2>1 DEF Continues
  <2>3. DOMAIN s = 1..Len(s) /\ DOMAIN t = 1..Len(t)
    OBVIOUS
  <2>4. PICK i \in 1..Len(s) :
           /\ HasChannel(s[i])
           /\ s[i] \in ToSet(p.outgoing) \/ \E j \in 1..Len(s) : j # i /\ s[j] = s[i]
    BY <1>12, <2>1, <2>3 DEF Doubled
  <2>5. i \in 1..Len(t) /\ t[i] = s[i] /\ i <= Len(s)
    BY <2>2
  <2>6. CASE \E j \in 1..Len(s) : j # i /\ s[j] = s[i]
    <3>1. PICK j \in 1..Len(s) : j # i /\ s[j] = s[i]
      BY <2>6
    <3>2. j \in 1..Len(t) /\ t[j] = t[i]
      BY <2>2, <2>5, <3>1
    <3> QED BY <2>1, <2>3, <2>4, <2>5, <3>1, <3>2 DEF Doubled
  <2>7. CASE s[i] \in ToSet(p.outgoing)
    <3>1. PICK k \in 1..n : s[i] = p.outgoing[k]
      BY <1>7, <2>7
    <3>2. \/ s[i] \in ToSet(walk.left)
          \/ \E j \in (Len(s) + 1)..Len(t) : t[j] = s[i]
      BY <1>2, <1>4, <1>6, <2>1, <3>1 DEF Moves
    <3>3. CASE s[i] \in ToSet(walk.left)
      BY <1>6, <2>1, <2>3, <2>4, <2>5, <3>3 DEF Doubled
    <3>4. CASE \E j \in (Len(s) + 1)..Len(t) : t[j] = s[i]
      <4>1. PICK j \in (Len(s) + 1)..Len(t) : t[j] = s[i]
        BY <3>4
      <4>2. j \in 1..Len(t) /\ j # i
        BY <2>2, <2>5, <4>1
      <4> QED BY <2>1, <2>3, <2>4, <2>5, <4>1, <4>2 DEF Doubled
    <3> QED BY <3>2, <3>3, <3>4
  <2> QED BY <2>4, <2>6, <2>7
<1> QED BY <1>8, <1>9, <1>10, <1>11, <1>12

\* What is queued once the expired copies are in front.
LEMMA TimeoutQueues ==
    ASSUME NEW p \in Pod, Orderly(p), NEW expired
    PROVE  LET q == Timeout(p, expired)
           IN  ToSet(q.outgoing) =
                  ToSet(p.outgoing) \cup {p.sent[i] : i \in expired \cap (1..Len(p.sent))}
<1>1. PICK f : /\ f = [i \in 0..Len(p.sent) |->
                          IF i = 0 THEN p
                          ELSE IF i \in expired THEN Expire(f[i - 1], p.sent[i])
                          ELSE f[i - 1]]
               /\ f = Expirations(p, expired)
  BY ExpirationsLemma
<1> DEFINE Put(n) == {p.sent[i] : i \in expired \cap (1..n)}
           Good == {n \in Nat : n <= Len(p.sent) =>
                                   /\ Requeued(p, f[n])
                                   /\ ToSet(f[n].outgoing) = ToSet(p.outgoing) \cup Put(n)}
<1>2. Len(p.sent) \in Nat /\ DOMAIN p.sent = 1..Len(p.sent)
  BY PodFields
<1>3. 0 \in Good
  <2>1. 0 \in 0..Len(p.sent)
    BY <1>2
  <2>2. f[0] = p
    BY <1>1, <2>1
  <2>3. Put(0) = {}
    OBVIOUS
  <2> QED BY <2>2, <2>3 DEF Requeued
<1>4. ASSUME NEW n \in Good PROVE n + 1 \in Good
  <2> SUFFICES ASSUME n + 1 <= Len(p.sent)
               PROVE  /\ Requeued(p, f[n + 1])
                      /\ ToSet(f[n + 1].outgoing) = ToSet(p.outgoing) \cup Put(n + 1)
    OBVIOUS
  <2> DEFINE m == n + 1
  <2>1. m \in 0..Len(p.sent) /\ m # 0 /\ m - 1 = n /\ m \in DOMAIN p.sent /\ n <= Len(p.sent)
    BY <1>2
  <2>2. Requeued(p, f[n]) /\ ToSet(f[n].outgoing) = ToSet(p.outgoing) \cup Put(n)
    BY <2>1
  <2>3. Put(m) = IF m \in expired THEN Put(n) \cup {p.sent[m]} ELSE Put(n)
    <3>1. expired \cap (1..m) = IF m \in expired THEN (expired \cap (1..n)) \cup {m}
                                                 ELSE expired \cap (1..n)
      OBVIOUS
    <3> HIDE DEF m
    <3> QED BY <3>1
  <2> HIDE DEF m
  <2>4. f[m] = IF m \in expired THEN Expire(f[m - 1], p.sent[m]) ELSE f[m - 1]
    BY <1>1, <2>1
  <2>5. p.sent[m] \in ToSet(p.sent)
    BY <2>1 DEF ToSet
  <2>6. Requeued(p, f[m])
    BY <2>1, <2>2, <2>4, <2>5, ExpireEffect
  <2>7. ToSet(f[m].outgoing) = ToSet(p.outgoing) \cup Put(m)
    <3>1. CASE m \in expired
      <4>1. PICK q \in Pod, c \in Command : q = f[n] /\ c = p.sent[m]
        BY <2>1, <2>2, PodFields DEF Requeued
      <4>2. PICK o \in Seq(Command) : o = q.outgoing
        BY PodFields
      <4>3. PICK t : t = Minus(q.transit, c.length)
        OBVIOUS
      <4>4. PICK s : s = <<c>> \o o /\ ToSet(s) = ToSet(o) \cup {c}
        BY PrependLemma
      <4>5. f[m] = Expire(q, c)
        BY <2>1, <2>4, <3>1, <4>1
      <4>6. f[m] = [q EXCEPT !.outgoing = s, !.transit = t]
        BY <4>2, <4>3, <4>4, <4>5 DEF Expire
      <4>7. f[m].outgoing = s
        BY <4>6 DEF Pod
      <4> QED BY <2>2, <2>3, <3>1, <4>1, <4>2, <4>4, <4>7
    <3>2. CASE m \notin expired
      BY <2>1, <2>2, <2>3, <2>4, <3>2
    <3> QED BY <3>1, <3>2
  <2> QED BY <2>6, <2>7 DEF m
<1>5. Nat \subseteq Good
  <2> HIDE DEF Good
  <2> QED BY <1>3, <1>4, NatSetInduction
<1>6. Len(p.sent) \in Good
  <2> HIDE DEF Good
  <2> QED BY <1>2, <1>5
<1>7. Timeout(p, expired) = f[Len(p.sent)]
  BY <1>1 DEF Timeout
<1>8. ToSet(f[Len(p.sent)].outgoing) = ToSet(p.outgoing) \cup Put(Len(p.sent))
  <2>1. \A n \in Good : n <= Len(p.sent) => ToSet(f[n].outgoing) = ToSet(p.outgoing) \cup Put(n)
    OBVIOUS
  <2> HIDE DEF Good, Put
  <2> QED BY <1>2, <1>6, <2>1
<1> QED BY <1>7, <1>8

\* No copy of a channel's command is among the expired ones.
Quiet(p, expired) == \A i \in expired \cap DOMAIN p.sent : ~HasChannel(p.sent[i])

LEMMA TimeoutNeat ==
    ASSUME NEW p, Sound(p), NEW expired, NEW acked
    PROVE  LET q == Timeout(p, expired)
           IN  /\ q.sent = p.sent /\ Known(q) = Known(p)
               /\ Quiet(p, expired) /\ Poised(p) /\ Neat(p, acked) => Poised(q) /\ Neat(q, acked)
               /\ Quiet(p, expired) \/ Doubled(q)
<1>1. PICK q : q = Timeout(p, expired) /\ Requeued(p, q)
  BY TimeoutEffect DEF Sound
<1>2. PICK s \in Seq(Command) : s = p.sent /\ DOMAIN s = 1..Len(s)
  BY PodFields DEF Sound
<1>3. ToSet(q.outgoing) = ToSet(p.outgoing) \cup {s[i] : i \in expired \cap DOMAIN s}
  <2>1. ToSet(q.outgoing) =
           ToSet(p.outgoing) \cup {p.sent[i] : i \in expired \cap (1..Len(p.sent))}
    BY <1>1, TimeoutQueues DEF Sound
  <2>2. {p.sent[i] : i \in expired \cap (1..Len(p.sent))} = {s[i] : i \in expired \cap DOMAIN s}
    BY <1>2
  <2> QED BY <2>1, <2>2
<1>4. /\ q.numbers = p.numbers /\ q.sent = s /\ q.attempted = p.attempted
      /\ q.windows = p.windows /\ q.used = p.used
  BY <1>1, <1>2 DEF Requeued
<1>5. \A i \in DOMAIN s : s[i] \in p.attempted
  BY <1>2 DEF Sound, Orderly, SentIsAttempted, ToSet
<1>6. Known(q) = Known(p)
  BY <1>3, <1>4, <1>5 DEF Known
<1>7. ASSUME Quiet(p, expired), Poised(p), Neat(p, acked) PROVE Poised(q) /\ Neat(q, acked)
  <2>1. Neat(q, acked)
    BY <1>2, <1>4, <1>7 DEF Neat, Counted, Near, Distinct, Accounted
  <2>2. Given(q)
    BY <1>4, <1>6, <1>7 DEF Poised, Given
  <2>3. Fresh(q)
    BY <1>2, <1>3, <1>4, <1>7 DEF Poised, Fresh, Quiet
  <2>4. Orderly(q) /\ WithinNumbers(q)
    BY <1>1, TimeoutKeeps DEF Sound
  <2> QED BY <2>1, <2>2, <2>3, <2>4 DEF Poised
<1>8. ASSUME ~Quiet(p, expired) PROVE Doubled(q)
  <2>1. PICK i \in expired \cap DOMAIN s : HasChannel(s[i])
    BY <1>2, <1>8 DEF Quiet
  <2>2. s[i] \in ToSet(q.outgoing)
    BY <1>3, <2>1
  <2> QED BY <1>4, <2>1, <2>2 DEF Doubled
<1> QED BY <1>1, <1>2, <1>4, <1>6, <1>7, <1>8

LEMMA PingNeat ==
    ASSUME NEW p, Sound(p), NEW acked
    PROVE  LET q == Ping(p)
           IN  /\ q.sent = p.sent
               /\ \A c \in Known(q) : HasChannel(c) => c \in Known(p)
               /\ Poised(p) /\ Neat(p, acked) => Poised(q) /\ Neat(q, acked)
               /\ Doubled(p) => Doubled(q)
<1>1. CASE Ping(p) = p
  BY <1>1
<1>2. CASE Ping(p) = SetupOutgoingCommand(p, NO_CHANNEL, 0)
  <2>0. PICK z \in Seq(Nat) : z = <<0>>
    <3>1. <<0>> \in Seq(Nat)
      OBVIOUS
    <3> QED BY <3>1
  <2>1. NO_CHANNEL \in Numbered /\ p \in Pod /\ Orderly(p) /\ WithinNumbers(p)
    BY DEF Numbered, Sound
  <2>2. Ping(p) = QueueMessage(p, NO_CHANNEL, z)
    <3>1. SetupOutgoingCommand(p, NO_CHANNEL, 0) = QueueMessage(p, NO_CHANNEL, <<0>>)
      BY <2>1, SetupIsQueue
    <3> QED BY <1>2, <2>0, <3>1
  <2>3. PICK f \in Seq(Command) :
           /\ f = Fragments(p, NO_CHANNEL, z)
           /\ Len(f) = Len(z) /\ \A j \in 1..Len(z) : f[j].channel = NO_CHANNEL
    BY <2>1, FragmentsLemma
  <2>4. PICK q : q = QueueMessage(p, NO_CHANNEL, z)
    OBVIOUS
  <2>5. /\ q \in Pod /\ Orderly(q) /\ WithinNumbers(q)
        /\ q.numbers = [p.numbers EXCEPT ![NO_CHANNEL] = @ + Len(z)]
        /\ q.sent = p.sent /\ q.attempted = p.attempted
        /\ q.windows = p.windows /\ q.used = p.used
        /\ q.outgoing = p.outgoing \o f
    BY <2>1, <2>3, <2>4, QueueEffect
  <2>6. p.numbers \in [Numbered -> Nat] /\ p.outgoing \in Seq(Command)
    BY PodFields DEF Sound
  <2>7. \A ch \in CHANNELS : q.numbers[ch] = p.numbers[ch]
    BY <2>5, <2>6, PodAssumption DEF Numbered
  <2>8. ToSet(q.outgoing) = ToSet(p.outgoing) \cup ToSet(f)
    BY <2>3, <2>5, <2>6, SeqToSet
  <2>9. ASSUME NEW c \in ToSet(f) PROVE ~HasChannel(c)
    <3>1. PICK i \in DOMAIN f : c = f[i]
      BY <2>9 DEF ToSet
    <3>2. i \in 1..Len(z)
      BY <2>3
    <3> QED BY <2>3, <3>1, <3>2 DEF HasChannel
  <2>10. /\ \A c \in Known(q) : HasChannel(c) => c \in Known(p)
         /\ Known(p) \subseteq Known(q)
    BY <2>5, <2>8, <2>9 DEF Known
  <2>11. ASSUME Poised(p), Neat(p, acked) PROVE Poised(q) /\ Neat(q, acked)
    <3>1. Neat(q, acked)
      BY <2>5, <2>11 DEF Neat, Counted, Near, Distinct, Accounted
    <3>2. \A ch \in CHANNELS, c \in Known(q) : c.channel = ch => c \in Known(p)
      BY <2>10, PodAssumption DEF HasChannel
    <3>3. Given(q)
      BY <2>7, <2>10, <2>11, <3>2 DEF Poised, Given
    <3>4. Fresh(q)
      BY <2>5, <2>8, <2>9, <2>11 DEF Poised, Fresh
    <3> QED BY <2>5, <3>1, <3>3, <3>4 DEF Poised
  <2>12. Doubled(p) => Doubled(q)
    BY <2>5, <2>8 DEF Doubled
  <2> QED BY <2>2, <2>4, <2>5, <2>10, <2>11, <2>12
<1> QED BY <1>1, <1>2 DEF Ping

LEMMA ContinuesTransitive ==
    ASSUME NEW p \in Pod, NEW q \in Pod, NEW r \in Pod, Continues(p, q), Continues(q, r)
    PROVE  Continues(p, r)
<1>1. PICK s \in Seq(Command), t \in Seq(Command), u \in Seq(Command) :
         s = p.sent /\ t = q.sent /\ u = r.sent
  BY PodFields
<1>2. /\ Len(s) <= Len(t) /\ \A i \in 1..Len(s) : t[i] = s[i]
      /\ Len(t) <= Len(u) /\ \A i \in 1..Len(t) : u[i] = t[i]
  BY <1>1 DEF Continues
<1>3. Len(s) <= Len(u) /\ \A i \in 1..Len(s) : u[i] = s[i]
  BY <1>2
<1> QED BY <1>1, <1>3 DEF Continues

\* A datagram goes out: what is neat stays so if no command of a channel is
\* put back, and if one is it is there twice.
LEMMA PollNeat ==
    ASSUME Inv, NEW expired, SendOutgoingCommands(expired, ROOMS)
    PROVE  /\ Quiet(pod, expired) \/ Doubled(pod')
           /\ \A c \in Known(pod') : HasChannel(c) => c \in Known(pod)
           /\ Quiet(pod, expired) /\ Poised(pod) /\ Neat(pod, acknowledged)
                 => Poised(pod') /\ Neat(pod', acknowledged)
           /\ Continues(pod, pod')
           /\ under_way' = Transmitted(SubSeq(pod'.sent, Len(pod.sent) + 1, Len(pod'.sent)))
           /\ UNCHANGED <<state, acknowledged>>
<1> DEFINE A == acknowledged
<1>1. PICK timed : timed = Timeout(pod, expired)
  OBVIOUS
<1>2. PICK loaded, after :
         /\ loaded \in LoadReliableCommands(timed, IN_TRANSIT_LIMITS, ROOMS)
         /\ \/ after = loaded
            \/ after \in LoadReliableCommands(Ping(loaded), IN_TRANSIT_LIMITS, ROOMS)
         /\ pod' = after
         /\ under_way' = Transmitted(Loaded(timed, after))
  BY <1>1 DEF SendOutgoingCommands
<1>3. state # "DISCONNECTED" /\ UNCHANGED <<state, acknowledged>>
  BY DEF SendOutgoingCommands
<1>4. Sound(pod)
  BY <1>3 DEF Inv, Typed, Sound
<1>5. /\ Sound(timed) /\ timed.sent = pod.sent /\ Known(timed) = Known(pod)
      /\ Quiet(pod, expired) /\ Poised(pod) /\ Neat(pod, A) => Poised(timed) /\ Neat(timed, A)
      /\ Quiet(pod, expired) \/ Doubled(timed)
  BY <1>1, <1>4, TimeoutKeeps, TimeoutNeat
<1>6. /\ Sound(loaded) /\ Continues(timed, loaded) /\ Known(loaded) = Known(timed)
      /\ Poised(timed) /\ Neat(timed, A) => Poised(loaded) /\ Neat(loaded, A)
      /\ Doubled(timed) => Doubled(loaded)
  BY <1>2, <1>5, LoadKeeps, LoadNeat, SenderConstants
<1>7. PICK pinged : pinged = Ping(loaded)
  OBVIOUS
<1>8. /\ Sound(pinged) /\ pinged.sent = loaded.sent
      /\ \A c \in Known(pinged) : HasChannel(c) => c \in Known(loaded)
      /\ Poised(loaded) /\ Neat(loaded, A) => Poised(pinged) /\ Neat(pinged, A)
      /\ Doubled(loaded) => Doubled(pinged)
  BY <1>6, <1>7, PingKeeps, PingNeat
<1>9. /\ Sound(after) /\ Continues(loaded, after)
      /\ \A c \in Known(after) : HasChannel(c) => c \in Known(loaded)
      /\ Poised(loaded) /\ Neat(loaded, A) => Poised(after) /\ Neat(after, A)
      /\ Doubled(loaded) => Doubled(after)
  <2>1. CASE after = loaded
    <3>1. loaded.sent \in Seq(Command)
      BY <1>6, PodFields DEF Sound
    <3>2. Continues(loaded, loaded)
      BY <3>1 DEF Continues
    <3> QED BY <1>6, <2>1, <3>2
  <2>2. CASE after \in LoadReliableCommands(pinged, IN_TRANSIT_LIMITS, ROOMS)
    <3>1. /\ Sound(after) /\ Continues(pinged, after) /\ Known(after) = Known(pinged)
          /\ Poised(pinged) /\ Neat(pinged, A) => Poised(after) /\ Neat(after, A)
          /\ Doubled(pinged) => Doubled(after)
      BY <1>8, <2>2, LoadKeeps, LoadNeat, SenderConstants
    <3>2. Continues(loaded, after)
      BY <1>8, <3>1 DEF Continues
    <3> QED BY <1>8, <3>1, <3>2
  <2> QED BY <1>2, <1>7, <2>1, <2>2
<1>10. Continues(pod, after)
  <2>1. Continues(pod, loaded)
    BY <1>5, <1>6 DEF Continues
  <2> QED BY <1>4, <1>6, <1>9, <2>1, ContinuesTransitive DEF Sound
<1>11. Loaded(timed, after) = SubSeq(after.sent, Len(pod.sent) + 1, Len(after.sent))
  BY <1>5 DEF Loaded
<1> QED BY <1>2, <1>3, <1>5, <1>6, <1>9, <1>10, <1>11

\* How often a sequence holds a command.
Times(s, c) == Cardinality({i \in DOMAIN s : s[i] = c})

\* How often a command that the sent list holds once is among the new ones.
LEMMA CopiesOnce ==
    ASSUME NEW p \in Pod, NEW q \in Pod, Continues(p, q), Distinct(q), NEW c, HasChannel(c)
    PROVE  /\ Times(Loaded(p, q), c) = IF c \in ToSet(q.sent) \ ToSet(p.sent) THEN 1 ELSE 0
           /\ c \in ToSet(Loaded(p, q)) <=> c \in ToSet(q.sent) \ ToSet(p.sent)
<1>1. PICK s \in Seq(Command), t \in Seq(Command) : s = p.sent /\ t = q.sent
  BY PodFields
<1>2. PICK copies : copies = Loaded(p, q) /\ copies = SubSeq(t, Len(s) + 1, Len(t))
  BY <1>1 DEF Loaded
<1>3. Len(s) <= Len(t) /\ \A i \in 1..Len(s) : t[i] = s[i]
  BY <1>1 DEF Continues
<1>4. \A i, j \in DOMAIN t : t[i] = c /\ t[j] = c => i = j
  BY <1>1 DEF Distinct
<1> DEFINE S == {i \in DOMAIN copies : copies[i] = c}
<1>5. Times(copies, c) = Cardinality(S)
  BY DEF Times
<1>6. PICK k \in Nat, n \in Nat : k = Len(s) /\ n = Len(t) /\ k <= n
  BY <1>3
<1>7. /\ DOMAIN copies = 1..(n - k) /\ DOMAIN s = 1..k /\ DOMAIN t = 1..n
      /\ \A i \in 1..(n - k) : copies[i] = t[k + i]
  BY <1>2, <1>6
<1>8. CASE c \in ToSet(t) \ ToSet(s)
  <2>1. PICK j \in 1..n : t[j] = c
    BY <1>7, <1>8 DEF ToSet
  <2>2. j > k
    <3>1. SUFFICES ASSUME j <= k PROVE FALSE
      BY <1>6
    <3>2. j \in 1..k /\ s[j] = c
      BY <1>3, <1>6, <2>1, <3>1
    <3> QED BY <1>7, <1>8, <3>2 DEF ToSet
  <2>3. j - k \in 1..(n - k) /\ k + (j - k) = j
    BY <1>6, <2>2
  <2>4. copies[j - k] = c
    BY <1>7, <2>1, <2>3
  <2>5. \A i \in S : i = j - k
    <3> SUFFICES ASSUME NEW i \in S PROVE i = j - k
      OBVIOUS
    <3>1. i \in 1..(n - k) /\ t[k + i] = c /\ k + i \in 1..n
      <4>1. i \in 1..(n - k) /\ copies[i] = c
        BY <1>7
      <4>2. k + i \in 1..n
        BY <1>6, <4>1
      <4> QED BY <1>7, <4>1, <4>2
    <3>2. k + i = j
      BY <1>4, <1>7, <2>1, <3>1
    <3> QED BY <1>6, <3>1, <3>2
  <2>6. S = {j - k}
    BY <1>7, <2>3, <2>4, <2>5
  <2>7. Cardinality(S) = 1
    BY <2>6, FS_Singleton
  <2>8. c \in ToSet(copies)
    BY <1>7, <2>3, <2>4 DEF ToSet
  <2> QED BY <1>1, <1>2, <1>5, <1>8, <2>7, <2>8
<1>9. CASE c \notin ToSet(t) \ ToSet(s)
  <2>1. ASSUME NEW i \in S PROVE FALSE
    <3>1. i \in 1..(n - k) /\ t[k + i] = c /\ k + i \in 1..n
      <4>1. i \in 1..(n - k) /\ copies[i] = c
        BY <1>7
      <4>2. k + i \in 1..n
        BY <1>6, <4>1
      <4> QED BY <1>7, <4>1, <4>2
    <3>2. c \in ToSet(t)
      BY <1>7, <3>1 DEF ToSet
    <3>3. PICK j \in 1..k : s[j] = c
      BY <1>7, <1>9, <3>2 DEF ToSet
    <3>4. j \in 1..n /\ t[j] = c
      BY <1>3, <1>6, <3>3
    <3>5. k + i = j
      BY <1>4, <1>7, <3>1, <3>4
    <3> QED BY <1>6, <3>1, <3>5
  <2>2. S = {}
    BY <2>1
  <2>3. Cardinality(S) = 0
    BY <2>2, FS_EmptySet
  <2>4. c \notin ToSet(copies)
    BY <2>2 DEF ToSet
  <2> QED BY <1>1, <1>2, <1>5, <1>9, <2>3, <2>4
<1> QED BY <1>8, <1>9

LEMMA UncountWindows ==
    ASSUME NEW p \in Pod, NEW c \in Command, HasChannel(c),
           p.windows[c.channel][Window(Rsn(c))] > 0
    PROVE  LET q == UncountInWindow(p, c)
           IN  \A ch \in CHANNELS :
                 /\ \A w \in Windows :
                       q.windows[ch][w] = p.windows[ch][w]
                          - (IF c.channel = ch /\ Window(Rsn(c)) = w THEN 1 ELSE 0)
                 /\ q.used[ch] = IF ch = c.channel /\ p.windows[ch][Window(Rsn(c))] = 1
                                 THEN p.used[ch] \ {Window(Rsn(c))} ELSE p.used[ch]
<1>1. PICK v \in Windows, d \in CHANNELS : v = Window(Rsn(c)) /\ d = c.channel
  BY CommandLemma
<1>2. PICK q : q = UncountInWindow(p, c)
  OBVIOUS
<1>6. PICK W \in [CHANNELS -> [Windows -> Nat]], U \in [CHANNELS -> SUBSET Windows] :
         W = p.windows /\ U = p.used
  BY PodFields
<1>9. PICK n \in Nat : n = W[d][v] - 1 /\ W[d][v] = n + 1
  <2>1. W[d][v] \in Nat /\ W[d][v] > 0
    BY <1>1, <1>6
  <2>2. W[d][v] - 1 \in Nat /\ W[d][v] = (W[d][v] - 1) + 1
    BY <2>1
  <2> QED BY <2>2
<1>3. q = [p EXCEPT !.windows[d][v] = p.windows[d][v] - 1,
                    !.used[d] = IF p.windows[d][v] = 1 THEN @ \ {v} ELSE @]
  BY <1>1, <1>2 DEF UncountInWindow
<1> DEFINE X == [W EXCEPT ![d] = [@ EXCEPT ![v] = n]]
           Y == [U EXCEPT ![d] = IF W[d][v] = 1 THEN @ \ {v} ELSE @]
<1>4. q = [p EXCEPT !.windows = X, !.used = Y]
  <2>1. q = [p EXCEPT !.windows = [p.windows EXCEPT ![d] = [@ EXCEPT ![v] = p.windows[d][v] - 1]],
                      !.used = [p.used EXCEPT ![d] = IF p.windows[d][v] = 1 THEN @ \ {v} ELSE @]]
    BY <1>3
  <2> QED BY <1>6, <1>9, <2>1
<1>10. X \in [CHANNELS -> [Windows -> Nat]] /\ Y \in [CHANNELS -> SUBSET Windows]
  BY <1>6, <1>9
<1>5. q.windows = X /\ q.used = Y
  <2> HIDE DEF X, Y
  <2> QED BY <1>4, <1>10 DEF Pod
<1>7. ASSUME NEW ch \in CHANNELS, NEW w \in Windows
      PROVE  q.windows[ch][w] = W[ch][w] - (IF d = ch /\ v = w THEN 1 ELSE 0)
  <2>1. W[ch] \in [Windows -> Nat] /\ W[ch][w] \in Nat
    BY <1>6
  <2>2. CASE ch = d
    <3>1. X[ch] = [W[ch] EXCEPT ![v] = n]
      BY <1>6, <2>2
    <3>2. X[ch][w] = IF w = v THEN n ELSE W[ch][w]
      BY <2>1, <3>1
    <3> QED BY <1>5, <1>9, <2>1, <2>2, <3>2
  <2>3. CASE ch # d
    <3>1. X[ch] = W[ch]
      BY <1>6, <2>3
    <3> QED BY <1>5, <2>1, <2>3, <3>1
  <2> QED BY <2>2, <2>3
<1>8. ASSUME NEW ch \in CHANNELS
      PROVE  q.used[ch] = IF ch = d /\ W[ch][v] = 1 THEN U[ch] \ {v} ELSE U[ch]
  BY <1>5, <1>6
<1> QED BY <1>1, <1>2, <1>6, <1>7, <1>8

LEMMA RemoveWindows ==
    ASSUME NEW p \in Pod, NEW k \in DOMAIN p.sent
    PROVE  LET q == RemoveSentReliableCommand(p, k)
               r == UncountInWindow(p, p.sent[k])
           IN  q.windows = r.windows /\ q.used = r.used
<1>1. PICK c \in Command : c = p.sent[k]
  BY DEF Pod
<1>2. PICK r \in Pod : r = UncountInWindow(p, c)
  BY UncountEffect
<1>3. PICK s, t : s = RemoveAt(r.sent, k) /\ t = Minus(r.transit, c.length)
  OBVIOUS
<1>4. RemoveSentReliableCommand(p, k) = [r EXCEPT !.transit = t, !.sent = s]
  BY <1>1, <1>2, <1>3 DEF RemoveSentReliableCommand
<1> QED BY <1>1, <1>2, <1>4 DEF Pod

\* A list without the only entry of a command.
LEMMA RemoveOnly ==
    ASSUME NEW s \in Seq(Command), NEW k \in DOMAIN s,
           \A i, j \in DOMAIN s : HasChannel(s[i]) /\ s[i] = s[j] => i = j
    PROVE  /\ \A i, j \in DOMAIN RemoveAt(s, k) :
                 HasChannel(RemoveAt(s, k)[i]) /\ RemoveAt(s, k)[i] = RemoveAt(s, k)[j] => i = j
           /\ HasChannel(s[k]) => ToSet(RemoveAt(s, k)) = ToSet(s) \ {s[k]}
<1>1. PICK t : t = RemoveAt(s, k)
  OBVIOUS
<1>2. /\ t \in Seq(Command) /\ Len(t) = Len(s) - 1 /\ ToSet(t) \subseteq ToSet(s)
      /\ ToSet(s) \subseteq ToSet(t) \cup {s[k]}
      /\ \A i \in 1..(Len(s) - 1) : t[i] = IF i < k THEN s[i] ELSE s[i + 1]
  BY <1>1, RemoveAtLemma
<1>3. PICK n \in Nat : n = Len(s) /\ DOMAIN s = 1..n /\ k \in 1..n /\ DOMAIN t = 1..(n - 1)
  BY <1>2
<1>4. \A i \in 1..(n - 1) : \E a \in 1..n : t[i] = s[a] /\ a = (IF i < k THEN i ELSE i + 1)
  BY <1>2, <1>3
<1>5. ASSUME NEW i \in 1..(n - 1), NEW j \in 1..(n - 1), HasChannel(t[i]), t[i] = t[j]
      PROVE  i = j
  <2>1. PICK a \in 1..n : t[i] = s[a] /\ a = (IF i < k THEN i ELSE i + 1)
    BY <1>4
  <2>2. PICK b \in 1..n : t[j] = s[b] /\ b = (IF j < k THEN j ELSE j + 1)
    BY <1>4
  <2>3. a = b
    BY <1>3, <1>5, <2>1, <2>2
  <2> QED BY <1>3, <2>1, <2>2, <2>3
<1>6. ASSUME HasChannel(s[k]) PROVE s[k] \notin ToSet(t)
  <2>1. SUFFICES ASSUME NEW i \in 1..(n - 1), t[i] = s[k] PROVE FALSE
    BY <1>3 DEF ToSet
  <2>2. PICK a \in 1..n : t[i] = s[a] /\ a = (IF i < k THEN i ELSE i + 1)
    BY <1>4
  <2>3. a = k
    BY <1>3, <1>6, <2>1, <2>2
  <2> QED BY <1>3, <2>2, <2>3
<1> QED BY <1>1, <1>2, <1>3, <1>5, <1>6

\* A command that is acknowledged leaves everything as neat as it was.
LEMMA RemovedNeat ==
    ASSUME NEW p, Sound(p), NEW acked, Poised(p), Neat(p, acked),
           NEW k \in DOMAIN p.sent, NEW c \in p.attempted,
           HasChannel(c) \/ HasChannel(p.sent[k]) => c = p.sent[k]
    PROVE  LET q == RemoveSentReliableCommand(p, k)
           IN  /\ Poised(q) /\ Neat(q, acked \cup {c}) /\ Known(q) = Known(p)
               /\ ToSet(q.sent) \subseteq ToSet(p.sent)
               /\ \A d \in ToSet(p.sent) : HasChannel(d) /\ d # c => d \in ToSet(q.sent)
<1>1. PICK q : /\ q = RemoveSentReliableCommand(p, k)
               /\ Sound(q) /\ q.numbers = p.numbers /\ q.attempted = p.attempted
               /\ q.outgoing = p.outgoing
               /\ ToSet(q.sent) \subseteq ToSet(p.sent)
               /\ ToSet(p.sent) \subseteq ToSet(q.sent) \cup {p.sent[k]}
  BY RemovedEffect
<1>2. p \in Pod /\ q \in Pod
  BY <1>1 DEF Sound
<1>3. PICK e \in Command, s \in Seq(Command) : e = p.sent[k] /\ s = p.sent /\ k \in DOMAIN s
  BY <1>2, PodFields
<1>4. q.sent = RemoveAt(s, k)
  BY <1>1, <1>2, <1>3, RemoveEffect
<1>5. \A i, j \in DOMAIN s : HasChannel(s[i]) /\ s[i] = s[j] => i = j
  BY <1>3 DEF Neat, Distinct
<1>6. /\ Distinct(q)
      /\ HasChannel(e) => ToSet(q.sent) = ToSet(s) \ {e}
  BY <1>3, <1>4, <1>5, RemoveOnly DEF Distinct
<1>7. Poised(q) /\ Known(q) = Known(p)
  <2>1. Known(q) = Known(p)
    BY <1>1 DEF Known
  <2>2. Given(q) /\ Fresh(q)
    BY <1>1, <2>1 DEF Poised, Given, Fresh
  <2> QED BY <1>1, <2>1, <2>2 DEF Poised, Sound
<1>8. Near(q)
  BY <1>1 DEF Neat, Near
<1>9. Accounted(q, acked \cup {c}) /\ acked \cup {c} \subseteq q.attempted
  <2>1. acked \cup {c} \subseteq q.attempted
    BY <1>1 DEF Neat
  <2>2. ASSUME NEW d \in q.attempted, HasChannel(d)
        PROVE  d \in ToSet(q.sent) <=> d \notin acked \cup {c}
    <3>1. d \in ToSet(p.sent) <=> d \notin acked
      BY <1>1, <2>2 DEF Neat, Accounted
    <3>2. CASE d = c
      BY <1>3, <1>6, <2>2, <3>1, <3>2
    <3>3. CASE d # c
      <4>1. d # e
        BY <1>3, <2>2, <3>3
      <4> QED BY <1>1, <1>3, <3>1, <3>3, <4>1
    <3> QED BY <3>2, <3>3
  <2> QED BY <2>1, <2>2 DEF Accounted
<1>10. Counted(q)
  <2>1. PICK r : r = UncountInWindow(p, e) /\ q.windows = r.windows /\ q.used = r.used
    BY <1>1, <1>2, <1>3, RemoveWindows
  <2>2. CASE ~HasChannel(e)
    <3>1. r = p
      BY <2>1, <2>2 DEF UncountInWindow
    <3>2. \A ch \in CHANNELS, w \in Windows :
             InWindow(ToSet(q.sent), ch, w) = InWindow(ToSet(p.sent), ch, w)
      BY <1>1, <1>3, <2>2, PodAssumption DEF InWindow, HasChannel
    <3> QED BY <2>1, <3>1, <3>2 DEF Neat, Counted
  <2>3. CASE HasChannel(e)
    <3>1. PICK v \in Windows, d \in CHANNELS : v = Window(Rsn(e)) /\ d = e.channel
      BY <2>3, CommandLemma
    <3>2. e \in ToSet(s) /\ e \in InWindow(ToSet(s), d, v)
      BY <1>3, <3>1 DEF InWindow, ToSet
    <3>3. p.windows[d][v] > 0
      <4>1. PICK S : S = InWindow(ToSet(s), d, v)
        OBVIOUS
      <4>2. IsFiniteSet(S) /\ Cardinality(S) \in Nat /\ S # {}
        BY <3>2, <4>1, SentIsFinite
      <4>3. Cardinality(S) # 0
        BY <4>2, FS_EmptySet
      <4>4. p.windows[d][v] = Cardinality(S)
        BY <1>3, <4>1 DEF Neat, Counted
      <4> QED BY <4>2, <4>3, <4>4
    <3>4. \A ch \in CHANNELS :
             /\ \A w \in Windows : q.windows[ch][w] = p.windows[ch][w]
                                      - (IF e.channel = ch /\ Window(Rsn(e)) = w THEN 1 ELSE 0)
             /\ q.used[ch] = IF ch = e.channel /\ p.windows[ch][Window(Rsn(e))] = 1
                             THEN p.used[ch] \ {Window(Rsn(e))} ELSE p.used[ch]
      <4>1. p.windows[e.channel][Window(Rsn(e))] > 0
        BY <3>1, <3>3
      <4>2. \A ch \in CHANNELS :
               /\ \A w \in Windows : r.windows[ch][w] = p.windows[ch][w]
                                        - (IF e.channel = ch /\ Window(Rsn(e)) = w THEN 1 ELSE 0)
               /\ r.used[ch] = IF ch = e.channel /\ p.windows[ch][Window(Rsn(e))] = 1
                               THEN p.used[ch] \ {Window(Rsn(e))} ELSE p.used[ch]
        BY <1>2, <2>1, <2>3, <4>1, UncountWindows, ZenonT(40)
      <4>3. q.windows = r.windows /\ q.used = r.used
        BY <2>1
      <4>4. ASSUME NEW ch \in CHANNELS, NEW w \in Windows
            PROVE  q.windows[ch][w] = p.windows[ch][w]
                                        - (IF e.channel = ch /\ Window(Rsn(e)) = w THEN 1 ELSE 0)
        <5>1. r.windows[ch][w] = p.windows[ch][w]
                                        - (IF e.channel = ch /\ Window(Rsn(e)) = w THEN 1 ELSE 0)
          BY <4>2
        <5>2. q.windows[ch][w] = r.windows[ch][w]
          BY <4>3
        <5> QED BY <5>1, <5>2
      <4>5. ASSUME NEW ch \in CHANNELS
            PROVE  q.used[ch] = IF ch = e.channel /\ p.windows[ch][Window(Rsn(e))] = 1
                                THEN p.used[ch] \ {Window(Rsn(e))} ELSE p.used[ch]
        BY <4>2, <4>3
      <4> QED BY <4>4, <4>5
    <3>5. ASSUME NEW ch \in CHANNELS, NEW w \in Windows
          PROVE  q.windows[ch][w] = Cardinality(InWindow(ToSet(q.sent), ch, w))
      <4>1. p.windows[ch][w] = Cardinality(InWindow(ToSet(s), ch, w))
        BY <1>3 DEF Neat, Counted
      <4>2. Cardinality(InWindow(ToSet(s) \ {e}, ch, w)) =
                Cardinality(InWindow(ToSet(s), ch, w))
                   - (IF e.channel = ch /\ Window(Rsn(e)) = w THEN 1 ELSE 0)
        BY <3>2, InWindowLess
      <4>3. q.windows[ch][w] = p.windows[ch][w]
                                  - (IF e.channel = ch /\ Window(Rsn(e)) = w THEN 1 ELSE 0)
        BY <3>4
      <4> QED BY <1>6, <2>3, <4>1, <4>2, <4>3
    <3>6. ASSUME NEW ch \in CHANNELS
          PROVE  q.used[ch] = {w \in Windows : q.windows[ch][w] > 0}
      <4>1. p.used[ch] = {w \in Windows : p.windows[ch][w] > 0}
        BY DEF Neat, Counted
      <4>2. \A w \in Windows : p.windows[ch][w] \in Nat
        BY <1>2, PodFields
      <4>3. \A w \in Windows : q.windows[ch][w] > 0
                                  <=> /\ p.windows[ch][w] > 0
                                      /\ ~(ch = d /\ w = v /\ p.windows[ch][v] = 1)
        <5> SUFFICES ASSUME NEW w \in Windows
                     PROVE  q.windows[ch][w] > 0
                               <=> /\ p.windows[ch][w] > 0
                                   /\ ~(ch = d /\ w = v /\ p.windows[ch][v] = 1)
          OBVIOUS
        <5>1. q.windows[ch][w] = p.windows[ch][w] - (IF d = ch /\ v = w THEN 1 ELSE 0)
          BY <3>1, <3>4
        <5>2. p.windows[ch][w] \in Nat
          BY <4>2
        <5>3. CASE d = ch /\ v = w
          BY <3>3, <5>1, <5>2, <5>3
        <5>4. CASE ~(d = ch /\ v = w)
          BY <5>1, <5>2, <5>4
        <5> QED BY <5>3, <5>4
      <4>4. q.used[ch] = IF ch = d /\ p.windows[ch][v] = 1 THEN p.used[ch] \ {v} ELSE p.used[ch]
        BY <3>1, <3>4
      <4> QED BY <4>1, <4>3, <4>4
    <3>7. Counted(q)
      BY <3>5, <3>6 DEF Counted
    <3> QED BY <3>7
  <2> QED BY <2>2, <2>3
<1>11. \A d \in ToSet(p.sent) : HasChannel(d) /\ d # c => d \in ToSet(q.sent)
  BY <1>1, <1>3
<1> QED BY <1>1, <1>6, <1>7, <1>8, <1>9, <1>10, <1>11 DEF Neat

\* A message that is queued leaves everything as neat as it was.
LEMMA QueueNeat ==
    ASSUME NEW p, Sound(p), NEW acked, Poised(p), Neat(p, acked), NEW ch \in CHANNELS,
           NEW lengths \in Seq(Nat)
    PROVE  LET q == QueueMessage(p, ch, lengths)
           IN  Poised(q) /\ Neat(q, acked) /\ q.sent = p.sent
<1>1. p \in Pod /\ Orderly(p) /\ WithinNumbers(p) /\ ch \in Numbered
  BY DEF Sound, Numbered
<1>2. PICK q : q = QueueMessage(p, ch, lengths)
  OBVIOUS
<1>3. PICK f \in Seq(Command) :
         /\ f = Fragments(p, ch, lengths)
         /\ Len(f) = Len(lengths)
         /\ \A i \in 1..Len(lengths) : f[i].channel = ch /\ f[i].serial = p.numbers[ch] + i
  BY <1>1, FragmentsLemma
<1>4. /\ q \in Pod /\ Orderly(q) /\ WithinNumbers(q)
      /\ q.numbers = [p.numbers EXCEPT ![ch] = @ + Len(lengths)]
      /\ q.sent = p.sent /\ q.attempted = p.attempted
      /\ q.windows = p.windows /\ q.used = p.used
      /\ q.outgoing = p.outgoing \o f
  BY <1>1, <1>2, <1>3, QueueEffect
<1>5. PICK o \in Seq(Command), k \in Nat, n \in Nat :
         o = p.outgoing /\ k = Len(lengths) /\ n = p.numbers[ch]
  BY <1>1, PodFields
<1>6. ToSet(q.outgoing) = ToSet(o) \cup ToSet(f)
  BY <1>3, <1>4, <1>5, SeqToSet
<1>7. Known(q) = Known(p) \cup ToSet(f)
  BY <1>4, <1>5, <1>6 DEF Known
<1>8. \A c \in ToSet(f) : \E i \in 1..k : c = f[i] /\ c.channel = ch /\ c.serial = n + i
  <2> SUFFICES ASSUME NEW j \in DOMAIN f
               PROVE  \E i \in 1..k : f[j] = f[i] /\ f[j].channel = ch /\ f[j].serial = n + i
    BY DEF ToSet
  <2>1. j \in 1..k
    BY <1>3, <1>5
  <2> QED BY <1>3, <1>5, <2>1
<1>9. \A c \in Known(p) : /\ c.channel \in Numbered /\ c.serial \in Nat
                          /\ c.serial <= p.numbers[c.channel]
  <2>1. Known(p) \subseteq Command
    BY <1>1, <1>5, PodFields, SeqToSet DEF Known
  <2> QED BY <1>1, <2>1, CommandLemma DEF WithinNumbers, Known
<1>10. Neat(q, acked)
  BY <1>4 DEF Neat, Counted, Near, Distinct, Accounted
<1>11. Fresh(q)
  <2> SUFFICES ASSUME NEW c \in ToSet(f), c \in p.attempted PROVE FALSE
    BY <1>4, <1>5, <1>6 DEF Fresh, Poised
  <2>1. c.channel = ch /\ c.serial > n
    BY <1>5, <1>8
  <2>2. c.serial <= n /\ c.serial \in Nat
    BY <1>5, <1>9, <2>1 DEF Known
  <2> QED BY <1>5, <2>1, <2>2
<1>12. Given(q)
  <2> SUFFICES ASSUME NEW e \in CHANNELS
               PROVE  /\ \A c \in Known(q) : c.channel = e => c.serial > 0
                      /\ \A m \in 1..q.numbers[e] :
                            \E c \in Known(q) : c.channel = e /\ c.serial = m
                      /\ \A c, d \in Known(q) :
                            c.channel = e /\ d.channel = e /\ c.serial = d.serial => c = d
    BY DEF Given
  <2>1. /\ \A c \in Known(p) : c.channel = e => c.serial > 0
        /\ \A m \in 1..p.numbers[e] :
              \E c \in Known(p) : c.channel = e /\ c.serial = m
        /\ \A c, d \in Known(p) :
              c.channel = e /\ d.channel = e /\ c.serial = d.serial => c = d
    BY DEF Poised, Given
  <2>2. p.numbers \in [Numbered -> Nat] /\ e \in Numbered
    BY <1>1, PodFields DEF Numbered
  <2>3. CASE e # ch
    <3>1. q.numbers[e] = p.numbers[e]
      BY <1>4, <2>2, <2>3
    <3>2. \A c \in Known(q) : c.channel = e => c \in Known(p)
      BY <1>7, <1>8, <2>3
    <3> QED BY <1>7, <2>1, <3>1, <3>2
  <2>4. CASE e = ch
    <3>1. q.numbers[e] = n + k
      BY <1>1, <1>4, <1>5, <2>2, <2>4
    <3>2. \A c \in Known(p) : c.channel = e => c.serial \in Nat /\ c.serial <= n
      BY <1>5, <1>9, <2>4
    <3>3. ASSUME NEW c \in Known(q), c.channel = e PROVE c.serial > 0
      BY <1>5, <1>7, <1>8, <2>1, <3>3
    <3>4. ASSUME NEW m \in 1..q.numbers[e]
          PROVE  \E c \in Known(q) : c.channel = e /\ c.serial = m
      <4>1. CASE m <= n
        BY <1>5, <1>7, <2>1, <2>4, <3>4, <4>1
      <4>2. CASE m > n
        <5>1. m - n \in 1..k /\ n + (m - n) = m
          BY <1>5, <3>1, <3>4, <4>2
        <5>3. PICK i \in 1..k : i = m - n /\ n + i = m
          BY <5>1
        <5>4. f[i] \in ToSet(f)
          BY <1>3, <1>5 DEF ToSet
        <5>2. f[m - n].channel = ch /\ f[m - n].serial = m /\ f[m - n] \in ToSet(f)
          BY <1>3, <1>5, <5>3, <5>4
        <5> QED BY <1>7, <2>4, <5>2
      <4> QED BY <1>5, <4>1, <4>2
    <3>5. ASSUME NEW c \in Known(q), NEW d \in Known(q),
                 c.channel = e, d.channel = e, c.serial = d.serial
          PROVE  c = d
      <4>1. CASE c \in Known(p) /\ d \in Known(p)
        BY <2>1, <3>5, <4>1
      <4>2. CASE c \in ToSet(f) /\ d \in ToSet(f)
        <5>1. PICK i \in 1..k, j \in 1..k : c = f[i] /\ c.serial = n + i /\ d = f[j] /\ d.serial = n + j
          BY <1>8, <4>2
        <5>2. i = j
          BY <1>5, <3>5, <5>1, SMTT(30)
        <5> QED BY <5>1, <5>2
      <4>3. \A x \in Known(p), y \in ToSet(f) : x.channel = e => x.serial # y.serial
        <5> SUFFICES ASSUME NEW x \in Known(p), NEW y \in ToSet(f), x.channel = e
                     PROVE  x.serial # y.serial
          OBVIOUS
        <5>1. x.serial \in Nat /\ x.serial <= n
          BY <3>2
        <5>2. PICK i \in 1..k : y.serial = n + i
          BY <1>8
        <5> QED BY <5>1, <5>2
      <4> QED BY <1>7, <3>5, <4>1, <4>2, <4>3
    <3> QED BY <3>3, <3>4, <3>5
  <2> QED BY <2>3, <2>4
<1> QED BY <1>2, <1>4, <1>10, <1>11, <1>12 DEF Poised

\* A DISCONNECT is all that is left of what was queued.
LEMMA DisconnectedKnows ==
    ASSUME NEW p \in Pod
    PROVE  \A c \in Known(Disconnected(p)) : ~HasChannel(c) /\ c.length = 0
<1>1. PICK e \in Pod : e = EmptyPod
  BY EmptyPodLemma
<1>2. PICK n \in [Numbered -> Nat], t \in 0..(DATA_MODULUS - 1) : n = p.numbers /\ t = p.transit
  BY PodFields
<1>3. PICK r : r = ResetPeerQueues(p)
  OBVIOUS
<1>4. r = [e EXCEPT !.numbers = n, !.transit = t]
  BY <1>1, <1>2, <1>3 DEF ResetPeerQueues
<1>5. r \in Pod /\ r.outgoing = <<>> /\ r.attempted = {} /\ NO_CHANNEL \in Numbered
  BY <1>1, <1>4 DEF Pod, EmptyPod, Numbered
<1>6. PICK c : c = [channel |-> NO_CHANNEL, serial |-> r.numbers[NO_CHANNEL] + 1, length |-> 0]
  OBVIOUS
<1>7. c \in Command /\ ~HasChannel(c) /\ c.length = 0
  <2>1. r.numbers[NO_CHANNEL] \in Nat
    BY <1>5, PodFields
  <2> QED BY <1>6, <2>1 DEF Command, HasChannel
<1>8. PICK q : q = SetupOutgoingCommand(r, NO_CHANNEL, 0)
  OBVIOUS
<1>9. /\ q.attempted = r.attempted /\ q.outgoing = Append(r.outgoing, c)
  <2>1. PICK o \in Seq(Command), m \in {[r.numbers EXCEPT ![NO_CHANNEL] = r.numbers[NO_CHANNEL] + 1]} :
           o = r.outgoing
    BY <1>5, PodFields
  <2>2. PICK u : u = Append(o, c)
    OBVIOUS
  <2>3. q = [r EXCEPT !.numbers = m, !.outgoing = u]
    BY <1>6, <1>8, <2>1, <2>2 DEF SetupOutgoingCommand
  <2> QED BY <1>5, <2>1, <2>2, <2>3 DEF Pod
<1>10. ToSet(q.outgoing) = {c}
  <2>1. r.outgoing \in Seq(Command)
    BY <1>5, PodFields
  <2>2. ToSet(q.outgoing) = ToSet(r.outgoing) \cup {c}
    BY <1>7, <1>9, <2>1, SeqToSet
  <2>3. ToSet(r.outgoing) = {}
    BY <1>5 DEF ToSet
  <2> QED BY <2>2, <2>3
<1>11. Known(q) = {c}
  BY <1>5, <1>9, <1>10 DEF Known
<1>12. q = Disconnected(p)
  BY <1>3, <1>8 DEF Disconnected
<1> QED BY <1>7, <1>11, <1>12

\* Numbers that become the same uint16_t are all windows apart.
LEMMA SameNumberFar ==
    ASSUME NEW m \in Nat, NEW n \in Nat, m < n, m % SEQUENCE_NUMBERS = n % SEQUENCE_NUMBERS
    PROVE  Window(n) - Window(m) >= PEER_RELIABLE_WINDOWS
<1>1. PICK s \in Nat, w \in Nat : /\ s = PEER_RELIABLE_WINDOW_SIZE /\ s > 0
                                  /\ w = PEER_RELIABLE_WINDOWS /\ w > 0
  BY WindowsLemma
<1>2. PICK z \in Nat : z = SEQUENCE_NUMBERS /\ z > 0
  BY WindowsLemma
<1>3. z = w * s
  BY <1>1, <1>2 DEF SEQUENCE_NUMBERS
<1>4. \A y \in Nat : \E q \in Int, r \in 0..(z - 1) :
             y = z * q + r /\ q = y \div z /\ r = y % z /\ (y \in Nat => q \in Nat)
  BY <1>2, DivisionExists
<1>5. PICK a \in Int, r \in 0..(z - 1) : m = z * a + r /\ r = m % z
  BY <1>4
<1>6. PICK b \in Int, t \in 0..(z - 1) : n = z * b + t /\ t = n % z
  BY <1>4
<1>7. r = t
  BY <1>2, <1>5, <1>6
<1>8. m = z * a + r /\ n = z * b + r
  BY <1>5, <1>6, <1>7
<1>9. a + 1 <= b
  <2>1. SUFFICES ASSUME b <= a PROVE FALSE
    OBVIOUS
  <2>2. z * b <= z * a
    BY <1>2, <2>1
  <2> QED BY <1>8, <2>2
<1>10. m + z <= n
  <2>1. z * (a + 1) <= z * b
    BY <1>2, <1>9
  <2>2. z * (a + 1) = z * a + z
    BY <1>2
  <2> QED BY <1>8, <2>1, <2>2
<1>11. Window(m + z) = Window(m) + w
  <2>1. \E q \in Int, d \in 0..(s - 1) :
             m = s * q + d /\ q = m \div s /\ d = m % s /\ (m \in Nat => q \in Nat)
    BY <1>1, DivisionExists
  <2>2. PICK q \in Int, d \in 0..(s - 1) : m = s * q + d /\ q = m \div s
    BY <2>1
  <2>3. s * (q + w) = s * q + w * s
    BY <1>1
  <2>4. m + z = s * (q + w) + d
    BY <1>3, <2>2, <2>3
  <2>5. PICK y \in Int : y = q + w
    BY <1>1
  <2>6. (m + z) \div s = y
    BY <1>1, <2>4, <2>5, DivisionIs
  <2> QED BY <1>1, <2>2, <2>5, <2>6 DEF Window
<1>12. m + z \in Nat
  BY <1>2
<1>13. /\ Window(m + z) <= Window(n) /\ Window(m) \in Nat /\ Window(n) \in Nat
  BY <1>10, <1>12, WindowMonotone
<1> QED BY <1>1, <1>11, <1>13

\* Of a channel no two commands that are near each other bear the same number.
LEMMA NearTellsApart ==
    ASSUME NEW p, Sound(p), Near(p), NEW c \in ToSet(p.sent), NEW d \in ToSet(p.sent),
           HasChannel(c), c.channel = d.channel, Rsn(c) = Rsn(d)
    PROVE  c.serial = d.serial
<1>1. /\ c \in p.attempted /\ d \in p.attempted /\ c \in Command /\ d \in Command
  BY PodFields DEF Sound, Orderly, SentIsAttempted
<1>2. c.serial \in Nat /\ d.serial \in Nat
  BY <1>1, CommandLemma
<1>3. PICK w \in Nat, f \in Nat : /\ w = PEER_RELIABLE_WINDOWS
                                  /\ f = PEER_FREE_RELIABLE_WINDOWS /\ f > 0
  BY WindowAssumption
<1>4. /\ Window(d.serial) - Window(c.serial) <= w - f
      /\ Window(c.serial) - Window(d.serial) <= w - f
  <2>1. HasChannel(d)
    BY DEF HasChannel
  <2> QED BY <1>1, <1>3, <2>1 DEF Near
<1>5. Window(c.serial) \in Nat /\ Window(d.serial) \in Nat
  BY <1>2, WindowMonotone
<1>6. ~(c.serial < d.serial)
  <2>1. SUFFICES ASSUME c.serial < d.serial PROVE FALSE
    OBVIOUS
  <2>2. Window(d.serial) - Window(c.serial) >= w
    BY <1>2, <1>3, <2>1, SameNumberFar DEF Rsn
  <2> QED BY <1>3, <1>4, <1>5, <2>2
<1>7. ~(d.serial < c.serial)
  <2>1. SUFFICES ASSUME d.serial < c.serial PROVE FALSE
    OBVIOUS
  <2>2. Window(c.serial) - Window(d.serial) >= w
    BY <1>2, <1>3, <2>1, SameNumberFar DEF Rsn
  <2> QED BY <1>3, <1>4, <1>5, <2>2
<1> QED BY <1>2, <1>6, <1>7

\* Of a channel's command one copy at most is under way, and the command waits
\* for its acknowledgement.
UnderWayIsSent ==
    \A c \in DOMAIN under_way :
        HasChannel(c) /\ Copies(c) > 0 => c \in ToSet(pod.sent) /\ Copies(c) = 1

\* The invariant of a peer that sends each command of a channel once.
Tidy ==
    /\ Open => Poised(pod) /\ Neat(pod, acknowledged) /\ UnderWayIsSent
    /\ ~Open => \A c \in Known(pod) : ~HasChannel(c)

LEMMA TidyInit == Init => Tidy
<1> SUFFICES ASSUME Init PROVE Tidy
  OBVIOUS
<1>1. PICK p \in Pod : p = EmptyPod /\ p = pod /\ Orderly(p) /\ WithinNumbers(p)
  BY EmptyPodLemma DEF Init
<1>2. /\ p.outgoing = <<>> /\ p.sent = <<>> /\ p.attempted = {}
      /\ p.numbers = [ch \in CHANNELS \cup {NO_CHANNEL} |-> 0]
      /\ p.windows = [ch \in CHANNELS |-> [w \in Windows |-> 0]]
      /\ p.used = [ch \in CHANNELS |-> {}]
  BY <1>1 DEF EmptyPod
<1>3. ToSet(p.outgoing) = {} /\ ToSet(p.sent) = {} /\ DOMAIN p.sent = {} /\ Known(p) = {}
  BY <1>2 DEF ToSet, Known
<1>4. Poised(p)
  <2>1. \A ch \in CHANNELS : p.numbers[ch] = 0
    BY <1>2
  <2> QED BY <1>1, <1>3, <2>1 DEF Poised, Fresh, Given
<1>5. Neat(p, {})
  <2>1. \A ch \in CHANNELS, w \in Windows : InWindow(ToSet(p.sent), ch, w) = {}
    BY <1>3 DEF InWindow
  <2>2. Counted(p)
    <3>1. Cardinality({}) = 0
      BY FS_EmptySet
    <3>2. \A ch \in CHANNELS : /\ \A w \in Windows : p.windows[ch][w] = 0
                               /\ p.used[ch] = {}
      BY <1>2
    <3>3. \A ch \in CHANNELS, w \in Windows : Cardinality(InWindow(ToSet(p.sent), ch, w)) = 0
      BY <2>1, <3>1
    <3> QED BY <3>2, <3>3 DEF Counted
  <2> QED BY <1>2, <1>3, <2>2 DEF Neat, Near, Distinct, Accounted
<1>6. UnderWayIsSent /\ Open /\ acknowledged = {}
  BY DEF Init, UnderWayIsSent, Open
<1> QED BY <1>1, <1>4, <1>5, <1>6 DEF Tidy

\* Fewer copies under way leave the peer tidy.
LEMMA FewerUnderWay ==
    ASSUME Inv, Tidy, NEW c \in DOMAIN under_way, Copies(c) > 0,
           under_way' = [under_way EXCEPT ![c] = @ - 1],
           UNCHANGED <<state, pod, acknowledged>>
    PROVE  Tidy'
<1>1. under_way \in [DOMAIN under_way -> Nat]
  BY DEF Inv, Typed
<1>2. DOMAIN under_way' = DOMAIN under_way
  OBVIOUS
<1>3. \A d \in DOMAIN under_way : Copies(d)' = IF d = c THEN Copies(d) - 1 ELSE Copies(d)
  BY <1>2 DEF Copies
<1>4. \A d \in DOMAIN under_way : Copies(d) \in Nat
  BY <1>1 DEF Copies
<1>5. UnderWayIsSent => UnderWayIsSent'
  BY <1>2, <1>3, <1>4 DEF UnderWayIsSent
<1> QED BY <1>5 DEF Tidy, Open

LEMMA TidySend ==
    ASSUME Inv, Tidy, NEW ch \in CHANNELS, NEW lengths \in Messages, Send(ch, lengths)
    PROVE  Tidy'
<1>1. /\ state = "CONNECTED" /\ pod' = QueueMessage(pod, ch, lengths)
      /\ UNCHANGED <<state, under_way, acknowledged>>
  BY DEF Send
<1>2. /\ Sound(pod) /\ Poised(pod) /\ Neat(pod, acknowledged) /\ UnderWayIsSent
      /\ lengths \in Seq(Nat) /\ Open /\ Open'
  BY <1>1, SenderConstants DEF Inv, Typed, Sound, Tidy, Open
<1>3. Poised(pod') /\ Neat(pod', acknowledged) /\ pod'.sent = pod.sent
  BY <1>1, <1>2, QueueNeat
<1>4. UnderWayIsSent'
  BY <1>1, <1>2, <1>3 DEF UnderWayIsSent, Copies
<1> QED BY <1>1, <1>2, <1>3, <1>4 DEF Tidy

LEMMA TidyPoll ==
    ASSUME Inv, Tidy, NEW expired \in SUBSET Expirable, SendOutgoingCommands(expired, ROOMS),
           Quiet(pod, expired)
    PROVE  Tidy'
<1>1. Poll
  BY DEF Poll
<1>2. /\ \A c \in Known(pod') : HasChannel(c) => c \in Known(pod)
      /\ Poised(pod) /\ Neat(pod, acknowledged) => Poised(pod') /\ Neat(pod', acknowledged)
      /\ Continues(pod, pod')
      /\ under_way' = Transmitted(SubSeq(pod'.sent, Len(pod.sent) + 1, Len(pod'.sent)))
      /\ UNCHANGED <<state, acknowledged>>
  BY PollNeat
<1>3. CASE ~Open
  BY <1>2, <1>3 DEF Tidy, Open
<1>4. CASE Open
  <2>1. Poised(pod') /\ Neat(pod', acknowledged) /\ UnderWayIsSent
    BY <1>2, <1>4 DEF Tidy
  <2>2. PICK s \in Seq(Command), t \in Seq(Command) : s = pod.sent /\ t = pod'.sent
    <3>1. pod \in Pod /\ pod' \in Pod
      BY <1>1, PollEffect DEF Inv, Typed, Sound
    <3> QED BY <3>1, PodFields
  <2>3. PICK copies : copies = SubSeq(t, Len(s) + 1, Len(t))
    OBVIOUS
  <2>4. /\ copies \in Seq(Command) /\ DOMAIN copies = 1..Len(copies)
    <3>1. Len(s) \in Nat
      BY <2>2
    <3>2. copies \in Seq(Command)
      BY <2>2, <2>3, <3>1, SubSeqLemma
    <3> QED BY <3>2
  <2>5. /\ DOMAIN under_way' = DOMAIN under_way \cup ToSet(copies)
        /\ \A c \in DOMAIN under_way' :
              under_way'[c] = Copies(c) + Cardinality({i \in DOMAIN copies : copies[i] = c})
    <3>1. under_way' = Transmitted(copies)
      BY <1>2, <2>2, <2>3
    <3>2. Typed
      BY DEF Inv
    <3> QED BY <2>4, <3>1, <3>2, TransmittedLemma
  <2>6. Len(s) <= Len(t) /\ \A i \in 1..Len(s) : t[i] = s[i]
    BY <1>2, <2>2 DEF Continues
  <2>7. ToSet(s) \subseteq ToSet(t)
    <3>1. DOMAIN s = 1..Len(s) /\ DOMAIN t = 1..Len(t) /\ Len(s) \in Nat /\ Len(t) \in Nat
      BY <2>2
    <3> QED BY <2>6, <3>1 DEF ToSet
  <2> SUFFICES ASSUME NEW c \in DOMAIN under_way', HasChannel(c), Copies(c)' > 0
               PROVE  c \in ToSet(t) /\ Copies(c)' = 1
    BY <1>2, <1>4, <2>1, <2>2 DEF Tidy, Open, UnderWayIsSent
  <2>9. PICK new : new = Cardinality({i \in DOMAIN copies : copies[i] = c})
    OBVIOUS
  <2>10. /\ new = IF c \in ToSet(t) \ ToSet(s) THEN 1 ELSE 0
         /\ c \in ToSet(copies) <=> c \in ToSet(t) \ ToSet(s)
    <3>1. pod \in Pod /\ pod' \in Pod
      BY <1>1, PollEffect DEF Inv, Typed, Sound
    <3>2. Distinct(pod') /\ copies = Loaded(pod, pod')
      BY <2>1, <2>2, <2>3 DEF Neat, Loaded
    <3>3. /\ Times(copies, c) = IF c \in ToSet(t) \ ToSet(s) THEN 1 ELSE 0
          /\ c \in ToSet(copies) <=> c \in ToSet(t) \ ToSet(s)
      <4>1. PICK p \in Pod, q \in Pod : p = pod /\ q = pod'
        BY <3>1
      <4>2. Continues(p, q) /\ Distinct(q) /\ copies = Loaded(p, q) /\ s = p.sent /\ t = q.sent
        BY <1>2, <2>2, <3>2, <4>1
      <4> QED BY <4>1, <4>2, CopiesOnce
    <3> QED BY <2>9, <3>3 DEF Times
  <2>11. Copies(c)' = Copies(c) + new
    BY <2>5, <2>9 DEF Copies
  <2>12. /\ Copies(c) = 0 \/ Copies(c) = 1
         /\ Copies(c) > 0 => c \in ToSet(s)
    <3>1. CASE c \in DOMAIN under_way
      <4>1. Copies(c) \in Nat
        BY <3>1 DEF Copies, Inv, Typed
      <4> QED BY <2>1, <2>2, <3>1, <4>1 DEF UnderWayIsSent
    <3>2. CASE c \notin DOMAIN under_way
      BY <3>2 DEF Copies
    <3> QED BY <3>1, <3>2
  <2> QED BY <2>7, <2>10, <2>11, <2>12
<1> QED BY <1>3, <1>4

LEMMA TidyGiveUp ==
    ASSUME Inv, Tidy, NEW expired, NEW p, GiveUp(expired, p), Quiet(pod, expired)
    PROVE  Tidy'
<1>1. /\ state # "DISCONNECTED" /\ pod' = Timeout(pod, expired)
      /\ UNCHANGED <<state, under_way, acknowledged>>
  BY DEF GiveUp
<1>2. Sound(pod)
  BY <1>1 DEF Inv, Typed, Sound
<1>3. /\ pod'.sent = pod.sent /\ Known(pod') = Known(pod)
      /\ Poised(pod) /\ Neat(pod, acknowledged) => Poised(pod') /\ Neat(pod', acknowledged)
  BY <1>1, <1>2, TimeoutNeat
<1>4. UnderWayIsSent => UnderWayIsSent'
  BY <1>1, <1>3 DEF UnderWayIsSent, Copies
<1> QED BY <1>1, <1>3, <1>4 DEF Tidy, Open

LEMMA TidyDisconnectLater ==
    ASSUME Inv, Tidy, DisconnectLater
    PROVE  Tidy'
<1>1. CASE state' = "DISCONNECT_LATER"
  <2>1. Open /\ Open' /\ UNCHANGED <<pod, under_way, acknowledged>>
    BY <1>1 DEF DisconnectLater, Open
  <2>2. UnderWayIsSent => UnderWayIsSent'
    BY <2>1 DEF UnderWayIsSent, Copies
  <2> QED BY <2>1, <2>2 DEF Tidy
<1>2. CASE state' = "DISCONNECTING"
  <2>1. ~Open' /\ pod' = Disconnected(pod) /\ pod \in Pod
    BY <1>2 DEF DisconnectLater, Open, Inv, Typed
  <2> QED BY <2>1, DisconnectedKnows DEF Tidy
<1> QED BY <1>1, <1>2, DisconnectLaterEffect

\* If a sent command bears the channel and the number, one is acknowledged.
LEMMA SomeAcknowledged ==
    ASSUME NEW p \in Pod, NEW d \in ToSet(p.sent)
    PROVE  \E k \in DOMAIN p.sent : Acknowledges(p, d.channel, Rsn(d), k)
<1>1. PICK s \in Seq(Command) : s = p.sent /\ DOMAIN s = 1..Len(s) /\ Len(s) \in Nat
  BY PodFields
<1> DEFINE Bearing == {i \in DOMAIN s : s[i].channel = d.channel /\ Rsn(s[i]) = Rsn(d)}
<1>2. PICK k : k = Min(Bearing)
  OBVIOUS
<1>3. k \in Bearing /\ \A i \in Bearing : k <= i
  <2>1. Bearing \in SUBSET Nat
    BY <1>1
  <2>2. Bearing # {}
    BY <1>1 DEF ToSet
  <2> HIDE DEF Bearing
  <2> QED BY <1>2, <2>1, <2>2, MinOfSet
<1>4. k \in DOMAIN s /\ s[k].channel = d.channel /\ Rsn(s[k]) = Rsn(d)
  BY <1>3
<1>5. ASSUME NEW i \in 1..(k - 1) PROVE ~(s[i].channel = d.channel /\ Rsn(s[i]) = Rsn(d))
  <2>1. i \in DOMAIN s /\ i < k /\ i \in Nat /\ k \in Nat
    BY <1>1, <1>4
  <2> QED BY <1>3, <2>1
<1> QED BY <1>1, <1>4, <1>5 DEF Acknowledges

\* Which command it is that an acknowledgement takes off the sent list.
LEMMA AcknowledgedIsKnown ==
    ASSUME NEW p, Sound(p), Poised(p), Near(p), NEW c \in Command,
           HasChannel(c) => c \in ToSet(p.sent),
           NEW k \in DOMAIN p.sent, Acknowledges(p, c.channel, Rsn(c), k)
    PROVE  HasChannel(c) \/ HasChannel(p.sent[k]) => c = p.sent[k]
<1>1. PICK e \in Command : e = p.sent[k] /\ e \in ToSet(p.sent)
  <2>1. p.sent \in Seq(Command)
    BY PodFields DEF Sound
  <2> QED BY <2>1 DEF ToSet
<1>2. e.channel = c.channel /\ Rsn(e) = Rsn(c)
  BY <1>1 DEF Acknowledges
<1>3. SUFFICES ASSUME HasChannel(c) PROVE c = e
  BY <1>1, <1>2 DEF HasChannel
<1>4. c.serial = e.serial
  BY <1>1, <1>2, <1>3, NearTellsApart
<1>5. c.channel \in CHANNELS
  BY <1>3 DEF Command, HasChannel
<1>6. c \in Known(p) /\ e \in Known(p)
  BY <1>1, <1>3 DEF Sound, Orderly, SentIsAttempted, Known
<1> QED BY <1>2, <1>4, <1>5, <1>6 DEF Poised, Given

LEMMA TidyAcknowledge ==
    ASSUME Inv, Tidy, NEW c \in DOMAIN under_way, HandleAcknowledge(c)
    PROVE  Tidy'
<1>1. Copies(c) > 0 /\ under_way' = [under_way EXCEPT ![c] = @ - 1] /\ c \in Command
  BY DEF HandleAcknowledge, Inv, Typed
<1>2. CASE state = "DISCONNECTED"
  <2>1. UNCHANGED <<state, pod, acknowledged>>
    BY <1>2 DEF HandleAcknowledge
  <2> QED BY <1>1, <2>1, FewerUnderWay
<1>3. ASSUME state # "DISCONNECTED" PROVE Tidy'
  <2>1. PICK p : p = pod /\ Sound(p)
    BY <1>3 DEF Inv, Typed, Sound
  <2> DEFINE Found(q) == \E k \in DOMAIN p.sent : /\ Acknowledges(p, c.channel, Rsn(c), k)
                                                   /\ q = RemoveSentReliableCommand(p, k)
             None == ~ \E k \in DOMAIN p.sent : Acknowledges(p, c.channel, Rsn(c), k)
  <2>2. PICK q : \/ Found(q) /\ AfterAcknowledge(q, TRUE)
                 \/ None /\ q = p /\ AfterAcknowledge(q, FALSE)
    BY <1>3, <2>1 DEF HandleAcknowledge
  <2>3. Sound(q) /\ q.outgoing = p.outgoing /\ q.attempted = p.attempted
    BY <2>1, <2>2, RemovedEffect
  <2>4. Known(q) = Known(p)
    BY <2>3 DEF Known
  <2>5. acknowledged' = acknowledged \cup {c}
    BY <1>3 DEF HandleAcknowledge
  <2>6. CASE ~Open
    <3>1. state = "DISCONNECTING" /\ \A d \in Known(p) : ~HasChannel(d)
      BY <1>3, <2>1, <2>6 DEF Tidy, Open, Inv, Typed
    <3>2. ~Open' /\ (pod' = q \/ pod' = Reset(q))
      BY <2>2, <3>1 DEF AfterAcknowledge, Open
    <3>3. PICK r : r = Reset(q) /\ r.attempted = q.attempted /\ r.outgoing = q.outgoing
      BY <2>3, ResetEffect DEF Sound
    <3>4. Known(r) = Known(q)
      BY <3>3 DEF Known
    <3> QED BY <2>4, <3>1, <3>2, <3>3, <3>4 DEF Tidy
  <2>7. CASE Open
    <3>1. /\ Poised(p) /\ Neat(p, acknowledged) /\ UnderWayIsSent
          /\ c \in p.attempted /\ Near(p)
      BY <2>1, <2>7 DEF Tidy, Inv, UnderWayIsAttempted, Neat
    <3>2. HasChannel(c) => c \in ToSet(p.sent) /\ Copies(c) = 1
      BY <1>1, <2>1, <3>1 DEF UnderWayIsSent
    <3>3. /\ Poised(q) /\ Neat(q, acknowledged \cup {c})
          /\ \A d \in ToSet(p.sent) : HasChannel(d) /\ d # c => d \in ToSet(q.sent)
      <4>1. CASE Found(q)
        <5>1. PICK k \in DOMAIN p.sent : /\ Acknowledges(p, c.channel, Rsn(c), k)
                                         /\ q = RemoveSentReliableCommand(p, k)
          BY <4>1
        <5>2. HasChannel(c) \/ HasChannel(p.sent[k]) => c = p.sent[k]
          BY <1>1, <2>1, <3>1, <3>2, <5>1, AcknowledgedIsKnown
        <5> QED BY <2>1, <3>1, <5>1, <5>2, RemovedNeat
      <4>2. CASE None /\ q = p
        <5>1. q = p /\ None
          BY <4>2
        <5>2. ~HasChannel(c)
          BY <2>1, <3>2, <5>1, SomeAcknowledged DEF Sound
        <5>3. /\ Counted(p) /\ Near(p) /\ Distinct(p)
              /\ Accounted(p, acknowledged \cup {c})
              /\ acknowledged \cup {c} \subseteq p.attempted
          BY <3>1, <5>2 DEF Neat, Accounted
        <5> QED BY <3>1, <5>1, <5>3 DEF Neat
      <4> QED BY <2>2, <4>1, <4>2
    <3>4. \/ state' = "DISCONNECTING" /\ pod' = Disconnected(q)
          \/ state' = state /\ pod' = q
      BY <2>2, <2>7 DEF AfterAcknowledge, Open
    <3>5. CASE state' = "DISCONNECTING" /\ pod' = Disconnected(q)
      BY <2>3, <3>5, DisconnectedKnows DEF Tidy, Open, Sound
    <3>6. CASE state' = state /\ pod' = q
      <4>1. under_way \in [DOMAIN under_way -> Nat] /\ DOMAIN under_way' = DOMAIN under_way
        BY <1>1 DEF Inv, Typed
      <4>2. ASSUME NEW d \in DOMAIN under_way', HasChannel(d), Copies(d)' > 0
            PROVE  d \in ToSet(q.sent) /\ Copies(d)' = 1
        <5>1. Copies(d)' = IF d = c THEN Copies(d) - 1 ELSE Copies(d)
          BY <1>1, <4>1 DEF Copies
        <5>2. d # c
          BY <3>2, <4>2, <5>1
        <5>3. d \in ToSet(p.sent) /\ Copies(d) = 1
          BY <2>1, <3>1, <4>1, <4>2, <5>1, <5>2 DEF UnderWayIsSent
        <5> QED BY <3>3, <4>2, <5>1, <5>2, <5>3
      <4>3. UnderWayIsSent'
        BY <3>6, <4>2 DEF UnderWayIsSent
      <4> QED BY <2>5, <2>7, <3>3, <3>6, <4>3 DEF Tidy, Open
    <3> QED BY <3>4, <3>5, <3>6
  <2> QED BY <2>6, <2>7
<1> QED BY <1>2, <1>3

\* No command of a channel stands in the two lists twice: none is queued to go
\* out again.
SentOnce == ~Doubled(pod)

LEMMA TidyNext ==
    ASSUME Inv, Tidy, [Next]_vars, SentOnce'
    PROVE  Tidy'
<1>1. ASSUME NEW ch \in CHANNELS, NEW lengths \in Messages, Send(ch, lengths) PROVE Tidy'
  BY <1>1, TidySend
<1>2. ASSUME NEW expired \in SUBSET Expirable, SendOutgoingCommands(expired, ROOMS) PROVE Tidy'
  <2>1. Quiet(pod, expired)
    BY <1>2, PollNeat DEF SentOnce
  <2> QED BY <1>2, <2>1, TidyPoll
<1>3. ASSUME NEW expired, NEW p, GiveUp(expired, p) PROVE Tidy'
  <2>1. pod' = Timeout(pod, expired) /\ Sound(pod)
    BY <1>3 DEF GiveUp, Inv, Typed, Sound
  <2>2. Quiet(pod, expired)
    BY <2>1, TimeoutNeat DEF SentOnce
  <2> QED BY <1>3, <2>2, TidyGiveUp
<1>4. ASSUME NEW c \in DOMAIN under_way, HandleAcknowledge(c) PROVE Tidy'
  BY <1>4, TidyAcknowledge
<1>5. ASSUME NEW c \in DOMAIN under_way, Lose(c) PROVE Tidy'
  <2>1. /\ Copies(c) > 0 /\ under_way' = [under_way EXCEPT ![c] = @ - 1]
        /\ UNCHANGED <<state, pod, acknowledged>>
    BY <1>5 DEF Lose
  <2> QED BY <2>1, FewerUnderWay
<1>6. CASE DisconnectLater
  BY <1>6, TidyDisconnectLater
<1>7. CASE UNCHANGED vars
  BY <1>7 DEF vars, Tidy, Open, UnderWayIsSent, Copies
<1> QED BY <1>1, <1>2, <1>3, <1>4, <1>5, <1>6, <1>7 DEF Next, Poll

\* What a channel has sent and is not known to have arrived waits in the sent
\* list; a peer that is not open any more waits for nothing.
LEMMA UnacknowledgedIsSent ==
    ASSUME Inv, Tidy, NEW c \in Unacknowledged
    PROVE  /\ Open /\ HasChannel(c) /\ c \in Command /\ c.channel \in CHANNELS
           /\ c \in pod.attempted /\ c \in ToSet(pod.sent)
<1>1. c \in pod.attempted /\ HasChannel(c) /\ c \notin acknowledged
  BY DEF Unacknowledged
<1>2. Open
  BY <1>1 DEF Tidy, Known
<1>3. c \in Command /\ c.channel \in CHANNELS
  <2>1. c \in Command
    BY <1>1, PodFields DEF Inv, Typed
  <2> QED BY <1>1, <2>1 DEF Command, HasChannel
<1> QED BY <1>1, <1>2, <1>3 DEF Tidy, Neat, Accounted

LEMMA TidyIsMarked == Inv /\ Tidy => UsedWindowsAreMarked
<1> SUFFICES ASSUME Inv, Tidy, NEW c \in Unacknowledged
             PROVE  Window(Rsn(c)) \in pod.used[c.channel]
  BY DEF UsedWindowsAreMarked
<1>1. /\ Open /\ c \in Command /\ c.channel \in CHANNELS /\ c \in ToSet(pod.sent)
  BY UnacknowledgedIsSent
<1>2. PICK p \in Pod : p = pod /\ Counted(p)
  BY <1>1 DEF Inv, Typed, Tidy, Neat
<1>3. PICK s \in Seq(Command) : s = p.sent
  BY PodFields
<1>4. Window(Rsn(c)) \in Windows
  BY <1>1, CommandLemma
<1>5. PICK some : some = InWindow(ToSet(s), c.channel, Window(Rsn(c)))
  OBVIOUS
<1>6. c \in some /\ IsFiniteSet(some) /\ Cardinality(some) \in Nat
  <2>1. c \in some
    BY <1>1, <1>2, <1>3, <1>5 DEF InWindow
  <2>2. IsFiniteSet(some) /\ Cardinality(some) \in Nat
    BY <1>3, <1>5, SentIsFinite
  <2> QED BY <2>1, <2>2
<1>7. Cardinality(some) > 0
  <2>1. Cardinality(some) # 0
    BY <1>6, FS_EmptySet
  <2> QED BY <1>6, <2>1
<1> QED BY <1>1, <1>2, <1>3, <1>4, <1>5, <1>7 DEF Counted

LEMMA TidyStaysApart == Inv /\ Tidy => NumbersStayApart
<1> SUFFICES ASSUME Inv, Tidy, NEW c \in Unacknowledged, NEW d \in Unacknowledged,
                    c.channel = d.channel
             PROVE  Window(c.serial) - Window(d.serial) <=
                       PEER_RELIABLE_WINDOWS - PEER_FREE_RELIABLE_WINDOWS
  BY DEF NumbersStayApart
<1>1. /\ Open /\ HasChannel(d) /\ d \in ToSet(pod.sent) /\ c \in pod.attempted
  BY UnacknowledgedIsSent
<1> QED BY <1>1 DEF Tidy, Neat, Near

LEMMA TidyTellsApart == Inv /\ Tidy => TellApart
<1> SUFFICES ASSUME Inv, Tidy, Open, NEW c \in DOMAIN under_way, NEW d \in ToSet(pod.sent),
                    Copies(c) > 0, HasChannel(c), c.channel = d.channel, Rsn(c) = Rsn(d)
             PROVE  c.serial = d.serial
  BY DEF TellApart
<1>1. Sound(pod) /\ Near(pod) /\ c \in ToSet(pod.sent)
  BY DEF Inv, Typed, Sound, Tidy, Neat, UnderWayIsSent, Open
<1> QED BY <1>1, NearTellsApart

\* As long as no command of a channel is sent again, a peer stays tidy: the numbers
\* it has given out are those of known commands, the sent list holds what is not
\* acknowledged, and the window counters are those of the sent list ...
THEOREM StaysTidy == Spec /\ []SentOnce => []Tidy
<1>1. Inv /\ Tidy /\ [Next]_vars /\ SentOnce' => Tidy'
  BY TidyNext
<1> QED BY <1>1, TidyInit, SenderInvariant, PTL DEF Spec

\* ... so that a window that holds unacknowledged commands is marked as used,
THEOREM WindowsStayMarked == Spec /\ []SentOnce => []UsedWindowsAreMarked
<1> QED BY StaysTidy, SenderInvariant, TidyIsMarked, PTL

\* the numbers under way are never so far apart that they could be mixed up,
THEOREM NumbersAreApart == Spec /\ []SentOnce => []NumbersStayApart
<1> QED BY StaysTidy, SenderInvariant, TidyStaysApart, PTL

\* and no command is forgotten, however often the numbers wrap.
THEOREM NothingIsForgottenEver == Spec /\ []SentOnce => []NothingForgotten
<1>1. Spec /\ []SentOnce => []TellApart
  BY StaysTidy, SenderInvariant, TidyTellsApart, PTL
<1> QED BY <1>1, NothingIsForgotten, PTL

LEMMA TidyIsSentOnce == Inv /\ Tidy => SentOnce
<1> SUFFICES ASSUME Inv, Tidy, NEW i \in DOMAIN pod.sent, HasChannel(pod.sent[i]),
                    \/ pod.sent[i] \in ToSet(pod.outgoing)
                    \/ \E j \in DOMAIN pod.sent : j # i /\ pod.sent[j] = pod.sent[i]
             PROVE  FALSE
  BY DEF SentOnce, Doubled
<1>1. pod.sent[i] \in pod.attempted
  BY DEF Inv, Orderly, SentIsAttempted, ToSet
<1>2. Open
  BY <1>1 DEF Tidy, Known
<1> QED BY <1>1, <1>2 DEF Tidy, Poised, Fresh, Neat, Distinct

\* Of each command that waits for its acknowledgement a copy is under way.
Answerable ==
    Open => \A c \in ToSet(pod.sent) : HasChannel(c) => Copies(c) > 0

\* Nothing is lost and no answer is slower than the timeout.
Prompt == ~TimeoutsMayBeEarly /\ MAX_LOSSES = 0

LEMMA PromptIsQuiet ==
    ASSUME Prompt, Inv, Tidy, Answerable, NEW expired \in SUBSET Expirable
    PROVE  Quiet(pod, expired)
<1> SUFFICES ASSUME NEW i \in expired, i \in DOMAIN pod.sent, HasChannel(pod.sent[i]) PROVE FALSE
  BY DEF Quiet
<1>1. pod.sent[i] \in ToSet(pod.sent) /\ pod.sent[i] \in pod.attempted
  BY DEF Inv, Orderly, SentIsAttempted, ToSet
<1>2. Open
  BY <1>1 DEF Tidy, Known
<1>3. Copies(pod.sent[i]) > 0
  BY <1>1, <1>2 DEF Answerable
<1>4. Copies(pod.sent[i]) = 0
  BY DEF Expirable, Prompt
<1> QED BY <1>3, <1>4

LEMMA PromptNext ==
    ASSUME Prompt, Inv, Tidy, Answerable, [Next]_vars
    PROVE  Tidy' /\ Answerable'
<1>1. ASSUME UNCHANGED <<state, under_way>>, Open => pod'.sent = pod.sent PROVE Answerable'
  BY <1>1 DEF Answerable, Open, Copies
<1>2. ASSUME NEW ch \in CHANNELS, NEW lengths \in Messages, Send(ch, lengths)
      PROVE  Tidy' /\ Answerable'
  BY <1>1, <1>2, TidySend, SendEffect
<1>3. ASSUME NEW expired \in SUBSET Expirable, SendOutgoingCommands(expired, ROOMS)
      PROVE  Tidy' /\ Answerable'
  <2>1. Tidy' /\ Poll
    BY <1>3, PromptIsQuiet, TidyPoll DEF Poll
  <2>2. PICK p \in Pod, q \in Pod : p = pod /\ q = pod'
    BY <2>1, PollEffect DEF Inv, Typed, Sound
  <2>3. Continues(p, q) /\ under_way' = Transmitted(Loaded(p, q)) /\ UNCHANGED <<state, acknowledged>>
    BY <1>3, <2>2, PollNeat DEF Loaded
  <2>4. SUFFICES ASSUME Open', NEW c \in ToSet(q.sent), HasChannel(c) PROVE Copies(c)' > 0
    BY <2>1, <2>2 DEF Answerable
  <2>5. Open /\ Distinct(q)
    BY <2>1, <2>2, <2>3, <2>4 DEF Tidy, Neat, Open
  <2>6. /\ Times(Loaded(p, q), c) = IF c \in ToSet(q.sent) \ ToSet(p.sent) THEN 1 ELSE 0
        /\ c \in ToSet(Loaded(p, q)) <=> c \in ToSet(q.sent) \ ToSet(p.sent)
    BY <2>2, <2>3, <2>4, <2>5, CopiesOnce
  <2>7. PICK copies \in Seq(Command) : copies = Loaded(p, q)
    <3>1. PICK s \in Seq(Command), t \in Seq(Command) : s = p.sent /\ t = q.sent
      BY <2>2, PodFields
    <3>2. Len(s) \in Nat
      BY <3>1
    <3> QED BY <3>1, <3>2, SubSeqLemma DEF Loaded
  <2>8. /\ DOMAIN under_way' = DOMAIN under_way \cup ToSet(copies)
        /\ \A d \in DOMAIN under_way' :
              under_way'[d] = Copies(d) + Cardinality({i \in DOMAIN copies : copies[i] = d})
    <3>1. Typed
      BY DEF Inv
    <3> QED BY <2>3, <2>7, <3>1, TransmittedLemma
  <2>9. c \in ToSet(p.sent) => c \in DOMAIN under_way /\ Copies(c) > 0
    BY <2>2, <2>4, <2>5 DEF Answerable, Copies
  <2>10. c \in DOMAIN under_way'
    BY <2>4, <2>6, <2>7, <2>8, <2>9
  <2>11. Copies(c)' = Copies(c) + Times(copies, c)
    BY <2>8, <2>10 DEF Copies, Times
  <2>12. Copies(c) \in Nat
    BY DEF Copies, Inv, Typed
  <2> QED BY <2>4, <2>6, <2>7, <2>9, <2>11, <2>12
<1>4. ASSUME NEW expired \in SUBSET Expirable, NEW p, GiveUp(expired, p)
      PROVE  Tidy' /\ Answerable'
  <2>1. UNCHANGED <<state, under_way>> /\ pod' = Timeout(pod, expired) /\ Sound(pod)
    BY <1>4 DEF GiveUp, Inv, Typed, Sound
  <2> QED BY <1>1, <1>4, <2>1, PromptIsQuiet, TidyGiveUp, TimeoutNeat
<1>5. ASSUME NEW c \in DOMAIN under_way, HandleAcknowledge(c)
      PROVE  Tidy' /\ Answerable'
  <2>1. Tidy'
    BY <1>5, TidyAcknowledge
  <2>2. SUFFICES ASSUME Open', NEW d \in ToSet(pod'.sent), HasChannel(d) PROVE Copies(d)' > 0
    BY <2>1 DEF Answerable
  <2>3. Open /\ pod'.attempted = pod.attempted /\ c \in acknowledged'
    BY <1>5, <2>2, AcknowledgeEffect
  <2>4. d \in pod'.attempted /\ d \notin acknowledged'
    BY <2>1, <2>2 DEF Tidy, Neat, Accounted, Poised, Orderly, SentIsAttempted
  <2>5. d # c /\ d \in ToSet(pod.sent)
    <3>1. acknowledged \subseteq acknowledged'
      BY <1>5, AcknowledgeEffect
    <3> QED BY <2>2, <2>3, <2>4, <3>1 DEF Tidy, Neat, Accounted
  <2>6. Copies(d) > 0
    BY <2>2, <2>3, <2>5 DEF Answerable
  <2>7. under_way' = [under_way EXCEPT ![c] = @ - 1]
    BY <1>5 DEF HandleAcknowledge
  <2> QED BY <2>5, <2>6, <2>7 DEF Copies
<1>6. ASSUME NEW c \in DOMAIN under_way, Lose(c) PROVE FALSE
  BY <1>6 DEF Lose, Prompt, Inv, Typed
<1>7. CASE DisconnectLater
  <2>1. UNCHANGED under_way /\ (Open' => Open /\ pod' = pod)
    BY <1>7, DisconnectLaterEffect
  <2> QED BY <1>7, <2>1, TidyDisconnectLater DEF Answerable, Copies
<1>8. CASE UNCHANGED vars
  BY <1>8 DEF vars, Tidy, Answerable, Open, UnderWayIsSent, Copies
<1> QED BY <1>2, <1>3, <1>4, <1>5, <1>6, <1>7, <1>8 DEF Next, Poll

LEMMA AnswerableInit == Init => Answerable
<1> QED BY EmptyPodLemma DEF Init, Answerable, EmptyPod, ToSet

\* That is so if nothing is lost and no answer is slower than the timeout.
THEOREM PromptSendsOnce == Prompt => (Spec => []SentOnce)
<1>1. ASSUME Prompt PROVE Inv /\ (Tidy /\ Answerable) /\ [Next]_vars => (Tidy /\ Answerable)'
  BY <1>1, PromptNext
<1>2. ASSUME Prompt PROVE Spec => []SentOnce
  <2>1. Inv /\ (Tidy /\ Answerable) /\ [Next]_vars => (Tidy /\ Answerable)'
    BY <1>1, <1>2
  <2> QED BY <2>1, TidyInit, AnswerableInit, SenderInvariant, TidyIsSentOnce, PTL DEF Spec
<1> QED BY <1>2

-----------------------------------------------------------------------------
(* The data under way.                                                     *)

\* No sum of two window sizes wraps.
Unwrapped ==
    /\ IN_TRANSIT_LIMITS # {}
    /\ \A a, b \in IN_TRANSIT_LIMITS : a + b < DATA_MODULUS

LEMMA MaxLimit ==
    ASSUME Unwrapped
    PROVE  /\ Max(IN_TRANSIT_LIMITS) \in IN_TRANSIT_LIMITS /\ Max(IN_TRANSIT_LIMITS) \in Nat
           /\ \A limit \in IN_TRANSIT_LIMITS : limit <= Max(IN_TRANSIT_LIMITS)
<1>1. DATA_MODULUS \in Nat /\ DATA_MODULUS > 0
  BY TransitLemma
<1>2. IN_TRANSIT_LIMITS \in SUBSET (0..(DATA_MODULUS - 1)) /\ IN_TRANSIT_LIMITS # {}
  BY SenderAssumption DEF Unwrapped
<1>3. PICK n \in Nat : n = DATA_MODULUS - 1
  BY <1>1
<1>4. IN_TRANSIT_LIMITS \in SUBSET Nat /\ \A limit \in IN_TRANSIT_LIMITS : limit <= n
  BY <1>1, <1>2, <1>3
<1>5. Max(IN_TRANSIT_LIMITS) \in IN_TRANSIT_LIMITS
      /\ \A limit \in IN_TRANSIT_LIMITS : limit <= Max(IN_TRANSIT_LIMITS)
  BY <1>2, <1>3, <1>4, MaxOfSet
<1> QED BY <1>4, <1>5

\* Adding to what is within the window size, and subtracting from it.
LEMMA TransitIs ==
    ASSUME NEW t \in 0..(DATA_MODULUS - 1), NEW n \in Nat
    PROVE  /\ t + n < DATA_MODULUS => Plus(t, n) = t + n
           /\ n <= t => Minus(t, n) = t - n
<1>1. PICK m \in Nat : m = DATA_MODULUS /\ m > 0
  BY TransitLemma
<1>2. \A r \in 0..(m - 1) : (m * 0 + r) % m = r /\ (m * 1 + r) % m = r
  BY <1>1, DivisionIs
<1>3. \A r \in 0..(m - 1) : r % m = r /\ (m + r) % m = r
  BY <1>1, <1>2
<1>4. ASSUME t + n < m PROVE Plus(t, n) = t + n
  <2>1. t + n \in 0..(m - 1)
    BY <1>1, <1>4
  <2> QED BY <1>1, <1>3, <2>1 DEF Plus
<1>5. ASSUME n <= t PROVE Minus(t, n) = t - n
  <2>1. PICK r \in 0..(m - 1) : r = t - n
    BY <1>1, <1>5
  <2>2. t + m - n = m + r
    BY <1>1, <2>1
  <2> QED BY <1>1, <1>3, <2>1, <2>2 DEF Minus
<1> QED BY <1>1, <1>4, <1>5

\* What a command weighs, and the commands of channels that wait for their
\* acknowledgements.
Length == [c \in Command |-> c.length]
Carried(p) == {c \in ToSet(p.sent) : HasChannel(c)}

\* A fragment fits any window size, and the commands of the peer are empty.
Fits(c) ==
    IF HasChannel(c) THEN \A limit \in IN_TRANSIT_LIMITS : c.length <= limit
                     ELSE c.length = 0

\* The number under way is that of the commands in the sent list, and is within
\* the largest window size.
Weighed(p) ==
    /\ p.transit = SumFunctionOnSet(Length, Carried(p))
    /\ p.transit <= Max(IN_TRANSIT_LIMITS)

LEMMA CarriedIsFinite ==
    ASSUME NEW p \in Pod
    PROVE  /\ IsFiniteSet(Carried(p)) /\ Carried(p) \subseteq Command
           /\ Numeric(Length, Carried(p))
           /\ \A c \in Command : Length[c] = c.length /\ Length[c] \in Nat
<1>1. p.sent \in Seq(Command)
  BY PodFields
<1>2. IsFiniteSet(ToSet(p.sent)) /\ ToSet(p.sent) \subseteq Command
  BY <1>1, SentIsFinite, SeqToSet
<1>3. \A c \in Command : Length[c] = c.length /\ Length[c] \in Nat
  BY CommandLemma DEF Length
<1>4. Carried(p) \in SUBSET ToSet(p.sent)
  BY DEF Carried
<1>5. IsFiniteSet(Carried(p))
  BY <1>2, <1>4, FS_Subset
<1> QED BY <1>2, <1>3, <1>4, <1>5 DEF Numeric

LEMMA CountTransit ==
    ASSUME NEW p \in Pod, NEW c \in Command
    PROVE  /\ CountInWindow(p, c).transit = p.transit
           /\ UncountInWindow(p, c).transit = p.transit
  BY DEF CountInWindow, UncountInWindow, Pod

LEMMA PutTransit ==
    ASSUME NEW p \in Pod, NEW c \in Command
    PROVE  PutOnWire(p, c).transit = Plus(p.transit, c.length)
<1>1. PICK r \in Pod : r = CountInWindow(p, c) /\ SameLists(p, r)
  BY CountEffect
<1>2. r.transit = p.transit
  BY <1>1, CountTransit
<1>3. PICK A, s, t : A = r.attempted \cup {c} /\ s = Append(r.sent, c) /\ t = Plus(p.transit, c.length)
  OBVIOUS
<1>4. PutOnWire(p, c) = [r EXCEPT !.attempted = A, !.transit = t, !.sent = s]
  BY <1>1, <1>2, <1>3 DEF PutOnWire
<1> QED BY <1>3, <1>4 DEF Pod

LEMMA RemoveTransit ==
    ASSUME NEW p \in Pod, NEW k \in DOMAIN p.sent
    PROVE  RemoveSentReliableCommand(p, k).transit = Minus(p.transit, p.sent[k].length)
<1>1. PICK c \in Command : c = p.sent[k]
  BY DEF Pod
<1>2. PICK r \in Pod : r = UncountInWindow(p, c) /\ r.transit = p.transit
  BY UncountEffect, CountTransit
<1>3. PICK s, t : s = RemoveAt(r.sent, k) /\ t = Minus(p.transit, c.length)
  OBVIOUS
<1>4. RemoveSentReliableCommand(p, k) = [r EXCEPT !.transit = t, !.sent = s]
  BY <1>1, <1>2, <1>3 DEF RemoveSentReliableCommand
<1> QED BY <1>1, <1>3, <1>4 DEF Pod

LEMMA QueueTransit ==
    ASSUME NEW p \in Pod, NEW ch \in Numbered, NEW lengths \in Seq(Nat)
    PROVE  QueueMessage(p, ch, lengths).transit = p.transit
<1>1. PICK n, s : /\ n = [p.numbers EXCEPT ![ch] = @ + Len(lengths)]
                  /\ s = p.outgoing \o Fragments(p, ch, lengths)
  OBVIOUS
<1>2. QueueMessage(p, ch, lengths) = [p EXCEPT !.numbers = n, !.outgoing = s]
  BY <1>1 DEF QueueMessage
<1> QED BY <1>2 DEF Pod

\* A command that goes out adds what it weighs.
LEMMA PutWeighed ==
    ASSUME Unwrapped, NEW p \in Pod, Weighed(p), NEW c \in Command, Fits(c),
           NEW limit \in IN_TRANSIT_LIMITS,
           HasChannel(c) => c \notin ToSet(p.sent) /\ ~WindowExceeds(p, limit, c)
    PROVE  Weighed(PutOnWire(p, c))
<1>1. PICK q \in Pod : /\ q = PutOnWire(p, c) /\ q.sent = Append(p.sent, c)
                       /\ q.transit = Plus(p.transit, c.length)
  BY PutEffect, PutTransit
<1>2. p.sent \in Seq(Command) /\ ToSet(q.sent) = ToSet(p.sent) \cup {c}
  BY <1>1, PodFields, SeqToSet
<1>3. PICK t \in 0..(DATA_MODULUS - 1), n \in Nat, w \in Nat :
         /\ t = p.transit /\ n = c.length /\ w = Max(IN_TRANSIT_LIMITS) /\ t <= w
         /\ limit \in Nat /\ limit <= w
  <2>1. IN_TRANSIT_LIMITS \subseteq 0..(DATA_MODULUS - 1) /\ DATA_MODULUS \in Nat
    BY SenderAssumption, TransitLemma
  <2>2. limit \in Nat
    BY <2>1
  <2> QED BY <2>2, MaxLimit, PodFields, CommandLemma DEF Weighed
<1>4. /\ IsFiniteSet(Carried(p)) /\ Carried(p) \subseteq Command
      /\ Numeric(Length, Carried(p)) /\ Length[c] = n /\ n \in Nat
      /\ \A d \in Command : Length[d] \in Int
  BY <1>3, CarriedIsFinite
<1>5. CASE ~HasChannel(c)
  <2>1. Carried(q) = Carried(p)
    BY <1>2, <1>5 DEF Carried
  <2>2. n = 0
    BY <1>3, <1>5 DEF Fits
  <2>3. DATA_MODULUS \in Nat /\ t + 0 < DATA_MODULUS /\ t + 0 = t
    BY TransitLemma
  <2>4. q.transit = t
    BY <1>1, <1>3, <2>2, <2>3, TransitIs
  <2> QED BY <1>1, <1>3, <2>1, <2>4 DEF Weighed
<1>6. CASE HasChannel(c)
  <2>1. c \notin Carried(p) /\ Carried(q) = Carried(p) \cup {c}
    BY <1>2, <1>6 DEF Carried
  <2>2. Numeric(Length, Carried(p) \cup {c})
    BY <1>4 DEF Numeric
  <2>3. SumFunctionOnSet(Length, Carried(q)) = t + n
    <3>1. SumFunctionOnSet(Length, Carried(p) \cup {c}) =
             SumFunctionOnSet(Length, Carried(p)) + Length[c]
      BY <1>4, <2>1, <2>2, SumPut
    <3> QED BY <1>3, <1>4, <2>1, <3>1 DEF Weighed
  <2>4. n <= w /\ w + w < DATA_MODULUS /\ DATA_MODULUS \in Nat
    <3>1. w \in IN_TRANSIT_LIMITS
      BY <1>3, MaxLimit
    <3> QED BY <1>3, <1>6, <3>1, TransitLemma DEF Fits, Unwrapped
  <2>5. t + n < DATA_MODULUS
    BY <1>3, <2>4
  <2>6. q.transit = t + n
    BY <1>1, <1>3, <2>5, TransitIs
  <2>7. ~(Plus(t, n) > limit)
    BY <1>3, <1>6 DEF WindowExceeds
  <2>8. t + n <= w
    BY <1>1, <1>3, <2>6, <2>7
  <2> QED BY <1>1, <1>3, <2>3, <2>6, <2>8 DEF Weighed
<1> QED BY <1>5, <1>6

\* A command that is acknowledged takes away what it weighs.
LEMMA RemovedWeighed ==
    ASSUME Unwrapped, NEW p \in Pod, Weighed(p), Distinct(p), NEW k \in DOMAIN p.sent,
           Fits(p.sent[k])
    PROVE  Weighed(RemoveSentReliableCommand(p, k))
<1>1. PICK s \in Seq(Command), c \in Command : s = p.sent /\ c = p.sent[k] /\ k \in DOMAIN s
  BY PodFields
<1>2. PICK q \in Pod : /\ q = RemoveSentReliableCommand(p, k) /\ q.sent = RemoveAt(s, k)
                       /\ q.transit = Minus(p.transit, c.length)
  BY <1>1, RemoveEffect, RemoveTransit
<1>3. PICK t \in 0..(DATA_MODULUS - 1), n \in Nat, w \in Nat :
         t = p.transit /\ n = c.length /\ w = Max(IN_TRANSIT_LIMITS) /\ t <= w
  BY MaxLimit, PodFields, CommandLemma DEF Weighed
<1>4. /\ IsFiniteSet(Carried(p)) /\ Carried(p) \subseteq Command
      /\ Numeric(Length, Carried(p)) /\ Length[c] = n
      /\ \A d \in Command : Length[d] \in Nat
  BY <1>3, CarriedIsFinite
<1>5. CASE ~HasChannel(c)
  <2>1. ToSet(q.sent) \subseteq ToSet(s) /\ ToSet(s) \subseteq ToSet(q.sent) \cup {c}
    BY <1>1, <1>2, RemoveAtLemma
  <2>2. Carried(q) = Carried(p)
    BY <1>1, <1>5, <2>1 DEF Carried
  <2>3. n = 0 /\ 0 <= t /\ t - 0 = t
    BY <1>1, <1>3, <1>5 DEF Fits
  <2>4. q.transit = t
    BY <1>2, <1>3, <2>3, TransitIs
  <2> QED BY <1>2, <1>3, <2>2, <2>4 DEF Weighed
<1>6. CASE HasChannel(c)
  <2>1. ToSet(q.sent) = ToSet(s) \ {c}
    <3>1. \A i, j \in DOMAIN s : HasChannel(s[i]) /\ s[i] = s[j] => i = j
      BY <1>1 DEF Distinct
    <3> QED BY <1>1, <1>2, <1>6, <3>1, RemoveOnly
  <2>2. Carried(q) = Carried(p) \ {c} /\ c \in Carried(p)
    BY <1>1, <1>6, <2>1 DEF Carried, ToSet
  <2>3. PICK rest \in Nat : rest = SumFunctionOnSet(Length, Carried(q)) /\ t = n + rest
    <3>1. /\ SumFunctionOnSet(Length, Carried(p)) =
                Length[c] + SumFunctionOnSet(Length, Carried(p) \ {c})
      BY <1>4, <2>2, SumTake
    <3>2. SumFunctionOnSet(Length, Carried(p) \ {c}) \in Nat
      <4>1. \A d \in Carried(p) : Length[d] \in Nat
        BY <1>4
      <4>2. Carried(p) \ {c} \in SUBSET Carried(p)
        OBVIOUS
      <4> QED BY <1>4, <4>1, <4>2, SumOfFewer
    <3> QED BY <1>3, <1>4, <2>2, <3>1, <3>2 DEF Weighed
  <2>4. n <= t /\ t - n = rest
    BY <2>3
  <2>5. q.transit = rest
    BY <1>2, <1>3, <2>4, TransitIs
  <2>6. rest <= w
    BY <1>3, <2>3
  <2> QED BY <1>2, <1>3, <2>3, <2>5, <2>6 DEF Weighed
<1> QED BY <1>5, <1>6

Light(p) == \A c \in Known(p) : Fits(c)

\* What goes out does not exceed the window size of the walk.
LEMMA LoadOneWithin ==
    ASSUME NEW walk \in WalkRecord, NEW c \in Command
    PROVE  LET next == LoadOne(walk, c)
           IN  /\ next.limit = walk.limit
               /\ \/ next.pod = walk.pod
                  \/ /\ next.pod = PutOnWire(walk.pod, c)
                     /\ HasChannel(c) => ~WindowExceeds(walk.pod, walk.limit, c)
<1> DEFINE skipped == [walk EXCEPT !.left = Append(@, c)]
           wraps   == HasChannel(c) /\ (walk.wrap \/ WindowWraps(walk.pod, c))
           exceeds == /\ HasPayload(c)
                      /\ walk.exceeded \/ WindowExceeds(walk.pod, walk.limit, c)
           next    == LoadOne(walk, c)
<1>1. CASE walk.full
  <2>1. next = [walk EXCEPT !.left = Append(@, c)]
    BY <1>1 DEF LoadOne
  <2> QED BY <2>1 DEF WalkRecord
<1>2. CASE ~walk.full /\ wraps
  <2>1. next = [walk EXCEPT !.left = Append(@, c), !.wrap = TRUE]
    BY <1>2 DEF LoadOne
  <2> QED BY <2>1 DEF WalkRecord
<1>3. CASE ~walk.full /\ ~wraps /\ exceeds
  <2>1. next = [walk EXCEPT !.left = Append(@, c), !.exceeded = TRUE]
    BY <1>3 DEF LoadOne
  <2> QED BY <2>1 DEF WalkRecord
<1>4. CASE ~walk.full /\ ~wraps /\ ~exceeds /\ walk.room = 0
  <2>1. next = [walk EXCEPT !.left = Append(@, c), !.full = TRUE]
    BY <1>4 DEF LoadOne
  <2> QED BY <2>1 DEF WalkRecord
<1>5. CASE ~walk.full /\ ~wraps /\ ~exceeds /\ walk.room # 0
  <2>1. next = [walk EXCEPT !.pod = PutOnWire(@, c), !.room = @ - 1]
    BY <1>5 DEF LoadOne
  <2>2. PICK q : q = PutOnWire(walk.pod, c)
    OBVIOUS
  <2>3. next = [walk EXCEPT !.pod = q, !.room = @ - 1]
    BY <2>1, <2>2
  <2> HIDE DEF next
  <2>4. next.pod = q /\ next.limit = walk.limit
    BY <2>3 DEF WalkRecord
  <2>5. HasChannel(c) => ~WindowExceeds(walk.pod, walk.limit, c)
    BY <1>5 DEF HasPayload
  <2> QED BY <2>2, <2>4, <2>5 DEF next
<1> QED BY <1>1, <1>2, <1>3, <1>4, <1>5

LEMMA WalkWeighed ==
    ASSUME Unwrapped, NEW p \in Pod, Poised(p), Light(p),
           NEW i \in Nat, i + 1 <= Len(p.outgoing), NEW walk, WalkInv(p, walk, i),
           walk.limit \in IN_TRANSIT_LIMITS, Weighed(walk.pod)
    PROVE  Weighed(LoadOne(walk, p.outgoing[i + 1]).pod)
<1>1. PICK c \in Command : c = p.outgoing[i + 1]
  BY PodFields
<1>2. PICK r \in Pod, limit \in IN_TRANSIT_LIMITS :
         r = walk.pod /\ limit = walk.limit /\ walk \in WalkRecord /\ SentIsAttempted(r)
  BY DEF WalkInv, WalkRecord
<1>3. PICK next : next = LoadOne(walk, c)
  OBVIOUS
<1>4. \/ next.pod = r
      \/ next.pod = PutOnWire(r, c) /\ (HasChannel(c) => ~WindowExceeds(r, limit, c))
  BY <1>2, <1>3, LoadOneWithin
<1>5. \/ next.pod = r /\ next.left = Append(walk.left, c)
      \/ /\ next.pod = PutOnWire(r, c) /\ next.left = walk.left /\ ~Held(walk, c)
         /\ HasChannel(c) => ~WindowWraps(r, c)
  BY <1>2, <1>3, LoadOneLoads
<1>6. CASE next.pod = r
  BY <1>1, <1>2, <1>3, <1>6
<1>7. ASSUME next.pod # r PROVE Weighed(next.pod)
  <2>1. /\ next.pod = PutOnWire(r, c) /\ ~Held(walk, c)
        /\ HasChannel(c) => ~WindowExceeds(r, limit, c) /\ ~WindowWraps(r, c)
    BY <1>4, <1>5, <1>7
  <2>2. Due(r, c)
    BY <1>1, <1>2, <2>1, WalkDue DEF Poised
  <2>3. HasChannel(c) => c \notin ToSet(r.sent) /\ ~WindowExceeds(r, limit, c)
    BY <1>2, <2>1, <2>2 DEF Due, SentIsAttempted
  <2>4. Fits(c)
    <3>1. c \in ToSet(p.outgoing)
      <4>1. DOMAIN p.outgoing = 1..Len(p.outgoing) /\ Len(p.outgoing) \in Nat
        BY PodFields
      <4>2. i + 1 \in DOMAIN p.outgoing
        BY <4>1
      <4> QED BY <1>1, <4>2 DEF ToSet
    <3> QED BY <3>1 DEF Light, Known
  <2>5. Weighed(r)
    BY <1>2
  <2> QED BY <1>2, <2>1, <2>3, <2>4, <2>5, PutWeighed
<1> QED BY <1>1, <1>3, <1>6, <1>7

LEMMA WalksWeigh ==
    ASSUME Unwrapped, NEW p \in Pod, Poised(p), Light(p), Weighed(p), NEW rooms \in SUBSET Int,
           NEW walk \in Walks(p, IN_TRANSIT_LIMITS, rooms)[Len(p.outgoing)]
    PROVE  Weighed(walk.pod)
<1> DEFINE limits == IN_TRANSIT_LIMITS
<1>0. limits \in SUBSET Int /\ SentIsAttempted(p)
  BY SenderConstants DEF Poised, Orderly
<1>1. PICK f : /\ f = [i \in 0..Len(p.outgoing) |->
                          IF i = 0 THEN Starts(p, limits, rooms)
                          ELSE LoadNext(f[i - 1], p.outgoing[i])]
               /\ f = Walks(p, limits, rooms)
  BY <1>0, WalksLemma
<1> DEFINE Step(w, n) == WalkInv(p, w, n) /\ w.limit \in limits /\ Weighed(w.pod)
           Good == {n \in Nat : n <= Len(p.outgoing) => \A w \in f[n] : Step(w, n)}
<1>2. Len(p.outgoing) \in Nat
  BY PodFields
<1>3. 0 \in Good
  <2>1. 0 \in 0..Len(p.outgoing)
    BY <1>2
  <2>2. f[0] = Starts(p, limits, rooms)
    BY <1>1, <2>1
  <2>3. ASSUME NEW w \in Starts(p, limits, rooms) PROVE Step(w, 0)
    <3>1. PICK limit \in limits, room \in rooms : w = Start(p, limit, room)
      BY DEF Starts
    <3>2. limit \in Int /\ room \in Int
      BY <1>0
    <3>3. WalkInv(p, w, 0)
      BY <1>0, <3>1, <3>2, WalkStart
    <3>4. w.limit = limit /\ w.pod = p
      BY <3>1 DEF Start
    <3> QED BY <3>3, <3>4
  <2> QED BY <2>2, <2>3
<1>4. ASSUME NEW n \in Good PROVE n + 1 \in Good
  <2> SUFFICES ASSUME n + 1 <= Len(p.outgoing), NEW v \in f[n + 1] PROVE Step(v, n + 1)
    OBVIOUS
  <2>1. n \in Nat /\ n <= Len(p.outgoing) /\ n + 1 \in 0..Len(p.outgoing) /\ (n + 1) - 1 = n
    BY <1>2
  <2>2. f[n + 1] = LoadNext(f[n], p.outgoing[n + 1])
    <3> DEFINE m == n + 1
    <3>1. m \in 0..Len(p.outgoing) /\ m # 0 /\ m - 1 = n
      BY <2>1
    <3> HIDE DEF m
    <3>2. f[m] = LoadNext(f[m - 1], p.outgoing[m])
      BY <1>1, <3>1
    <3> QED BY <3>1, <3>2 DEF m
  <2>3. PICK w \in f[n] : v = LoadOne(w, p.outgoing[n + 1])
    BY <2>2 DEF LoadNext
  <2>4. Step(w, n)
    BY <2>1
  <2>5. WalkInv(p, v, n + 1)
    BY <2>1, <2>3, <2>4, WalkStep
  <2>6. w \in WalkRecord /\ n \in Nat
    BY <2>1, <2>4 DEF WalkInv
  <2>7. v.limit = w.limit
    <3>1. PICK c \in Command : c = p.outgoing[n + 1]
      BY <2>6, PodFields
    <3> QED BY <2>3, <2>6, <3>1, LoadOneWithin
  <2>8. Weighed(v.pod)
    BY <2>1, <2>3, <2>4, WalkWeighed
  <2> QED BY <2>4, <2>5, <2>7, <2>8
<1>5. Nat \subseteq Good
  <2> HIDE DEF Good
  <2> QED BY <1>3, <1>4, NatSetInduction
<1>6. Len(p.outgoing) \in Good
  <2> HIDE DEF Good
  <2> QED BY <1>2, <1>5
<1>7. walk \in f[Len(p.outgoing)]
  BY <1>1
<1> QED BY <1>6, <1>7

LEMMA LoadWeighed ==
    ASSUME Unwrapped, NEW p \in Pod, Poised(p), Light(p), Weighed(p), NEW rooms \in SUBSET Int,
           NEW q \in LoadReliableCommands(p, IN_TRANSIT_LIMITS, rooms)
    PROVE  Weighed(q)
<1>1. PICK walk \in Walks(p, IN_TRANSIT_LIMITS, rooms)[Len(p.outgoing)] :
         q = [walk.pod EXCEPT !.outgoing = walk.left]
  BY DEF LoadReliableCommands
<1>2. Weighed(walk.pod)
  BY WalksWeigh
<1>3. WalkInv(p, walk, Len(p.outgoing))
  BY WalksKeep, SenderConstants DEF Poised, Orderly
<1>4. PICK r \in Pod, s \in Seq(Command) : r = walk.pod /\ s = walk.left
  BY <1>3 DEF WalkInv, WalkRecord
<1>5. q = [r EXCEPT !.outgoing = s]
  BY <1>1, <1>4
<1>6. q.transit = r.transit /\ q.sent = r.sent
  BY <1>5 DEF Pod
<1> QED BY <1>2, <1>4, <1>6 DEF Weighed, Carried

\* Timeouts of empty commands change nothing.
LEMMA TimeoutTransit ==
    ASSUME NEW p \in Pod, Orderly(p), NEW expired,
           \A i \in expired \cap DOMAIN p.sent : p.sent[i].length = 0
    PROVE  Timeout(p, expired).transit = p.transit
<1>1. PICK f : /\ f = [i \in 0..Len(p.sent) |->
                          IF i = 0 THEN p
                          ELSE IF i \in expired THEN Expire(f[i - 1], p.sent[i])
                          ELSE f[i - 1]]
               /\ f = Expirations(p, expired)
  BY ExpirationsLemma
<1> DEFINE Good == {n \in Nat : n <= Len(p.sent) =>
                                   Requeued(p, f[n]) /\ f[n].transit = p.transit}
<1>2. Len(p.sent) \in Nat /\ DOMAIN p.sent = 1..Len(p.sent)
  BY PodFields
<1>3. 0 \in Good
  <2>1. 0 \in 0..Len(p.sent)
    BY <1>2
  <2>2. f[0] = p
    BY <1>1, <2>1
  <2> QED BY <2>2 DEF Requeued
<1>4. ASSUME NEW n \in Good PROVE n + 1 \in Good
  <2> SUFFICES ASSUME n + 1 <= Len(p.sent)
               PROVE  Requeued(p, f[n + 1]) /\ f[n + 1].transit = p.transit
    OBVIOUS
  <2> DEFINE m == n + 1
  <2>1. m \in 0..Len(p.sent) /\ m # 0 /\ m - 1 = n /\ m \in DOMAIN p.sent /\ n <= Len(p.sent)
    BY <1>2
  <2>2. Requeued(p, f[n]) /\ f[n].transit = p.transit
    BY <2>1
  <2> HIDE DEF m
  <2>3. f[m] = IF m \in expired THEN Expire(f[m - 1], p.sent[m]) ELSE f[m - 1]
    BY <1>1, <2>1
  <2>4. p.sent[m] \in ToSet(p.sent)
    BY <2>1 DEF ToSet
  <2>5. Requeued(p, f[m])
    BY <2>1, <2>2, <2>3, <2>4, ExpireEffect
  <2>6. f[m].transit = p.transit
    <3>1. CASE m \in expired
      <4>1. PICK q \in Pod, c \in Command : q = f[n] /\ c = p.sent[m] /\ c.length = 0
        BY <2>1, <2>2, <3>1, PodFields DEF Requeued
      <4>2. PICK s, t : s = <<c>> \o q.outgoing /\ t = Minus(q.transit, c.length)
        OBVIOUS
      <4>3. f[m] = [q EXCEPT !.outgoing = s, !.transit = t]
        BY <2>1, <2>3, <3>1, <4>1, <4>2 DEF Expire
      <4>4. t = q.transit
        <5>1. PICK x \in 0..(DATA_MODULUS - 1) : x = q.transit
          BY <4>1, PodFields
        <5>2. PICK l \in Nat : l = c.length /\ l <= x /\ x - l = x
          BY <4>1, TransitLemma
        <5>3. Minus(x, l) = x - l
          BY <5>2, TransitIs
        <5> QED BY <4>1, <4>2, <5>1, <5>2, <5>3
      <4>5. f[m].transit = t
        BY <4>3 DEF Pod
      <4> QED BY <2>2, <4>1, <4>4, <4>5
    <3>2. CASE m \notin expired
      BY <2>1, <2>2, <2>3, <3>2
    <3> QED BY <3>1, <3>2
  <2> QED BY <2>5, <2>6 DEF m
<1>5. Nat \subseteq Good
  <2> HIDE DEF Good
  <2> QED BY <1>3, <1>4, NatSetInduction
<1>6. Len(p.sent) \in Good
  <2> HIDE DEF Good
  <2> QED BY <1>2, <1>5
<1> QED BY <1>1, <1>6 DEF Timeout

LEMMA FragmentLengths ==
    ASSUME NEW p \in Pod, NEW ch \in Numbered, NEW lengths \in Seq(Nat)
    PROVE  \A c \in ToSet(Fragments(p, ch, lengths)) :
              \E i \in DOMAIN lengths : c.channel = ch /\ c.length = lengths[i]
<1>1. PICK f \in Seq(Command) :
         /\ f = Fragments(p, ch, lengths) /\ Len(f) = Len(lengths)
  BY FragmentsLemma
<1>2. f = [i \in 1..Len(lengths) |->
              [channel |-> ch, serial |-> p.numbers[ch] + i, length |-> lengths[i]]]
  BY <1>1 DEF Fragments
<1>3. DOMAIN lengths = 1..Len(lengths) /\ DOMAIN f = 1..Len(lengths)
  BY <1>1
<1>4. ASSUME NEW i \in 1..Len(lengths) PROVE f[i].channel = ch /\ f[i].length = lengths[i]
  <2>1. f[i] = [channel |-> ch, serial |-> p.numbers[ch] + i, length |-> lengths[i]]
    BY <1>2
  <2> QED BY <2>1
<1> QED BY <1>1, <1>3, <1>4 DEF ToSet

LEMMA QueueLight ==
    ASSUME NEW p \in Pod, Light(p), NEW ch \in CHANNELS, NEW lengths \in Messages
    PROVE  Light(QueueMessage(p, ch, lengths))
<1>1. ch \in Numbered /\ lengths \in Seq(Nat)
  BY SenderConstants DEF Numbered
<1>2. PICK o \in Seq(Command), f \in Seq(Command) :
         o = p.outgoing /\ f = Fragments(p, ch, lengths)
  BY <1>1, PodFields, FragmentsLemma
<1>3. PICK n, s : n = [p.numbers EXCEPT ![ch] = @ + Len(lengths)] /\ s = o \o f
  OBVIOUS
<1>4. QueueMessage(p, ch, lengths) = [p EXCEPT !.numbers = n, !.outgoing = s]
  BY <1>2, <1>3 DEF QueueMessage
<1>5. PICK q : q = QueueMessage(p, ch, lengths)
  OBVIOUS
<1>6. q.outgoing = s /\ q.attempted = p.attempted
  BY <1>4, <1>5 DEF Pod
<1>7. ToSet(s) = ToSet(o) \cup ToSet(f)
  BY <1>2, <1>3, SeqToSet
<1>8. ASSUME NEW c \in ToSet(f) PROVE Fits(c)
  <2>1. PICK i \in DOMAIN lengths : c.channel = ch /\ c.length = lengths[i]
    BY <1>1, <1>2, FragmentLengths
  <2>2. HasChannel(c)
    BY <2>1, PodAssumption DEF HasChannel
  <2> QED BY <2>1, <2>2, SenderAssumption DEF Fits
<1> QED BY <1>2, <1>5, <1>6, <1>7, <1>8 DEF Light, Known

LEMMA PingLight ==
    ASSUME NEW p, Sound(p)
    PROVE  LET q == Ping(p)
           IN  /\ q.sent = p.sent /\ q.transit = p.transit
               /\ Light(p) => Light(q)
<1>1. CASE Ping(p) = p
  BY <1>1
<1>2. CASE Ping(p) = SetupOutgoingCommand(p, NO_CHANNEL, 0)
  <2>0. PICK z \in Seq(Nat) : z = <<0>> /\ \A i \in DOMAIN z : z[i] = 0
    <3>1. <<0>> \in Seq(Nat) /\ \A i \in DOMAIN <<0>> : <<0>>[i] = 0
      OBVIOUS
    <3> QED BY <3>1
  <2>1. NO_CHANNEL \in Numbered /\ p \in Pod /\ Orderly(p) /\ WithinNumbers(p)
    BY DEF Numbered, Sound
  <2>2. Ping(p) = QueueMessage(p, NO_CHANNEL, z)
    <3>1. SetupOutgoingCommand(p, NO_CHANNEL, 0) = QueueMessage(p, NO_CHANNEL, <<0>>)
      BY <2>1, SetupIsQueue
    <3> QED BY <1>2, <2>0, <3>1
  <2>3. PICK f \in Seq(Command) : f = Fragments(p, NO_CHANNEL, z)
    BY <2>1, FragmentsLemma
  <2>4. PICK q : q = QueueMessage(p, NO_CHANNEL, z)
    OBVIOUS
  <2>5. /\ q.sent = p.sent /\ q.attempted = p.attempted /\ q.outgoing = p.outgoing \o f
        /\ q.transit = p.transit
    BY <2>1, <2>3, <2>4, QueueEffect, QueueTransit
  <2>6. p.outgoing \in Seq(Command)
    BY PodFields DEF Sound
  <2>7. ToSet(q.outgoing) = ToSet(p.outgoing) \cup ToSet(f)
    BY <2>3, <2>5, <2>6, SeqToSet
  <2>8. ASSUME NEW c \in ToSet(f) PROVE Fits(c)
    <3>1. PICK i \in DOMAIN z : c.channel = NO_CHANNEL /\ c.length = z[i]
      BY <2>1, <2>3, FragmentLengths
    <3> QED BY <2>0, <3>1 DEF Fits, HasChannel
  <2>9. Light(p) => Light(q)
    BY <2>5, <2>7, <2>8 DEF Light, Known
  <2> QED BY <2>2, <2>4, <2>5, <2>9
<1> QED BY <1>1, <1>2 DEF Ping

LEMMA TimeoutWeighed ==
    ASSUME NEW p, Sound(p), Light(p), NEW expired
    PROVE  LET q == Timeout(p, expired)
           IN  Light(q) /\ (Quiet(p, expired) /\ Weighed(p) => Weighed(q))
<1>1. PICK q : q = Timeout(p, expired) /\ q.sent = p.sent /\ Known(q) = Known(p)
  BY TimeoutNeat
<1>2. Light(q)
  BY <1>1 DEF Light
<1>3. ASSUME Quiet(p, expired), Weighed(p) PROVE Weighed(q)
  <2>1. ASSUME NEW i \in expired \cap DOMAIN p.sent PROVE p.sent[i].length = 0
    <3>1. p.sent[i] \in Known(p)
      BY DEF Sound, Orderly, SentIsAttempted, ToSet, Known
    <3> QED BY <1>3, <3>1 DEF Quiet, Light, Fits
  <2>2. q.transit = p.transit
    BY <1>1, <2>1, TimeoutTransit DEF Sound
  <2> QED BY <1>1, <1>3, <2>2 DEF Weighed, Carried
<1> QED BY <1>1, <1>2, <1>3

\* Loading keeps a light pod light, and one that weighs what it sent weighed.
LEMMA LoadGood ==
    ASSUME Unwrapped, NEW p, Sound(p), Light(p), NEW acked,
           NEW q \in LoadReliableCommands(p, IN_TRANSIT_LIMITS, ROOMS)
    PROVE  /\ Sound(q) /\ Light(q)
           /\ Poised(p) /\ Neat(p, acked) /\ Weighed(p) =>
                 Poised(q) /\ Neat(q, acked) /\ Weighed(q)
<1>1. IN_TRANSIT_LIMITS \in SUBSET Int /\ ROOMS \in SUBSET Int /\ p \in Pod
  BY SenderConstants DEF Sound
<1>2. Sound(q)
  BY <1>1, LoadKeeps
<1>3. Known(q) = Known(p) /\ (Poised(p) /\ Neat(p, acked) => Poised(q) /\ Neat(q, acked))
  BY <1>1, LoadNeat
<1>4. ASSUME Poised(p), Weighed(p) PROVE Weighed(q)
  BY <1>1, <1>4, LoadWeighed
<1>5. Light(q)
  BY <1>3 DEF Light
<1> QED BY <1>2, <1>3, <1>4, <1>5

\* A datagram goes out and what is under way stays within the window size.
LEMMA PollWeighed ==
    ASSUME Unwrapped, Inv, NEW expired, SendOutgoingCommands(expired, ROOMS), Light(pod)
    PROVE  /\ Light(pod')
           /\ Quiet(pod, expired) /\ Poised(pod) /\ Neat(pod, acknowledged) /\ Weighed(pod)
                 => Weighed(pod')
<1>0. PICK A : A = acknowledged
  OBVIOUS
<1>1. PICK timed : timed = Timeout(pod, expired)
  OBVIOUS
<1>2. PICK loaded, after :
         /\ loaded \in LoadReliableCommands(timed, IN_TRANSIT_LIMITS, ROOMS)
         /\ \/ after = loaded
            \/ after \in LoadReliableCommands(Ping(loaded), IN_TRANSIT_LIMITS, ROOMS)
         /\ pod' = after
  BY <1>1 DEF SendOutgoingCommands
<1>3. Sound(pod)
  BY DEF SendOutgoingCommands, Inv, Typed, Sound
<1>4. /\ Sound(timed)
      /\ Quiet(pod, expired) /\ Poised(pod) /\ Neat(pod, A) => Poised(timed) /\ Neat(timed, A)
  BY <1>1, <1>3, TimeoutKeeps, TimeoutNeat
<1>5. Light(timed) /\ (Quiet(pod, expired) /\ Weighed(pod) => Weighed(timed))
  BY <1>1, <1>3, TimeoutWeighed
<1>6. /\ Sound(loaded) /\ Light(loaded)
      /\ Poised(timed) /\ Neat(timed, A) /\ Weighed(timed) =>
            Poised(loaded) /\ Neat(loaded, A) /\ Weighed(loaded)
  BY <1>2, <1>4, <1>5, LoadGood
<1>7. PICK pinged : pinged = Ping(loaded)
  OBVIOUS
<1>8. /\ Sound(pinged) /\ pinged.sent = loaded.sent /\ pinged.transit = loaded.transit
      /\ Light(pinged)
      /\ Poised(loaded) /\ Neat(loaded, A) => Poised(pinged) /\ Neat(pinged, A)
  BY <1>6, <1>7, PingKeeps, PingNeat, PingLight
<1>9. Weighed(loaded) => Weighed(pinged)
  BY <1>8 DEF Weighed, Carried
<1>10. CASE after = loaded
  BY <1>0, <1>2, <1>4, <1>5, <1>6, <1>10
<1>11. CASE after \in LoadReliableCommands(pinged, IN_TRANSIT_LIMITS, ROOMS)
  <2>1. /\ Light(after)
        /\ Poised(pinged) /\ Neat(pinged, A) /\ Weighed(pinged) => Weighed(after)
    BY <1>8, <1>11, LoadGood
  <2> QED BY <1>0, <1>2, <1>4, <1>5, <1>6, <1>8, <1>9, <2>1
<1> QED BY <1>2, <1>7, <1>10, <1>11

-----------------------------------------------------------------------------
(* The payload of the copies under way.                                    *)

CopyCount(u) ==
    IsFiniteSet(DOMAIN u) /\ DOMAIN u \subseteq Command /\ u \in [DOMAIN u -> Nat]

Weights(u) == [c \in DOMAIN u |-> u[c] * c.length]

LEMMA PayloadIs ==
    ASSUME NEW u, CopyCount(u)
    PROVE  /\ Payload(u) = SumFunctionOnSet(Weights(u), DOMAIN u)
           /\ Numeric(Weights(u), DOMAIN u)
           /\ \A c \in DOMAIN u : /\ u[c] \in Nat /\ c.length \in Nat
                                  /\ Weights(u)[c] = u[c] * c.length /\ Weights(u)[c] \in Nat
<1>1. ASSUME NEW c \in DOMAIN u PROVE u[c] \in Nat /\ c.length \in Nat /\ u[c] * c.length \in Nat
  <2>1. PICK a \in Nat, b \in Nat : a = u[c] /\ b = c.length
    BY CommandLemma DEF CopyCount
  <2>2. a * b \in Nat
    OBVIOUS
  <2> QED BY <2>1, <2>2
<1>2. DOMAIN Weights(u) = DOMAIN u /\ \A c \in DOMAIN u : Weights(u)[c] = u[c] * c.length
  BY DEF Weights
<1>3. Payload(u) = SumFunctionOnSet(Weights(u), DOMAIN u)
  BY <1>2 DEF Payload, SumFunction, Weights
<1>4. Numeric(Weights(u), DOMAIN u)
  BY <1>1, <1>2 DEF Numeric
<1> QED BY <1>1, <1>2, <1>3, <1>4

\* Fewer copies weigh less.
LEMMA PayloadOfFewer ==
    ASSUME NEW u, CopyCount(u), NEW v, CopyCount(v), DOMAIN v = DOMAIN u,
           \A c \in DOMAIN u : v[c] <= u[c]
    PROVE  Payload(v) <= Payload(u)
<1>1. /\ Payload(u) = SumFunctionOnSet(Weights(u), DOMAIN u) /\ Numeric(Weights(u), DOMAIN u)
      /\ Payload(v) = SumFunctionOnSet(Weights(v), DOMAIN u) /\ Numeric(Weights(v), DOMAIN u)
  BY PayloadIs
<1>2. ASSUME NEW c \in DOMAIN u PROVE Weights(v)[c] <= Weights(u)[c]
  <2>1. PICK a \in Nat, b \in Nat, l \in Nat : a = v[c] /\ b = u[c] /\ l = c.length /\ a <= b
    BY PayloadIs
  <2>2. a * l <= b * l
    BY <2>1
  <2> QED BY <2>1, <2>2, PayloadIs
<1>3. IsFiniteSet(DOMAIN u)
  BY DEF CopyCount
<1> QED BY <1>1, <1>2, <1>3, SumBelow

\* More copies of empty commands weigh nothing.
LEMMA PayloadOfEmpty ==
    ASSUME NEW u, CopyCount(u), NEW v, CopyCount(v), DOMAIN u \subseteq DOMAIN v,
           \A c \in DOMAIN u : c.length = 0 \/ v[c] = u[c],
           \A c \in DOMAIN v \ DOMAIN u : c.length = 0
    PROVE  Payload(v) = Payload(u)
<1>1. /\ Payload(u) = SumFunctionOnSet(Weights(u), DOMAIN u) /\ Numeric(Weights(u), DOMAIN u)
      /\ Payload(v) = SumFunctionOnSet(Weights(v), DOMAIN v) /\ Numeric(Weights(v), DOMAIN v)
  BY PayloadIs
<1>2. IsFiniteSet(DOMAIN u) /\ IsFiniteSet(DOMAIN v) /\ DOMAIN u \in SUBSET DOMAIN v
  BY DEF CopyCount
<1>3. \A n \in Nat : n * 0 = 0
  OBVIOUS
<1>4. \A c \in DOMAIN v \ DOMAIN u : Weights(v)[c] = 0
  BY <1>3, PayloadIs
<1>5. SumFunctionOnSet(Weights(v), DOMAIN v) = SumFunctionOnSet(Weights(v), DOMAIN u)
  BY <1>1, <1>2, <1>4, SumOfZeros
<1>6. ASSUME NEW c \in DOMAIN u PROVE Weights(u)[c] = Weights(v)[c]
  <2>1. /\ Weights(u)[c] = u[c] * c.length /\ Weights(v)[c] = v[c] * c.length
        /\ u[c] \in Nat /\ v[c] \in Nat
    BY <1>2, PayloadIs
  <2>2. CASE c.length = 0
    BY <1>3, <2>1, <2>2
  <2>3. CASE v[c] = u[c]
    BY <2>1, <2>3
  <2> QED BY <2>2, <2>3
<1>7. SumFunctionOnSet(Weights(u), DOMAIN u) = SumFunctionOnSet(Weights(v), DOMAIN u)
  BY <1>1, <1>2, <1>6, SumSame
<1> QED BY <1>1, <1>5, <1>7

\* Copies of commands that wait for their acknowledgements weigh no more than
\* those.
LEMMA PayloadIsWeighed ==
    ASSUME Unwrapped, NEW u, CopyCount(u), NEW p \in Pod, Weighed(p),
           \A c \in DOMAIN u : IF HasChannel(c) THEN u[c] > 0 => c \in ToSet(p.sent) /\ u[c] = 1
                                                ELSE c.length = 0
    PROVE  Payload(u) <= Max(IN_TRANSIT_LIMITS)
<1> DEFINE both == {c \in DOMAIN u : c \in Carried(p)}
<1>1. /\ Payload(u) = SumFunctionOnSet(Weights(u), DOMAIN u) /\ Numeric(Weights(u), DOMAIN u)
      /\ \A c \in DOMAIN u : /\ u[c] \in Nat /\ c.length \in Nat
                             /\ Weights(u)[c] = u[c] * c.length /\ Weights(u)[c] \in Nat
  BY PayloadIs
<1>2. /\ IsFiniteSet(Carried(p)) /\ Carried(p) \subseteq Command
      /\ \A c \in Command : Length[c] = c.length /\ Length[c] \in Nat
  BY CarriedIsFinite
<1>3. IsFiniteSet(DOMAIN u) /\ both \in SUBSET DOMAIN u /\ both \in SUBSET Carried(p)
      /\ both \in SUBSET Command
  BY <1>2 DEF CopyCount
<1>4. IsFiniteSet(both)
  BY <1>3, FS_Subset
<1>5. ASSUME NEW c \in DOMAIN u \ both PROVE Weights(u)[c] = 0
  <2>1. PICK a \in Nat, l \in Nat : a = u[c] /\ l = c.length /\ Weights(u)[c] = a * l
    BY <1>1
  <2>2. a = 0 \/ l = 0
    BY <2>1 DEF Carried
  <2>3. a * 0 = 0 /\ 0 * l = 0
    OBVIOUS
  <2> QED BY <2>1, <2>2, <2>3
<1>6. SumFunctionOnSet(Weights(u), DOMAIN u) = SumFunctionOnSet(Weights(u), both)
  <2> HIDE DEF both
  <2> QED BY <1>1, <1>3, <1>5, SumOfZeros
<1>7. ASSUME NEW c \in both PROVE Weights(u)[c] <= Length[c]
  <2>1. PICK a \in Nat, l \in Nat :
           a = u[c] /\ l = c.length /\ Weights(u)[c] = a * l /\ Length[c] = l
    BY <1>1, <1>2
  <2>2. a = 0 \/ a = 1
    BY <2>1 DEF Carried
  <2>3. 0 * l = 0 /\ 1 * l = l
    OBVIOUS
  <2> QED BY <2>1, <2>2, <2>3
<1>8. Numeric(Weights(u), both) /\ Numeric(Length, both)
  <2> HIDE DEF both
  <2>1. \A c \in both : Weights(u)[c] \in Nat /\ Length[c] \in Nat
    BY <1>1, <1>2, <1>3
  <2> QED BY <2>1 DEF Numeric
<1>9. SumFunctionOnSet(Weights(u), both) <= SumFunctionOnSet(Length, both)
  <2> HIDE DEF both
  <2> QED BY <1>4, <1>7, <1>8, SumBelow
<1>10. /\ SumFunctionOnSet(Length, both) <= SumFunctionOnSet(Length, Carried(p))
       /\ SumFunctionOnSet(Length, both) \in Nat /\ SumFunctionOnSet(Length, Carried(p)) \in Nat
  <2> HIDE DEF both
  <2>1. \A c \in Carried(p) : Length[c] \in Nat
    BY <1>2
  <2> QED BY <1>2, <1>3, <2>1, SumOfFewer
<1>11. SumFunctionOnSet(Weights(u), both) \in Int /\ Max(IN_TRANSIT_LIMITS) \in Nat
  <2> HIDE DEF both
  <2> QED BY <1>4, <1>8, SumIsInt, MaxLimit
<1>12. SumFunctionOnSet(Length, Carried(p)) <= Max(IN_TRANSIT_LIMITS)
  BY DEF Weighed
<1> HIDE DEF both
<1> QED BY <1>1, <1>6, <1>9, <1>10, <1>11, <1>12

\* What holds of the data under way.
Within ==
    /\ IsFiniteSet(DOMAIN under_way)
    /\ \A c \in DOMAIN under_way : Fits(c)
    /\ Light(pod)
    /\ Open => Weighed(pod)
    /\ WithinWindowSize

LEMMA UnderWayCounts ==
    ASSUME Typed, IsFiniteSet(DOMAIN under_way)
    PROVE  CopyCount(under_way)
  BY DEF Typed, CopyCount

LEMMA WithinInit == Unwrapped /\ Init => Within
<1> SUFFICES ASSUME Unwrapped, Init PROVE Within
  OBVIOUS
<1>1. PICK p \in Pod : p = EmptyPod /\ p = pod
  BY EmptyPodLemma DEF Init
<1>2. p.outgoing = <<>> /\ p.sent = <<>> /\ p.attempted = {} /\ p.transit = 0
  BY <1>1 DEF EmptyPod
<1>3. ToSet(<<>>) = {}
  BY DEF ToSet
<1>4. Light(p)
  BY <1>2, <1>3 DEF Light, Known
<1>5. Weighed(p)
  <2>1. Carried(p) = {}
    BY <1>2, <1>3 DEF Carried
  <2> QED BY <1>2, <2>1, SumEmpty, MaxLimit DEF Weighed
<1>6. DOMAIN under_way = {}
  BY DEF Init
<1>7. IsFiniteSet(DOMAIN under_way)
  BY <1>6, FS_EmptySet
<1>8. CopyCount(under_way)
  BY <1>7, InvInit, UnderWayCounts DEF Inv
<1>9. Payload(under_way) = 0
  BY <1>6, <1>8, SumEmpty, PayloadIs
<1> QED BY <1>1, <1>4, <1>5, <1>6, <1>7, <1>9, MaxLimit DEF Within, WithinWindowSize

\* What is left of the data under way when a copy arrives or is lost.
LEMMA WithinFewer ==
    ASSUME Unwrapped, Typed, Typed', Within, NEW c \in DOMAIN under_way, Copies(c) > 0,
           under_way' = [under_way EXCEPT ![c] = @ - 1]
    PROVE  /\ IsFiniteSet(DOMAIN under_way') /\ WithinWindowSize'
           /\ \A d \in DOMAIN under_way' : Fits(d)
<1>1. PICK u, v : u = under_way /\ v = under_way'
  OBVIOUS
<1>2. DOMAIN v = DOMAIN u /\ IsFiniteSet(DOMAIN u)
  BY <1>1 DEF Within
<1>3. CopyCount(u) /\ CopyCount(v)
  BY <1>1, <1>2 DEF Typed, CopyCount
<1>4. \A d \in DOMAIN u : v[d] <= u[d]
  <2>1. \A d \in DOMAIN u : u[d] \in Nat
    BY <1>3, PayloadIs
  <2> QED BY <1>1, <2>1
<1>5. PICK x, y : x = Payload(v) /\ y = Payload(u) /\ x <= y
  BY <1>2, <1>3, <1>4, PayloadOfFewer
<1>6. x \in Int /\ y \in Int
  BY <1>2, <1>3, <1>5, PayloadIs, SumIsInt
<1>7. WithinWindowSize'
  BY <1>1, <1>5, <1>6, MaxLimit DEF Within, WithinWindowSize
<1> QED BY <1>1, <1>2, <1>7 DEF Within

LEMMA WithinSend ==
    ASSUME Unwrapped, Inv, Within, NEW ch \in CHANNELS, NEW lengths \in Messages,
           Send(ch, lengths)
    PROVE  Within'
<1>1. pod' = QueueMessage(pod, ch, lengths) /\ UNCHANGED <<state, under_way>>
  BY DEF Send
<1>2. ch \in Numbered /\ lengths \in Seq(Nat) /\ pod \in Pod
  BY SenderConstants DEF Numbered, Inv, Typed
<1>3. Light(pod')
  BY <1>1, <1>2, QueueLight DEF Within
<1>4. pod'.transit = pod.transit /\ pod'.sent = pod.sent
  BY <1>1, <1>2, QueueTransit, SendEffect
<1>5. Weighed(pod) => Weighed(pod')
  BY <1>4 DEF Weighed, Carried
<1> QED BY <1>1, <1>3, <1>5 DEF Within, Open, WithinWindowSize

LEMMA WithinGiveUp ==
    ASSUME Unwrapped, Inv, Within, NEW expired, NEW p, GiveUp(expired, p), Quiet(pod, expired)
    PROVE  Within'
<1>1. pod' = Timeout(pod, expired) /\ Sound(pod) /\ UNCHANGED <<state, under_way>>
  BY DEF GiveUp, Inv, Typed, Sound
<1>2. Light(pod') /\ (Weighed(pod) => Weighed(pod'))
  BY <1>1, TimeoutWeighed DEF Within
<1> QED BY <1>1, <1>2 DEF Within, Open, WithinWindowSize

LEMMA WithinDisconnectLater ==
    ASSUME Unwrapped, Inv, Within, DisconnectLater
    PROVE  Within'
<1>1. UNCHANGED under_way
  BY DEF DisconnectLater
<1>2. CASE state' = "DISCONNECT_LATER"
  <2>1. Open /\ UNCHANGED pod
    BY <1>2 DEF DisconnectLater, Open
  <2> QED BY <1>1, <2>1 DEF Within, WithinWindowSize
<1>3. CASE state' = "DISCONNECTING"
  <2>1. ~Open' /\ pod' = Disconnected(pod) /\ pod \in Pod
    BY <1>3 DEF DisconnectLater, Open, Inv, Typed
  <2>2. Light(pod')
    BY <2>1, DisconnectedKnows DEF Light, Fits
  <2> QED BY <1>1, <2>1, <2>2 DEF Within, WithinWindowSize
<1> QED BY <1>2, <1>3, DisconnectLaterEffect

LEMMA WithinPoll ==
    ASSUME Unwrapped, Inv, Inv', Tidy, Tidy', Within,
           NEW expired \in SUBSET Expirable, SendOutgoingCommands(expired, ROOMS),
           Quiet(pod, expired)
    PROVE  Within'
<1>1. Light(pod') /\ UNCHANGED state /\ (Open => Weighed(pod'))
  <2>1. UNCHANGED state
    BY DEF SendOutgoingCommands
  <2> QED BY <2>1, PollWeighed DEF Within, Tidy
<1>2. PICK copies \in Seq(Command) :
         ToSet(copies) \subseteq ToSet(pod'.sent) /\ under_way' = Transmitted(copies)
  <2>1. Poll
    BY DEF Poll
  <2> QED BY <2>1, PollEffect
<1>3. PICK u, v : u = under_way /\ v = under_way'
  OBVIOUS
<1>4. /\ DOMAIN v = DOMAIN u \cup ToSet(copies)
      /\ \A c \in DOMAIN v : v[c] = Copies(c) + Cardinality({i \in DOMAIN copies : copies[i] = c})
  <2>1. Typed
    BY DEF Inv
  <2> QED BY <1>2, <1>3, <2>1, TransmittedLemma
<1>5. IsFiniteSet(DOMAIN u) /\ IsFiniteSet(DOMAIN v)
  <2>1. IsFiniteSet(DOMAIN u) /\ IsFiniteSet(ToSet(copies))
    BY <1>3, SentIsFinite DEF Within
  <2> QED BY <1>4, <2>1, FS_Union
<1>6. CopyCount(u) /\ CopyCount(v)
  BY <1>3, <1>5 DEF Inv, Typed, CopyCount
<1>7. ToSet(copies) \subseteq Known(pod')
  <2>1. pod'.sent = pod'.sent /\ ToSet(pod'.sent) \subseteq pod'.attempted
    BY DEF Inv, Orderly, SentIsAttempted
  <2> QED BY <1>2, <2>1 DEF Known
<1>8. \A c \in DOMAIN v : Fits(c)
  BY <1>1, <1>3, <1>4, <1>7 DEF Light, Within
<1>9. Payload(v) <= Max(IN_TRANSIT_LIMITS)
  <2>1. CASE Open
    <3>1. UnderWayIsSent' /\ Weighed(pod')
      BY <1>1, <2>1 DEF Tidy, Open
    <3>2. PICK p \in Pod : p = pod' /\ Weighed(p)
      BY <3>1 DEF Inv, Typed
    <3>3. ASSUME NEW c \in DOMAIN v
          PROVE  IF HasChannel(c) THEN v[c] > 0 => c \in ToSet(p.sent) /\ v[c] = 1
                                  ELSE c.length = 0
      BY <1>3, <1>8, <3>1, <3>2 DEF UnderWayIsSent, Copies, Fits
    <3> QED BY <1>6, <3>2, <3>3, PayloadIsWeighed
  <2>2. CASE ~Open
    <3>1. \A c \in ToSet(copies) : c.length = 0
      BY <1>1, <1>7, <2>2 DEF Tidy, Open, Light, Fits
    <3>2. ASSUME NEW c \in DOMAIN u, c \notin ToSet(copies) PROVE v[c] = u[c]
      <4>1. {i \in DOMAIN copies : copies[i] = c} = {}
        BY <3>2 DEF ToSet
      <4>2. v[c] = Copies(c) + 0 /\ Copies(c) = u[c]
        BY <1>3, <1>4, <4>1, FS_EmptySet DEF Copies
      <4>3. u[c] \in Nat
        BY <1>6, PayloadIs
      <4> QED BY <4>2, <4>3
    <3>3. Payload(v) = Payload(u)
      BY <1>4, <1>6, <3>1, <3>2, PayloadOfEmpty
    <3> QED BY <1>3, <3>3 DEF Within, WithinWindowSize
  <2> QED BY <2>1, <2>2
<1> QED BY <1>1, <1>3, <1>5, <1>8, <1>9 DEF Within, Open, WithinWindowSize

LEMMA WithinAcknowledge ==
    ASSUME Unwrapped, Inv, Inv', Tidy, Within, NEW c \in DOMAIN under_way, HandleAcknowledge(c)
    PROVE  Within'
<1>1. Copies(c) > 0 /\ under_way' = [under_way EXCEPT ![c] = @ - 1]
  BY DEF HandleAcknowledge
<1>2. /\ IsFiniteSet(DOMAIN under_way') /\ WithinWindowSize'
      /\ \A d \in DOMAIN under_way' : Fits(d)
  BY <1>1, WithinFewer DEF Inv
<1>3. CASE state = "DISCONNECTED"
  <2>1. UNCHANGED <<state, pod>>
    BY <1>3 DEF HandleAcknowledge
  <2> QED BY <1>2, <2>1 DEF Within, Open
<1>4. ASSUME state # "DISCONNECTED" PROVE Light(pod') /\ (Open' => Weighed(pod'))
  <2>1. PICK p : p = pod /\ Sound(p) /\ Light(p)
    BY <1>4 DEF Inv, Typed, Sound, Within
  <2> DEFINE Found(q) == \E k \in DOMAIN p.sent : /\ Acknowledges(p, c.channel, Rsn(c), k)
                                                   /\ q = RemoveSentReliableCommand(p, k)
  <2>2. PICK q : \/ Found(q) /\ AfterAcknowledge(q, TRUE)
                 \/ q = p /\ AfterAcknowledge(q, FALSE)
    BY <1>4, <2>1 DEF HandleAcknowledge
  <2>3. Sound(q) /\ Known(q) = Known(p)
    <3>1. Sound(q) /\ q.outgoing = p.outgoing /\ q.attempted = p.attempted
      BY <2>1, <2>2, RemovedEffect
    <3> QED BY <3>1 DEF Known
  <2>4. Light(q)
    BY <2>1, <2>3 DEF Light
  <2>5. ASSUME Open PROVE Weighed(q)
    <3>1. Distinct(p) /\ Weighed(p)
      BY <2>1, <2>5 DEF Tidy, Neat, Within
    <3>2. ASSUME NEW k \in DOMAIN p.sent PROVE Weighed(RemoveSentReliableCommand(p, k))
      <4>1. p.sent[k] \in Known(p)
        BY <2>1 DEF Sound, Orderly, SentIsAttempted, ToSet, Known
      <4>2. Fits(p.sent[k]) /\ p \in Pod
        BY <2>1, <4>1 DEF Light, Sound
      <4> QED BY <3>1, <4>2, RemovedWeighed
    <3> QED BY <2>2, <3>1, <3>2
  <2>6. \/ pod' = q /\ state' = state
        \/ pod' = Disconnected(q) /\ state' = "DISCONNECTING"
        \/ pod' = Reset(q) /\ state' = "DISCONNECTED"
    BY <2>2 DEF AfterAcknowledge
  <2>7. CASE pod' = q /\ state' = state
    BY <2>4, <2>5, <2>7 DEF Open
  <2>8. CASE pod' = Disconnected(q) /\ state' = "DISCONNECTING"
    BY <2>3, <2>8, DisconnectedKnows DEF Sound, Light, Fits, Open
  <2>9. CASE pod' = Reset(q) /\ state' = "DISCONNECTED"
    <3>1. PICK r : r = Reset(q) /\ r.attempted = q.attempted /\ r.outgoing = q.outgoing
      BY <2>3, ResetEffect DEF Sound
    <3>2. Known(r) = Known(q)
      BY <3>1 DEF Known
    <3> QED BY <2>4, <2>9, <3>1, <3>2 DEF Light, Open
  <2> QED BY <2>6, <2>7, <2>8, <2>9
<1> QED BY <1>2, <1>3, <1>4 DEF Within

LEMMA WithinNext ==
    ASSUME Unwrapped, Inv, Inv', Tidy, Tidy', Within, [Next]_vars, SentOnce'
    PROVE  Within'
<1>1. ASSUME NEW ch \in CHANNELS, NEW lengths \in Messages, Send(ch, lengths) PROVE Within'
  BY <1>1, WithinSend
<1>2. ASSUME NEW expired \in SUBSET Expirable, SendOutgoingCommands(expired, ROOMS) PROVE Within'
  <2>1. Quiet(pod, expired)
    BY <1>2, PollNeat DEF SentOnce
  <2> QED BY <1>2, <2>1, WithinPoll
<1>3. ASSUME NEW expired, NEW p, GiveUp(expired, p) PROVE Within'
  <2>1. pod' = Timeout(pod, expired) /\ Sound(pod)
    BY <1>3 DEF GiveUp, Inv, Typed, Sound
  <2>2. Quiet(pod, expired)
    BY <2>1, TimeoutNeat DEF SentOnce
  <2> QED BY <1>3, <2>2, WithinGiveUp
<1>4. ASSUME NEW c \in DOMAIN under_way, HandleAcknowledge(c) PROVE Within'
  BY <1>4, WithinAcknowledge
<1>5. ASSUME NEW c \in DOMAIN under_way, Lose(c) PROVE Within'
  <2>1. /\ Copies(c) > 0 /\ under_way' = [under_way EXCEPT ![c] = @ - 1]
        /\ UNCHANGED <<state, pod>>
    BY <1>5 DEF Lose
  <2>2. /\ IsFiniteSet(DOMAIN under_way') /\ WithinWindowSize'
        /\ \A d \in DOMAIN under_way' : Fits(d)
    BY <2>1, WithinFewer DEF Inv
  <2> QED BY <2>1, <2>2 DEF Within, Open
<1>6. CASE DisconnectLater
  BY <1>6, WithinDisconnectLater
<1>7. CASE UNCHANGED vars
  BY <1>7 DEF vars, Within, Open, WithinWindowSize
<1> QED BY <1>1, <1>2, <1>3, <1>4, <1>5, <1>6, <1>7 DEF Next, Poll

\* As long as no command is sent twice, the payload under way stays within the
\* largest window size, whatever the messages and however they are acknowledged:
\* LoadReliableCommands compares the counter of data in transit with the limit,
\* and the counter is the sum of what the sent list holds.
THEOREM StaysWithinWindowSize == Unwrapped => (Spec /\ []SentOnce => []WithinWindowSize)
<1> SUFFICES ASSUME Unwrapped PROVE Spec /\ []SentOnce => []WithinWindowSize
  OBVIOUS
<1>1. Init => Within
  BY WithinInit
<1>2. Inv /\ Inv' /\ Tidy /\ Tidy' /\ Within /\ [Next]_vars /\ SentOnce' => Within'
  BY WithinNext
<1>3. Within => WithinWindowSize
  BY DEF Within
<1> QED BY <1>1, <1>2, <1>3, SenderInvariant, StaysTidy, PTL DEF Spec

\* A peer whose timeouts never precede an answer and whose network loses
\* nothing does all this without a premise about its behaviour: what a window
\* holds is marked, numbers stay apart, nothing is forgotten, and the payload
\* under way stays within the window size.
THEOREM PromptIsSafe ==
    Prompt /\ Unwrapped =>
       (Spec => [](UsedWindowsAreMarked /\ NumbersStayApart /\ NothingForgotten
                      /\ WithinWindowSize))
<1> SUFFICES ASSUME Prompt, Unwrapped
             PROVE  Spec => [](UsedWindowsAreMarked /\ NumbersStayApart /\ NothingForgotten
                                  /\ WithinWindowSize)
  OBVIOUS
<1>1. Spec => []SentOnce
  BY PromptSendsOnce
<1>2. Spec /\ []SentOnce => []WithinWindowSize
  BY StaysWithinWindowSize
<1> QED BY <1>1, <1>2, WindowsStayMarked, NumbersAreApart, NothingIsForgottenEver, PTL
=============================================================================
