-------------------------- MODULE Interleave_proofs --------------------------
(* That packets leave in order, without a gap and in sync, for any intervals, *)
(* any clocks of the encoders, any packets they are at when the output starts *)
(* and any number of starts.                                                  *)
(*                                                                            *)
(* The queue is sorted by time stamps, so a prefix of it is older than the    *)
(* rest of each stream.  All that is done to it is to insert a packet, to     *)
(* drop a prefix, to move each stream by an offset and to sort again; each    *)
(* keeps every stream in an unbroken chain from its oldest packet that is     *)
(* still known to the one its encoder produces next (Chain).  The invariants  *)
(* are stated of an output, what it sent and the state of the encoders, so    *)
(* that each operator has a lemma without primes.                             *)
EXTENDS Interleave, SumTheorems, SequenceTheorems, TLAPS

-----------------------------------------------------------------------------
(* Least and greatest elements.                                               *)

\* A set of naturals has a least element.
LEMMA MinOf ==
    ASSUME NEW S, S \subseteq Nat, S # {}
    PROVE  Min(S) \in S /\ \A y \in S : Min(S) <= y
<1>1. \E x \in S : \A y \in S : x <= y
  BY LeastOf
<1> QED  BY <1>1 DEF Min

\* A bounded set of naturals has a greatest element.
LEMMA MaxOf ==
    ASSUME NEW n \in Nat, NEW S, S \subseteq 0 .. n, S # {}
    PROVE  Max(S) \in S /\ \A y \in S : Max(S) >= y
<1> DEFINE T == {n - x : x \in S}
<1>1. T \subseteq Nat /\ T # {}
  <2>1. \A x \in S : n - x \in Nat
    OBVIOUS
  <2> QED  BY <2>1
<1>2. PICK m \in T : \A y \in T : m <= y
  BY <1>1, LeastOf
<1>3. PICK x \in S : m = n - x
  OBVIOUS
<1>4. \A y \in S : x >= y
  <2> TAKE y \in S
  <2>1. n - y \in T
    OBVIOUS
  <2>2. n - x <= n - y
    BY <1>2, <1>3, <2>1
  <2> QED  BY <2>2
<1> QED  BY <1>3, <1>4 DEF Max

\* The greater of two.
LEMMA MaxOfTwo ==
    ASSUME NEW a \in Int, NEW b \in Int
    PROVE  /\ Max({a, b}) \in {a, b}
           /\ Max({a, b}) >= a /\ Max({a, b}) >= b
<1>1. \E x \in {a, b} : \A y \in {a, b} : x >= y
  OBVIOUS
<1> QED  BY <1>1 DEF Max

\* So has a finite set of naturals.
LEMMA MaxOfFinite ==
    ASSUME NEW S, IsFiniteSet(S), S \subseteq Nat, S # {}
    PROVE  Max(S) \in S /\ \A y \in S : Max(S) >= y
<1> DEFINE P == {T \in SUBSET S : T # {} => \E x \in T : \A y \in T : x >= y}
<1>1. {} \in P
  OBVIOUS
<1>2. ASSUME NEW T \in SUBSET S, T # {}, \A x \in T : T \ {x} \in P
      PROVE  T \in P
  <2>1. PICK a \in T : TRUE
    BY <1>2
  <2>2. CASE T \ {a} = {}
    <3>1. \A y \in T : a >= y
      BY <2>1, <2>2
    <3> QED  BY <2>1, <3>1
  <2>3. CASE T \ {a} # {}
    <3>1. PICK b \in T \ {a} : \A y \in T \ {a} : b >= y
      BY <1>2, <2>1, <2>3
    <3>2. a \in Nat /\ b \in Nat
      BY <2>1, <3>1
    <3>3. (\A y \in T : a >= y) \/ (\A y \in T : b >= y)
      BY <3>1, <3>2
    <3> QED  BY <2>1, <3>1, <3>3
  <2> QED  BY <2>2, <2>3
<1> HIDE DEF P
<1>3. SUBSET S \subseteq P
  BY <1>1, <1>2, FiniteInduction
<1>4. \E x \in S : \A y \in S : x >= y
  BY <1>3 DEF P
<1> QED  BY <1>4 DEF Max

-----------------------------------------------------------------------------
(* Sequences: one more element, a prefix less.                                *)

\* r is q with e inserted at position at.
Inserted(q, r, at, e) ==
    /\ at \in 1 .. Len(q) + 1
    /\ Len(r) = Len(q) + 1
    /\ \A k \in 1 .. Len(r) : r[k] = IF k < at THEN q[k] ELSE IF k = at THEN e ELSE q[k - 1]

\* A sequence with an element put in at a position.
LEMMA InsertAtInserts ==
    ASSUME NEW S, NEW q \in Seq(S), NEW e \in S, NEW at \in 1 .. Len(q) + 1
    PROVE  InsertAt(q, at, e) \in Seq(S) /\ Inserted(q, InsertAt(q, at, e), at, e)
<1> DEFINE l == SubSeq(q, 1, at - 1)
           m == <<e>>
           r == SubSeq(q, at, Len(q))
<1>0. Len(q) \in Nat
  BY LenProperties
<1>1. /\ l \in Seq(S) /\ Len(l) = at - 1
      /\ \A k \in 1 .. at - 1 : l[k] = q[k]
  <2>1. 1 \in 1 .. Len(q) + 1 /\ at - 1 \in 0 .. Len(q)
    BY <1>0
  <2> QED  BY <1>0, <2>1, SubSeqProperties
<1>2. /\ r \in Seq(S) /\ Len(r) = Len(q) - at + 1
      /\ \A k \in 1 .. Len(q) - at + 1 : r[k] = q[at + k - 1]
  BY <1>0, SubSeqProperties
<1>3. m \in Seq(S) /\ Len(m) = 1 /\ m[1] = e
  OBVIOUS
<1> HIDE DEF l, m, r
<1>4. /\ l \o m \in Seq(S) /\ Len(l \o m) = Len(l) + Len(m)
      /\ \A k \in 1 .. Len(l) + Len(m) :
            (l \o m)[k] = IF k <= Len(l) THEN l[k] ELSE m[k - Len(l)]
  BY <1>1, <1>3, ConcatProperties
<1> DEFINE n == l \o m
<1>5. n \in Seq(S) /\ Len(n) = at /\ \A k \in 1 .. at : n[k] = IF k < at THEN q[k] ELSE e
  BY <1>0, <1>1, <1>3, <1>4
<1> HIDE DEF n
<1>6. /\ n \o r \in Seq(S) /\ Len(n \o r) = Len(n) + Len(r)
      /\ \A k \in 1 .. Len(n) + Len(r) :
            (n \o r)[k] = IF k <= Len(n) THEN n[k] ELSE r[k - Len(n)]
  <2>1. n \in Seq(S) /\ r \in Seq(S)
    BY <1>2, <1>5
  <2> QED  BY <2>1, ConcatProperties, Zenon
<1>6a. Len(n) = at /\ Len(n) + Len(r) = Len(q) + 1
  BY <1>0, <1>2, <1>5
<1>7. \A k \in 1 .. Len(q) + 1 :
         (n \o r)[k] = IF k < at THEN q[k] ELSE IF k = at THEN e ELSE q[k - 1]
  <2> TAKE k \in 1 .. Len(q) + 1
  <2>1. CASE k <= at
    BY <1>0, <1>5, <1>6, <1>6a, <2>1
  <2>2. CASE k > at
    <3>1. k - at \in 1 .. Len(q) - at + 1 /\ at + (k - at) - 1 = k - 1
      BY <1>0, <2>2
    <3>2. r[k - at] = q[at + (k - at) - 1]
      BY <1>2, <3>1
    <3>3. (n \o r)[k] = r[k - at]
      BY <1>0, <1>6, <1>6a, <2>2
    <3>4. (n \o r)[k] = q[k - 1]
      BY <3>1, <3>2, <3>3
    <3>5. ~ (k < at) /\ k # at
      BY <1>0, <2>2
    <3> QED  BY <3>4, <3>5, Zenon
  <2>3. k <= at \/ k > at
    BY <1>0
  <2> QED  BY <2>1, <2>2, <2>3, Zenon
<1>8. InsertAt(q, at, e) = n \o r
  BY DEF InsertAt, n, l, m, r
<1> QED  BY <1>0, <1>6, <1>6a, <1>7, <1>8 DEF Inserted

\* r is q without its first n elements.
Dropped(q, r, n) ==
    /\ n \in 0 .. Len(q)
    /\ Len(r) = Len(q) - n
    /\ \A k \in 1 .. Len(r) : r[k] = q[k + n]

\* A sequence without its first n elements.
LEMMA SubSeqDrops ==
    ASSUME NEW S, NEW q \in Seq(S), NEW n \in 0 .. Len(q)
    PROVE  /\ SubSeq(q, n + 1, Len(q)) \in Seq(S)
           /\ Dropped(q, SubSeq(q, n + 1, Len(q)), n)
<1> DEFINE r == SubSeq(q, n + 1, Len(q))
<1>0. Len(q) \in Nat
  BY LenProperties
<1>1. /\ r \in Seq(S) /\ Len(r) = Len(q) - (n + 1) + 1
      /\ \A k \in 1 .. Len(q) - (n + 1) + 1 : r[k] = q[(n + 1) + k - 1]
  BY <1>0, SubSeqProperties
<1> HIDE DEF r
<1>2. Len(r) = Len(q) - n /\ \A k \in 1 .. Len(r) : r[k] = q[k + n]
  BY <1>0, <1>1
<1> QED  BY <1>1, <1>2 DEF Dropped, r

\* What is taken from the front of q and put behind h is not lost.
LEMMA Handed ==
    ASSUME NEW S, NEW h \in Seq(S), NEW q \in Seq(S), NEW n \in 0 .. Len(q)
    PROVE  (h \o SubSeq(q, 1, n)) \o SubSeq(q, n + 1, Len(q)) = h \o q
<1> DEFINE l == SubSeq(q, 1, n)
           r == SubSeq(q, n + 1, Len(q))
<1>0. Len(q) \in Nat
  BY LenProperties
<1>1. l \in Seq(S) /\ Len(l) = n /\ \A k \in 1 .. n : l[k] = q[k]
  BY <1>0, SubSeqProperties
<1>2. r \in Seq(S) /\ Len(r) = Len(q) - n /\ \A k \in 1 .. Len(r) : r[k] = q[k + n]
  BY SubSeqDrops DEF Dropped
<1> HIDE DEF l, r
<1>3. (h \o l) \o r = h \o (l \o r)
  <2>1. h \in Seq(S) /\ l \in Seq(S) /\ r \in Seq(S)
    BY <1>1, <1>2
  <2> QED  BY <2>1, ConcatAssociative
<1>4. l \o r = SubSeq(q, 1, Len(q))
  <2>1. /\ 1 \in 1 .. Len(q) + 1
        /\ n \in 1 - 1 .. Len(q) /\ Len(q) \in n .. Len(q)
    BY <1>0
  <2> QED  BY <2>1, ConcatAdjacentSubSeq, Zenon DEF l, r
<1>5. l \o r = q
  BY <1>4, SubSeqFull
<1> QED  BY <1>3, <1>5 DEF l, r

-----------------------------------------------------------------------------
(* Streams and packets.                                                       *)

Packet == [type : {"video", "audio"}, track_idx : Nat, keyframe : BOOLEAN,
           dts : Int, dts_usec : Int, sys_dts_usec : Int]

StreamOf(p) == <<p.type, p.track_idx>>

\* The packets of the output's encoders.
Packets == {p \in Packet : StreamOf(p) \in Streams}

\* The fields of a packet.
LEMMA PacketFields ==
    ASSUME NEW p \in Packets
    PROVE  /\ p.type \in {"video", "audio"} /\ p.track_idx \in Nat
           /\ p.dts \in Int /\ p.dts_usec \in Int /\ p.sys_dts_usec \in Int
           /\ StreamOf(p) \in Streams
BY DEF Packets, Packet

IsVideo(s) == s[1] = "video" /\ s[2] \in VideoTracks /\ s = <<"video", s[2]>>
IsAudio(s) == s[1] = "audio" /\ s[2] \in AudioTracks /\ s = <<"audio", s[2]>>

\* A stream is a kind and a number.
LEMMA StreamParts ==
    /\ \A s \in Streams : IsVideo(s) \/ IsAudio(s)
    /\ \A v \in VideoTracks : <<"video", v>> \in Streams
    /\ \A a \in AudioTracks : <<"audio", a>> \in Streams
    /\ \A s \in Streams : s[2] \in Nat
<1>1. \A s \in Streams : IsVideo(s) \/ IsAudio(s)
  BY DEF Streams, IsVideo, IsAudio
<1>2. /\ \A v \in VideoTracks : <<"video", v>> \in Streams
      /\ \A a \in AudioTracks : <<"audio", a>> \in Streams
  BY DEF Streams
<1>3. VideoTracks \subseteq Nat /\ AudioTracks \subseteq Nat
  BY InterleaveAssumption
<1> QED  BY <1>1, <1>2, <1>3 DEF IsVideo, IsAudio

\* Every encoder has a distance of its packets.
LEMMA IntervalType == \A s \in Streams : Interval(s) \in Nat /\ Interval(s) > 0
<1> SUFFICES ASSUME NEW s \in Streams  PROVE Interval(s) \in Nat \ {0}
  OBVIOUS
<1>1. CASE s[1] = "video"
  BY <1>1, InterleaveAssumption DEF Interval
<1>2. CASE s[1] = "audio" /\ s[2] \in AudioTracks
  BY <1>2, InterleaveAssumption DEF Interval
<1> QED  BY <1>1, <1>2, StreamParts DEF IsVideo, IsAudio

\* Every encoder's clock has a start.
LEMMA BaseType == \A s \in Streams : Base[s] \in Nat
BY InterleaveAssumption

\* A packet is of a stream of its kind and track.
LEMMA StreamOfParts ==
    ASSUME NEW p \in Packets
    PROVE  /\ StreamOf(p)[1] = p.type /\ StreamOf(p)[2] = p.track_idx
           /\ \A x, y : StreamOf(p) = <<x, y>> <=> p.type = x /\ p.track_idx = y
           /\ p.type = "video" => p.track_idx \in VideoTracks
           /\ p.type = "audio" => p.track_idx \in AudioTracks
<1>1. /\ StreamOf(p)[1] = p.type /\ StreamOf(p)[2] = p.track_idx
      /\ \A x, y : StreamOf(p) = <<x, y>> <=> p.type = x /\ p.track_idx = y
  BY DEF StreamOf
<1>2. StreamOf(p) \in Streams /\ p.type \in {"video", "audio"}
  BY PacketFields
<1> QED  BY <1>1, <1>2, StreamParts DEF IsVideo, IsAudio

-----------------------------------------------------------------------------
(* Queues of packets.                                                         *)

\* The time stamps of a queue are in order.
Ordered(q) == \A i, j \in 1 .. Len(q) : i < j => q[i].dts_usec <= q[j].dts_usec

\* The time stamps are those of the system but for what each stream is moved by.
Stamped(q, moved) ==
    \A i \in 1 .. Len(q) : q[i].dts_usec = q[i].sys_dts_usec - moved[StreamOf(q[i])]

\* When packet p ends and the next one of its stream begins.
EndOf(p) == p.sys_dts_usec + Interval(StreamOf(p))

\* Packets of a stream do not overlap, and are in the order of their times,
Rising(q) ==
    \A i, j \in 1 .. Len(q) : i < j /\ StreamOf(q[i]) = StreamOf(q[j])
                                => EndOf(q[i]) <= q[j].sys_dts_usec

\* each was produced before the next one of its stream,
Behind(q, next) == \A i \in 1 .. Len(q) : EndOf(q[i]) <= next[StreamOf(q[i])]

\* and is followed by another one of its stream, unless it is the newest.
Followed(q, next) ==
    \A i \in 1 .. Len(q) :
        \/ EndOf(q[i]) = next[StreamOf(q[i])]
        \/ \E j \in 1 .. Len(q) : StreamOf(q[j]) = StreamOf(q[i])
                                  /\ q[j].sys_dts_usec = EndOf(q[i])

Chain(q, next) == Rising(q) /\ Behind(q, next) /\ Followed(q, next)

\* A packet ends after it begins.
LEMMA EndOfType ==
    ASSUME NEW p \in Packets
    PROVE  EndOf(p) \in Int /\ p.sys_dts_usec < EndOf(p)
BY PacketFields, IntervalType DEF EndOf

Times == [Streams -> Int]

\* What is dropped from the front leaves chains.
LEMMA DroppedKeeps ==
    ASSUME NEW q \in Seq(Packets), NEW r \in Seq(Packets), NEW n, Dropped(q, r, n)
    PROVE  /\ Ordered(q) => Ordered(r)
           /\ \A moved \in Times : Stamped(q, moved) => Stamped(r, moved)
           /\ \A next \in Times : Chain(q, next) => Chain(r, next)
<1>0. /\ Len(q) \in Nat /\ Len(r) \in Nat
      /\ n \in 0 .. Len(q) /\ Len(r) = Len(q) - n
      /\ \A k \in 1 .. Len(r) : r[k] = q[k + n]
  BY LenProperties DEF Dropped
<1>1. \A k \in 1 .. Len(r) : k + n \in 1 .. Len(q) /\ r[k] = q[k + n] /\ r[k] \in Packets
  BY <1>0, ElementOfSeq
<1>2. \A i, j \in 1 .. Len(r) : i < j => i + n < j + n
  BY <1>0
<1>3. Ordered(q) => Ordered(r)
  BY <1>1, <1>2 DEF Ordered
<1>4. \A moved \in Times : Stamped(q, moved) => Stamped(r, moved)
  BY <1>1 DEF Stamped
<1>5. ASSUME NEW next \in Times, Chain(q, next)  PROVE Chain(r, next)
  <2>1. Rising(r)
    BY <1>1, <1>2, <1>5 DEF Chain, Rising
  <2>2. Behind(r, next)
    BY <1>1, <1>5 DEF Chain, Behind
  <2>3. ASSUME NEW i \in 1 .. Len(r), EndOf(r[i]) # next[StreamOf(r[i])]
        PROVE  \E j \in 1 .. Len(r) : StreamOf(r[j]) = StreamOf(r[i])
                                     /\ r[j].sys_dts_usec = EndOf(r[i])
    <3>1. i + n \in 1 .. Len(q) /\ r[i] = q[i + n] /\ r[i] \in Packets
      BY <1>1
    <3>2. PICK j \in 1 .. Len(q) : StreamOf(q[j]) = StreamOf(r[i])
                                 /\ q[j].sys_dts_usec = EndOf(r[i])
      BY <1>5, <2>3, <3>1 DEF Chain, Followed
    <3>3. q[j] \in Packets
      BY ElementOfSeq
    <3>4. ~ (j < i + n)
      <4>1. SUFFICES ASSUME j < i + n  PROVE FALSE
        OBVIOUS
      <4>2. EndOf(q[j]) <= r[i].sys_dts_usec
        BY <1>5, <3>1, <3>2, <4>1 DEF Chain, Rising
      <4> QED  BY <3>1, <3>2, <3>3, <4>2, EndOfType, PacketFields
    <3>5. j # i + n
      BY <3>1, <3>2, EndOfType, PacketFields
    <3>6. j - n \in 1 .. Len(r) /\ (j - n) + n = j
      BY <1>0, <3>1, <3>4, <3>5
    <3>7. r[j - n] = q[j]
      BY <1>0, <3>6
    <3> QED  BY <3>2, <3>6, <3>7
  <2>4. Followed(r, next)
    BY <2>3 DEF Followed
  <2> QED  BY <2>1, <2>2, <2>4 DEF Chain
<1> QED  BY <1>3, <1>4, <1>5

\* The packets of a queue.
Members(q) == {q[i] : i \in 1 .. Len(q)}

\* The packets of a queue, by position.
LEMMA MembersOf ==
    ASSUME NEW q \in Seq(Packets)
    PROVE  /\ \A i \in 1 .. Len(q) : q[i] \in Members(q) /\ q[i] \in Packets
           /\ \A p \in Members(q) : p \in Packets /\ \E i \in 1 .. Len(q) : p = q[i]
BY ElementOfSeq DEF Members

\* What follows from the packets alone.
LEMMA SameMembers ==
    ASSUME NEW q \in Seq(Packets), NEW r \in Seq(Packets), Members(r) = Members(q),
           NEW next \in Times
    PROVE  /\ Stamped(q, next) => Stamped(r, next)
           /\ Behind(q, next) => Behind(r, next)
           /\ Followed(q, next) => Followed(r, next)
<1>1. \A i \in 1 .. Len(r) : \E j \in 1 .. Len(q) : r[i] = q[j]
  BY MembersOf
<1>2. \A j \in 1 .. Len(q) : \E i \in 1 .. Len(r) : r[i] = q[j]
  BY MembersOf
<1>3. Stamped(q, next) => Stamped(r, next)
  BY <1>1 DEF Stamped
<1>4. Behind(q, next) => Behind(r, next)
  BY <1>1 DEF Behind
<1>5. ASSUME Followed(q, next), NEW i \in 1 .. Len(r), EndOf(r[i]) # next[StreamOf(r[i])]
      PROVE  \E k \in 1 .. Len(r) : StreamOf(r[k]) = StreamOf(r[i])
                                   /\ r[k].sys_dts_usec = EndOf(r[i])
  <2>1. PICK j \in 1 .. Len(q) : r[i] = q[j]
    BY <1>1
  <2>2. PICK l \in 1 .. Len(q) : StreamOf(q[l]) = StreamOf(q[j])
                               /\ q[l].sys_dts_usec = EndOf(q[j])
    BY <1>5, <2>1 DEF Followed
  <2>3. PICK k \in 1 .. Len(r) : r[k] = q[l]
    BY <1>2
  <2> QED  BY <2>1, <2>2, <2>3
<1>6. Followed(q, next) => Followed(r, next)
  BY <1>5 DEF Followed
<1> QED  BY <1>3, <1>4, <1>6

\* A queue whose packets are moved in time, each stream by as much.
Moved(q, r) ==
    /\ Len(r) = Len(q)
    /\ \A i \in 1 .. Len(q) : StreamOf(r[i]) = StreamOf(q[i])
                             /\ r[i].sys_dts_usec = q[i].sys_dts_usec

\* To move the streams leaves chains: they go by the system's clock.
LEMMA MovedKeeps ==
    ASSUME NEW q \in Seq(Packets), NEW r \in Seq(Packets), Moved(q, r),
           NEW next \in Times, Chain(q, next)
    PROVE  Chain(r, next)
<1>1. \A i \in 1 .. Len(q) : EndOf(r[i]) = EndOf(q[i])
  BY DEF EndOf, Moved
<1>2. Rising(r)
  BY <1>1 DEF Moved, Chain, Rising
<1>3. Behind(r, next)
  BY <1>1 DEF Moved, Chain, Behind
<1>4. Followed(r, next)
  BY <1>1 DEF Moved, Chain, Followed
<1> QED  BY <1>2, <1>3, <1>4 DEF Chain

\* What one more packet leaves as it is.
LEMMA InsertedMembers ==
    ASSUME NEW q \in Seq(Packets), NEW r \in Seq(Packets), NEW at, NEW e \in Packets,
           Inserted(q, r, at, e)
    PROVE  Members(r) = Members(q) \cup {e}
<1>0. /\ Len(q) \in Nat /\ Len(r) = Len(q) + 1 /\ at \in 1 .. Len(q) + 1
      /\ \A k \in 1 .. Len(r) : r[k] = IF k < at THEN q[k] ELSE IF k = at THEN e ELSE q[k - 1]
  BY LenProperties DEF Inserted
<1>1. ASSUME NEW k \in 1 .. Len(r)  PROVE r[k] \in Members(q) \cup {e}
  <2>1. CASE k < at
    BY <1>0, <2>1 DEF Members
  <2>2. CASE k = at
    BY <1>0, <2>2
  <2>3. CASE k > at
    <3>1. k - 1 \in 1 .. Len(q) /\ r[k] = q[k - 1]
      BY <1>0, <2>3
    <3> QED  BY <3>1 DEF Members
  <2> QED  BY <1>0, <2>1, <2>2, <2>3
<1>2. ASSUME NEW k \in 1 .. Len(q)  PROVE q[k] \in Members(r)
  <2>1. CASE k < at
    <3>1. k \in 1 .. Len(r) /\ r[k] = q[k]
      BY <1>0, <2>1
    <3> QED  BY <3>1 DEF Members
  <2>2. CASE k >= at
    <3>1. k + 1 \in 1 .. Len(r) /\ (k + 1) - 1 = k /\ ~ (k + 1 < at) /\ k + 1 # at
      BY <1>0, <2>2
    <3>2. r[k + 1] = q[k]
      BY <1>0, <3>1
    <3> QED  BY <3>1, <3>2 DEF Members
  <2> QED  BY <1>0, <2>1, <2>2
<1>3. e \in Members(r)
  <2>1. at \in 1 .. Len(r) /\ r[at] = e
    BY <1>0
  <2> QED  BY <2>1 DEF Members
<1> QED  BY <1>1, <1>2, <1>3 DEF Members

\* A packet put before those of later time stamps leaves the order.
LEMMA InsertedOrdered ==
    ASSUME NEW q \in Seq(Packets), NEW r \in Seq(Packets), NEW at, NEW e \in Packets,
           Inserted(q, r, at, e), Ordered(q),
           \A k \in 1 .. Len(q) : k < at => q[k].dts_usec <= e.dts_usec,
           \A k \in 1 .. Len(q) : k >= at => e.dts_usec <= q[k].dts_usec
    PROVE  Ordered(r)
<1>0. /\ Len(q) \in Nat /\ Len(r) = Len(q) + 1 /\ at \in 1 .. Len(q) + 1
      /\ \A k \in 1 .. Len(r) : r[k] = IF k < at THEN q[k] ELSE IF k = at THEN e ELSE q[k - 1]
  BY LenProperties DEF Inserted
<1>1. ASSUME NEW i \in 1 .. Len(r), NEW j \in 1 .. Len(r), i < j
      PROVE  r[i].dts_usec <= r[j].dts_usec
  <2>1. CASE j < at
    BY <1>0, <1>1, <2>1 DEF Ordered
  <2>2. CASE i < at /\ j = at
    <3>1. i \in 1 .. Len(q) /\ r[i] = q[i] /\ r[j] = e
      BY <1>0, <2>2
    <3>2. q[i].dts_usec <= e.dts_usec
      BY <2>2, <3>1
    <3> QED  BY <3>1, <3>2
  <2>3. CASE i < at /\ j > at
    <3>1. /\ i \in 1 .. Len(q) /\ j - 1 \in 1 .. Len(q) /\ i < j - 1
          /\ r[i] = q[i] /\ r[j] = q[j - 1]
      BY <1>0, <2>3
    <3> QED  BY <3>1 DEF Ordered
  <2>4. CASE i = at
    <3>1. j - 1 \in 1 .. Len(q) /\ j - 1 >= at /\ r[i] = e /\ r[j] = q[j - 1]
      BY <1>0, <1>1, <2>4
    <3>2. e.dts_usec <= q[j - 1].dts_usec
      BY <3>1
    <3> QED  BY <3>1, <3>2
  <2>5. CASE i > at
    <3>1. /\ i - 1 \in 1 .. Len(q) /\ j - 1 \in 1 .. Len(q) /\ i - 1 < j - 1
          /\ r[i] = q[i - 1] /\ r[j] = q[j - 1]
      BY <1>0, <1>1, <2>5
    <3> QED  BY <3>1 DEF Ordered
  <2> QED  BY <1>0, <1>1, <2>1, <2>2, <2>3, <2>4, <2>5
<1> QED  BY <1>1 DEF Ordered

\* The packet is the newest of its stream, and behind the others.
LEMMA InsertedRising ==
    ASSUME NEW q \in Seq(Packets), NEW r \in Seq(Packets), NEW at, NEW e \in Packets,
           Inserted(q, r, at, e), Rising(q),
           \A k \in 1 .. Len(q) : StreamOf(q[k]) = StreamOf(e)
                                    => k < at /\ EndOf(q[k]) <= e.sys_dts_usec
    PROVE  Rising(r)
<1>0. /\ Len(q) \in Nat /\ Len(r) = Len(q) + 1 /\ at \in 1 .. Len(q) + 1
      /\ \A k \in 1 .. Len(r) : r[k] = IF k < at THEN q[k] ELSE IF k = at THEN e ELSE q[k - 1]
  BY LenProperties DEF Inserted
<1>1. ASSUME NEW i \in 1 .. Len(r), NEW j \in 1 .. Len(r), i < j,
             StreamOf(r[i]) = StreamOf(r[j])
      PROVE  EndOf(r[i]) <= r[j].sys_dts_usec
  <2>1. CASE j < at
    <3>1. i \in 1 .. Len(q) /\ j \in 1 .. Len(q) /\ r[i] = q[i] /\ r[j] = q[j]
      BY <1>0, <1>1, <2>1
    <3> QED  BY <1>1, <3>1 DEF Rising
  <2>2. CASE i < at /\ j = at
    <3>1. i \in 1 .. Len(q) /\ r[i] = q[i] /\ r[j] = e
      BY <1>0, <2>2
    <3> QED  BY <1>1, <3>1
  <2>3. CASE i < at /\ j > at
    <3>1. /\ i \in 1 .. Len(q) /\ j - 1 \in 1 .. Len(q) /\ i < j - 1
          /\ r[i] = q[i] /\ r[j] = q[j - 1]
      BY <1>0, <2>3
    <3> QED  BY <1>1, <3>1 DEF Rising
  <2>4. CASE i = at
    <3>1. j - 1 \in 1 .. Len(q) /\ ~ (j - 1 < at) /\ r[i] = e /\ r[j] = q[j - 1]
      BY <1>0, <1>1, <2>4
    <3> QED  BY <1>1, <3>1
  <2>5. CASE i > at
    <3>1. /\ i - 1 \in 1 .. Len(q) /\ j - 1 \in 1 .. Len(q) /\ i - 1 < j - 1
          /\ r[i] = q[i - 1] /\ r[j] = q[j - 1]
      BY <1>0, <1>1, <2>5
    <3> QED  BY <1>1, <3>1 DEF Rising
  <2> QED  BY <1>0, <1>1, <2>1, <2>2, <2>3, <2>4, <2>5
<1> QED  BY <1>1 DEF Rising

\* A chain with the next packet of a stream at its end.
LEMMA InsertedChain ==
    ASSUME NEW q \in Seq(Packets), NEW r \in Seq(Packets), NEW at, NEW e \in Packets,
           Inserted(q, r, at, e), NEW next \in Times, Chain(q, next),
           e.sys_dts_usec = next[StreamOf(e)],
           \A k \in 1 .. Len(q) : StreamOf(q[k]) = StreamOf(e) => k < at
    PROVE  Chain(r, [next EXCEPT ![StreamOf(e)] = EndOf(e)])
<1> DEFINE s == StreamOf(e)
           new == [next EXCEPT ![s] = EndOf(e)]
<1>1. /\ s \in Streams /\ EndOf(e) \in Int /\ new \in Times
      /\ new[s] = EndOf(e) /\ \A t \in Streams : t # s => new[t] = next[t]
  BY EndOfType, PacketFields DEF Times
<1>2. Rising(r)
  <2>1. \A k \in 1 .. Len(q) : s = StreamOf(q[k]) => EndOf(q[k]) <= e.sys_dts_usec
    BY DEF Chain, Behind
  <2> QED  BY <2>1, InsertedRising DEF Chain
<1>3. Members(r) = Members(q) \cup {e}
  BY InsertedMembers
<1> HIDE DEF s, new
<1>4. ASSUME NEW p \in Members(q)
      PROVE  EndOf(p) <= new[StreamOf(p)]
  <2>1. PICK i \in 1 .. Len(q) : p = q[i]
    BY MembersOf
  <2>2. EndOf(p) <= next[StreamOf(p)] /\ p \in Packets
    BY <2>1, MembersOf DEF Chain, Behind
  <2>3. CASE StreamOf(p) = s
    <3>1. EndOf(p) <= e.sys_dts_usec
      BY <2>2, <2>3 DEF s
    <3> QED  BY <1>1, <2>2, <2>3, <3>1, EndOfType, PacketFields
  <2>4. CASE StreamOf(p) # s
    BY <1>1, <2>2, <2>4, PacketFields
  <2> QED  BY <2>3, <2>4
<1>5. ASSUME NEW p \in Members(q), EndOf(p) # new[StreamOf(p)]
      PROVE  \E m \in Members(r) : StreamOf(m) = StreamOf(p) /\ m.sys_dts_usec = EndOf(p)
  <2>1. PICK i \in 1 .. Len(q) : p = q[i]
    BY MembersOf
  <2>2. p \in Packets
    BY MembersOf
  <2>3. CASE EndOf(p) = next[StreamOf(p)]
    <3>1. StreamOf(p) = s
      BY <1>1, <1>5, <2>2, <2>3, PacketFields
    <3>2. e.sys_dts_usec = EndOf(p) /\ StreamOf(e) = StreamOf(p)
      BY <2>3, <3>1 DEF s
    <3> QED  BY <1>3, <3>2
  <2>4. CASE EndOf(p) # next[StreamOf(p)]
    <3>1. PICK j \in 1 .. Len(q) : StreamOf(q[j]) = StreamOf(p) /\ q[j].sys_dts_usec = EndOf(p)
      BY <2>1, <2>4 DEF Chain, Followed
    <3>2. q[j] \in Members(r)
      BY <1>3, MembersOf
    <3> QED  BY <3>1, <3>2
  <2> QED  BY <2>3, <2>4
<1>6. EndOf(e) = new[StreamOf(e)]
  BY <1>1 DEF s
<1>7. Behind(r, new)
  <2> SUFFICES ASSUME NEW i \in 1 .. Len(r)  PROVE EndOf(r[i]) <= new[StreamOf(r[i])]
    BY DEF Behind
  <2>1. r[i] \in Members(q) \/ r[i] = e
    BY <1>3, MembersOf
  <2> QED  BY <1>1, <1>4, <1>6, <2>1
<1>8. Followed(r, new)
  <2> SUFFICES ASSUME NEW i \in 1 .. Len(r), EndOf(r[i]) # new[StreamOf(r[i])]
               PROVE  \E j \in 1 .. Len(r) : StreamOf(r[j]) = StreamOf(r[i])
                                            /\ r[j].sys_dts_usec = EndOf(r[i])
    BY DEF Followed
  <2>1. r[i] \in Members(q)
    BY <1>3, <1>6, MembersOf
  <2>2. PICK m \in Members(r) : StreamOf(m) = StreamOf(r[i]) /\ m.sys_dts_usec = EndOf(r[i])
    BY <1>5, <2>1
  <2>3. PICK j \in 1 .. Len(r) : m = r[j]
    BY MembersOf
  <2> QED  BY <2>2, <2>3
<1> QED  BY <1>2, <1>7, <1>8 DEF Chain, new, s

\* A packet that is put into the queue is put into it behind what was sent.
LEMMA InsertedBehind ==
    ASSUME NEW h \in Seq(Packets), NEW q \in Seq(Packets), NEW r \in Seq(Packets),
           NEW at, NEW e \in Packets, Inserted(q, r, at, e)
    PROVE  Inserted(h \o q, h \o r, Len(h) + at, e)
<1> DEFINE c == h \o q
           d == h \o r
<1>0. /\ Len(q) \in Nat /\ Len(h) \in Nat /\ Len(r) = Len(q) + 1 /\ at \in 1 .. Len(q) + 1
      /\ \A k \in 1 .. Len(r) : r[k] = IF k < at THEN q[k] ELSE IF k = at THEN e ELSE q[k - 1]
  BY LenProperties DEF Inserted
<1>1. /\ Len(c) = Len(h) + Len(q)
      /\ \A k \in 1 .. Len(h) + Len(q) : c[k] = IF k <= Len(h) THEN h[k] ELSE q[k - Len(h)]
  BY ConcatProperties
<1>2. /\ Len(d) = Len(h) + Len(r)
      /\ \A k \in 1 .. Len(h) + Len(r) : d[k] = IF k <= Len(h) THEN h[k] ELSE r[k - Len(h)]
  BY ConcatProperties
<1> HIDE DEF c, d
<1>3. ASSUME NEW k \in 1 .. Len(d)
      PROVE  d[k] = IF k < Len(h) + at THEN c[k]
                    ELSE IF k = Len(h) + at THEN e ELSE c[k - 1]
  <2>1. CASE k <= Len(h)
    <3>1. k < Len(h) + at /\ d[k] = h[k] /\ c[k] = h[k]
      BY <1>0, <1>1, <1>2, <2>1
    <3> QED  BY <3>1
  <2>2. CASE k > Len(h) /\ k < Len(h) + at
    <3>1. k - Len(h) \in 1 .. Len(r) /\ k - Len(h) < at
      BY <1>0, <1>2, <2>2
    <3>2. d[k] = r[k - Len(h)] /\ c[k] = q[k - Len(h)]
      BY <1>0, <1>1, <1>2, <2>2
    <3>3. r[k - Len(h)] = q[k - Len(h)]
      BY <1>0, <3>1
    <3> QED  BY <2>2, <3>2, <3>3
  <2>3. CASE k = Len(h) + at
    <3>1. k - Len(h) = at /\ at \in 1 .. Len(r) /\ ~ (k <= Len(h))
      BY <1>0, <2>3
    <3>2. d[k] = r[at] /\ r[at] = e
      BY <1>0, <1>2, <3>1
    <3>3. ~ (k < Len(h) + at)
      BY <1>0, <2>3
    <3> QED  BY <2>3, <3>2, <3>3
  <2>4. CASE k > Len(h) + at
    <3>1. /\ k - Len(h) \in 1 .. Len(r) /\ ~ (k - Len(h) < at) /\ k - Len(h) # at
          /\ ~ (k < Len(h) + at) /\ k # Len(h) + at
      BY <1>0, <1>2, <2>4
    <3>2. d[k] = r[k - Len(h)] /\ c[k - 1] = q[(k - 1) - Len(h)]
      BY <1>0, <1>1, <1>2, <2>4
    <3>3. r[k - Len(h)] = q[(k - Len(h)) - 1]
      BY <1>0, <3>1
    <3>4. (k - Len(h)) - 1 = (k - 1) - Len(h)
      BY <1>0
    <3> QED  BY <3>1, <3>2, <3>3, <3>4
  <2>5. k <= Len(h) \/ (k > Len(h) /\ k < Len(h) + at) \/ k = Len(h) + at \/ k > Len(h) + at
    <3>1. Len(d) \in Nat /\ Len(h) \in Nat /\ at \in Nat
      BY <1>0, <1>2
    <3> QED  BY <3>1
  <2> QED  BY <2>1, <2>2, <2>3, <2>4, <2>5, Zenon
<1>4. Len(d) = Len(c) + 1 /\ Len(h) + at \in 1 .. Len(c) + 1
  BY <1>0, <1>1, <1>2
<1> QED  BY <1>3, <1>4 DEF Inserted, c, d

-----------------------------------------------------------------------------
(* Outputs and their queues.                                                  *)

Outputs == [interleaved_packets : Seq(Packets), received_video : [VideoTracks -> BOOLEAN],
            received_audio : BOOLEAN, offsets : [Streams -> Int],
            highest_video_ts : [VideoTracks -> Int], highest_audio_ts : Int]

\* All that is not the queue.
SameReceived(o, r) == r.received_video = o.received_video /\ r.received_audio = o.received_audio
SameHighest(o, r)  == r.highest_video_ts = o.highest_video_ts /\ r.highest_audio_ts = o.highest_audio_ts
SameButQueue(o, r) == SameReceived(o, r) /\ r.offsets = o.offsets /\ SameHighest(o, r)

\* The fields of an output.
LEMMA OutputFields ==
    ASSUME NEW o \in Outputs
    PROVE  /\ o.interleaved_packets \in Seq(Packets)
           /\ Len(o.interleaved_packets) \in Nat
           /\ DOMAIN o.interleaved_packets = 1 .. Len(o.interleaved_packets)
           /\ \A i \in 1 .. Len(o.interleaved_packets) : o.interleaved_packets[i] \in Packets
           /\ o.received_video \in [VideoTracks -> BOOLEAN] /\ o.received_audio \in BOOLEAN
           /\ o.offsets \in [Streams -> Int]
           /\ o.highest_video_ts \in [VideoTracks -> Int] /\ o.highest_audio_ts \in Int
<1>1. /\ o.interleaved_packets \in Seq(Packets)
      /\ o.received_video \in [VideoTracks -> BOOLEAN] /\ o.received_audio \in BOOLEAN
      /\ o.offsets \in [Streams -> Int]
      /\ o.highest_video_ts \in [VideoTracks -> Int] /\ o.highest_audio_ts \in Int
  BY DEF Outputs
<1> QED  BY <1>1, LenProperties, ElementOfSeq

\* An output with another queue.
LEMMA WithQueue ==
    ASSUME NEW o \in Outputs, NEW q \in Seq(Packets), NEW r,
           r = [o EXCEPT !.interleaved_packets = q]
    PROVE  r \in Outputs /\ r.interleaved_packets = q /\ SameButQueue(o, r)
BY DEF Outputs, SameButQueue, SameReceived, SameHighest

\* discard_to_idx takes packets from the front.
LEMMA DiscardToDrops ==
    ASSUME NEW o \in Outputs, NEW n \in 0 .. Len(o.interleaved_packets)
    PROVE  /\ DiscardTo(o, n) \in Outputs /\ SameButQueue(o, DiscardTo(o, n))
           /\ Dropped(o.interleaved_packets, DiscardTo(o, n).interleaved_packets, n)
<1> DEFINE q == o.interleaved_packets
           r == SubSeq(q, n + 1, Len(q))
<1>1. q \in Seq(Packets)
  BY OutputFields
<1>2. r \in Seq(Packets) /\ Dropped(q, r, n)
  BY <1>1, SubSeqDrops
<1>3. DiscardTo(o, n) = [o EXCEPT !.interleaved_packets = r]
  BY DEF DiscardTo
<1> HIDE DEF r
<1> QED  BY <1>2, <1>3, WithQueue

-----------------------------------------------------------------------------
(* insert_interleaved_packet puts a packet where its time stamp belongs.      *)

Later(q, out) ==
    {i \in DOMAIN q :
        \/ out.dts_usec < q[i].dts_usec
        \/ /\ out.dts_usec = q[i].dts_usec
           /\ out.type = "video"
           /\ ~(q[i].type = "video" /\ out.track_idx > q[i].track_idx)}

Place(q, out) == IF Later(q, out) = {} THEN Len(q) + 1 ELSE Min(Later(q, out))

\* Where a packet is inserted all before are not later, all behind not earlier.
LEMMA PlaceOf ==
    ASSUME NEW q \in Seq(Packets), NEW out \in Packets, Ordered(q)
    PROVE  /\ Place(q, out) \in 1 .. Len(q) + 1
           /\ \A k \in 1 .. Len(q) : k < Place(q, out) => q[k].dts_usec <= out.dts_usec
           /\ \A k \in 1 .. Len(q) : k >= Place(q, out) => out.dts_usec <= q[k].dts_usec
           /\ \A k \in 1 .. Len(q) : q[k].dts_usec < out.dts_usec => k < Place(q, out)
<1> DEFINE at == Place(q, out)
           L  == Later(q, out)
<1>0. /\ Len(q) \in Nat /\ DOMAIN q = 1 .. Len(q) /\ out.dts_usec \in Int
      /\ \A k \in 1 .. Len(q) : q[k] \in Packets /\ q[k].dts_usec \in Int
  BY LenProperties, ElementOfSeq, PacketFields
<1>1. L \subseteq 1 .. Len(q) /\ L \subseteq Nat
  BY <1>0 DEF Later
<1>2. \A k \in 1 .. Len(q) : k \notin L => q[k].dts_usec <= out.dts_usec
  BY <1>0 DEF Later
<1>3. \A k \in L : out.dts_usec <= q[k].dts_usec
  BY <1>0 DEF Later
<1>4. at = IF L = {} THEN Len(q) + 1 ELSE Min(L)
  BY DEF Place
<1> HIDE DEF at, L
<1>5. CASE L = {}
  <2>1. at = Len(q) + 1
    BY <1>4, <1>5
  <2>2. \A k \in 1 .. Len(q) : k < at /\ q[k].dts_usec <= out.dts_usec
    BY <1>0, <1>2, <1>5, <2>1
  <2> QED  BY <1>0, <2>1, <2>2 DEF at
<1>6. CASE L # {}
  <2>1. at \in L /\ \A y \in L : at <= y
    BY <1>1, <1>4, <1>6, MinOf
  <2>2. at \in 1 .. Len(q)
    BY <1>1, <2>1
  <2>3. \A k \in 1 .. Len(q) : k < at => q[k].dts_usec <= out.dts_usec
    BY <1>0, <1>2, <2>1, <2>2
  <2>4. ASSUME NEW k \in 1 .. Len(q), k >= at  PROVE out.dts_usec <= q[k].dts_usec
    <3>1. out.dts_usec <= q[at].dts_usec
      BY <1>3, <2>1
    <3>2. q[at].dts_usec <= q[k].dts_usec
      BY <1>0, <2>2, <2>4 DEF Ordered
    <3> QED  BY <1>0, <2>2, <3>1, <3>2
  <2>5. \A k \in 1 .. Len(q) : q[k].dts_usec < out.dts_usec => k < at
    <3> SUFFICES ASSUME NEW k \in 1 .. Len(q), q[k].dts_usec < out.dts_usec, ~ (k < at)
                 PROVE  FALSE
      OBVIOUS
    <3>1. out.dts_usec <= q[k].dts_usec
      BY <2>2, <2>4
    <3> QED  BY <1>0, <3>1
  <2> QED  BY <1>0, <2>2, <2>3, <2>4, <2>5 DEF at
<1> QED  BY <1>5, <1>6

\* Nothing but the queue changes, which has the packet in its place.
LEMMA PacketPlaced ==
    ASSUME NEW o \in Outputs, NEW out \in Packets, Ordered(o.interleaved_packets)
    PROVE  LET q  == o.interleaved_packets
               at == Place(q, out)
               r  == InsertPacket(o, out)
           IN  /\ r \in Outputs /\ SameButQueue(o, r)
               /\ Inserted(q, r.interleaved_packets, at, out)
               /\ Ordered(r.interleaved_packets)
<1> DEFINE q  == o.interleaved_packets
           at == Place(q, out)
           c  == InsertAt(q, at, out)
<1>1. q \in Seq(Packets)
  BY OutputFields
<1>2. at \in 1 .. Len(q) + 1
  BY <1>1, PlaceOf
<1>3. c \in Seq(Packets) /\ Inserted(q, c, at, out)
  BY <1>1, <1>2, InsertAtInserts
<1>4. InsertPacket(o, out) = [o EXCEPT !.interleaved_packets = c]
  BY DEF InsertPacket, Place, Later
<1>5. Ordered(c)
  <2>1. /\ \A k \in 1 .. Len(q) : k < at => q[k].dts_usec <= out.dts_usec
        /\ \A k \in 1 .. Len(q) : k >= at => out.dts_usec <= q[k].dts_usec
    BY <1>1, PlaceOf
  <2> HIDE DEF at, c, q
  <2>2. Ordered(q)
    BY DEF q
  <2> QED  BY <1>1, <1>3, <2>1, <2>2, InsertedOrdered
<1> DEFINE r == InsertPacket(o, out)
<1>6. r \in Outputs /\ r.interleaved_packets = c /\ SameButQueue(o, r)
  <2> HIDE DEF c
  <2> QED  BY <1>3, <1>4, WithQueue
<1> QED  BY <1>3, <1>5, <1>6

-----------------------------------------------------------------------------
(* set_higher_ts.                                                             *)

\* set_higher_ts raises one of the highest time stamps to that of the packet.
LEMMA SetHigherSets ==
    ASSUME NEW o \in Outputs, NEW p \in Packets
    PROVE  LET r == SetHigher(o, p)
           IN  /\ r \in Outputs /\ r.interleaved_packets = o.interleaved_packets
               /\ SameReceived(o, r) /\ r.offsets = o.offsets
               /\ \A v \in VideoTracks :
                     \/ r.highest_video_ts[v] = o.highest_video_ts[v]
                     \/ StreamOf(p) = <<"video", v>> /\ r.highest_video_ts[v] = p.dts_usec
               /\ \/ r.highest_audio_ts = o.highest_audio_ts
                  \/ p.type = "audio" /\ r.highest_audio_ts = p.dts_usec
<1> DEFINE r == SetHigher(o, p)
<1>0. /\ p.dts_usec \in Int /\ o.highest_video_ts \in [VideoTracks -> Int]
      /\ o.highest_audio_ts \in Int
      /\ p.type = "video" => p.track_idx \in VideoTracks
      /\ \A v : StreamOf(p) = <<"video", v>> <=> p.type = "video" /\ p.track_idx = v
  BY PacketFields, OutputFields, StreamOfParts
<1>1. CASE p.type = "video"
  <2> DEFINE m == Max({o.highest_video_ts[p.track_idx], p.dts_usec})
             h == [o.highest_video_ts EXCEPT ![p.track_idx] = m]
  <2>1. m \in {o.highest_video_ts[p.track_idx], p.dts_usec} /\ m \in Int
    <3>1. o.highest_video_ts[p.track_idx] \in Int
      BY <1>0, <1>1
    <3> QED  BY <1>0, <3>1, MaxOfTwo
  <2>2. r = [o EXCEPT !.highest_video_ts = h]
    BY <1>1 DEF SetHigher
  <2> HIDE DEF m
  <2>3. /\ h \in [VideoTracks -> Int] /\ h[p.track_idx] = m
        /\ \A v \in VideoTracks : v # p.track_idx => h[v] = o.highest_video_ts[v]
    BY <1>0, <1>1, <2>1
  <2> HIDE DEF h, r
  <2>4. r \in Outputs /\ r.interleaved_packets = o.interleaved_packets
        /\ SameReceived(o, r) /\ r.offsets = o.offsets
        /\ r.highest_video_ts = h /\ r.highest_audio_ts = o.highest_audio_ts
    BY <2>2, <2>3 DEF Outputs, SameReceived
  <2>5. \A v \in VideoTracks :
           \/ r.highest_video_ts[v] = o.highest_video_ts[v]
           \/ StreamOf(p) = <<"video", v>> /\ r.highest_video_ts[v] = p.dts_usec
    <3> TAKE v \in VideoTracks
    <3>1. CASE v = p.track_idx
      BY <1>0, <1>1, <2>1, <2>3, <2>4, <3>1
    <3>2. CASE v # p.track_idx
      BY <2>3, <2>4, <3>2
    <3> QED  BY <3>1, <3>2
  <2> QED  BY <2>4, <2>5 DEF r
<1>2. CASE p.type # "video"
  <2> DEFINE m == Max({o.highest_audio_ts, p.dts_usec})
  <2>1. m \in {o.highest_audio_ts, p.dts_usec} /\ m \in Int
    BY <1>0, MaxOfTwo
  <2>2. r = [o EXCEPT !.highest_audio_ts = m]
    BY <1>2 DEF SetHigher
  <2>3. p.type = "audio"
    BY <1>2, PacketFields
  <2> HIDE DEF m, r
  <2>4. r \in Outputs /\ r.interleaved_packets = o.interleaved_packets
        /\ SameReceived(o, r) /\ r.offsets = o.offsets
        /\ r.highest_video_ts = o.highest_video_ts /\ r.highest_audio_ts = m
    BY <2>1, <2>2 DEF Outputs, SameReceived
  <2> QED  BY <2>1, <2>3, <2>4 DEF r
<1> QED  BY <1>1, <1>2

-----------------------------------------------------------------------------
(* resort_interleaved_packets puts the packets in one by one.                 *)

\* The highest time stamps are old ones, or those of packets of the queue.
HighestFrom(o, r, packets) ==
    /\ \A v \in VideoTracks :
          \/ r.highest_video_ts[v] = o.highest_video_ts[v]
          \/ \E p \in packets : StreamOf(p) = <<"video", v>>
                                /\ r.highest_video_ts[v] = p.dts_usec
    /\ \/ r.highest_audio_ts = o.highest_audio_ts
       \/ \E p \in packets : p.type = "audio" /\ r.highest_audio_ts = p.dts_usec

\* r has the packets of o, and these, in order.
SortedWith(o, r, packets) ==
    /\ r \in Outputs /\ SameReceived(o, r) /\ r.offsets = o.offsets
    /\ Ordered(r.interleaved_packets) /\ Rising(r.interleaved_packets)
    /\ Members(r.interleaved_packets) = packets
    /\ HighestFrom(o, r, packets)

\* A packet that is behind the others of its stream.
LEMMA PacketSorted ==
    ASSUME NEW o \in Outputs, NEW r, NEW packets, SortedWith(o, r, packets),
           NEW e \in Packets,
           \A p \in packets : StreamOf(p) = StreamOf(e)
                                => EndOf(p) <= e.sys_dts_usec /\ p.dts_usec < e.dts_usec
    PROVE  SortedWith(o, InsertPacket(SetHigher(r, e), e), packets \cup {e})
<1> DEFINE u == SetHigher(r, e)
           q == r.interleaved_packets
           w == InsertPacket(u, e)
           n == w.interleaved_packets
           at == Place(q, e)
<1>1. /\ r \in Outputs /\ SameReceived(o, r) /\ r.offsets = o.offsets
      /\ Ordered(q) /\ Rising(q) /\ Members(q) = packets
      /\ HighestFrom(o, r, packets)
  BY DEF SortedWith
<1>2. /\ u \in Outputs /\ u.interleaved_packets = q
      /\ SameReceived(r, u) /\ u.offsets = r.offsets
      /\ \A v \in VideoTracks :
            \/ u.highest_video_ts[v] = r.highest_video_ts[v]
            \/ StreamOf(e) = <<"video", v>> /\ u.highest_video_ts[v] = e.dts_usec
      /\ \/ u.highest_audio_ts = r.highest_audio_ts
         \/ e.type = "audio" /\ u.highest_audio_ts = e.dts_usec
  BY <1>1, SetHigherSets
<1> HIDE DEF u
<1>3. /\ w \in Outputs /\ SameButQueue(u, w)
      /\ Inserted(q, n, at, e) /\ Ordered(n)
  BY <1>1, <1>2, PacketPlaced
<1>4. q \in Seq(Packets) /\ n \in Seq(Packets)
  BY <1>1, <1>3, OutputFields
<1> HIDE DEF w
<1>5. \A k \in 1 .. Len(q) : StreamOf(q[k]) = StreamOf(e)
                               => k < at /\ EndOf(q[k]) <= e.sys_dts_usec
  <2>1. \A k \in 1 .. Len(q) : q[k] \in packets
    BY <1>1, <1>4, MembersOf
  <2> QED  BY <1>1, <1>4, <2>1, PlaceOf
<1> HIDE DEF at, q, n
<1>6. Rising(n)
  BY <1>1, <1>3, <1>4, <1>5, InsertedRising
<1>7. Members(n) = packets \cup {e}
  BY <1>1, <1>3, <1>4, InsertedMembers
<1>8. HighestFrom(o, w, packets \cup {e})
  <2>1. w.highest_video_ts = u.highest_video_ts /\ w.highest_audio_ts = u.highest_audio_ts
    BY <1>3 DEF SameButQueue, SameHighest
  <2>2. \A v \in VideoTracks :
           \/ w.highest_video_ts[v] = o.highest_video_ts[v]
           \/ \E p \in packets \cup {e} : StreamOf(p) = <<"video", v>>
                                          /\ w.highest_video_ts[v] = p.dts_usec
    BY <1>1, <1>2, <2>1 DEF HighestFrom
  <2>3. \/ w.highest_audio_ts = o.highest_audio_ts
        \/ \E p \in packets \cup {e} : p.type = "audio" /\ w.highest_audio_ts = p.dts_usec
    BY <1>1, <1>2, <2>1 DEF HighestFrom
  <2> QED  BY <2>2, <2>3 DEF HighestFrom
<1>9. SameReceived(o, w) /\ w.offsets = o.offsets
  BY <1>1, <1>2, <1>3 DEF SameReceived, SameButQueue
<1> QED  BY <1>3, <1>6, <1>7, <1>8, <1>9 DEF SortedWith, w, n, u

\* One step of the recursion of Resort.
SortStep(o, sorted, n) ==
    IF n = 0 THEN [o EXCEPT !.interleaved_packets = <<>>]
    ELSE InsertPacket(SetHigher(sorted[n - 1], o.interleaved_packets[n]),
                      o.interleaved_packets[n])

\* sorted has the first n packets in order, for every n up to m.
IsResort(o, sorted, m) == sorted = [n \in 0 .. m |-> SortStep(o, sorted, n)]

\* The definition of the recursion in resort_interleaved_packets, by its choice,
LEMMA ResortUnfold ==
    ASSUME NEW o
    PROVE  Resort(o) = (CHOOSE sorted : IsResort(o, sorted, Len(o.interleaved_packets)))
                         [Len(o.interleaved_packets)]
  BY Zenon DEF Resort, IsResort, SortStep

\* which there is,
LEMMA SortedExists ==
    ASSUME NEW o, NEW m \in Nat
    PROVE  \E sorted : IsResort(o, sorted, m)
<1> DEFINE P == {k \in Nat : \E sorted : IsResort(o, sorted, k)}
<1>1. 0 \in P
  <2> DEFINE g == [n \in 0 .. 0 |-> [o EXCEPT !.interleaved_packets = <<>>]]
  <2>1. IsResort(o, g, 0)
    BY DEF IsResort, SortStep
  <2> QED  BY <2>1
<1>2. ASSUME NEW k \in Nat, k \in P  PROVE k + 1 \in P
  <2>1. PICK g : IsResort(o, g, k)
    BY <1>2
  <2> DEFINE h == [n \in 0 .. k + 1 |-> SortStep(o, g, n)]
  <2>2. ASSUME NEW n \in 0 .. k + 1  PROVE SortStep(o, g, n) = SortStep(o, h, n)
    <3>1. CASE n = 0
      BY <3>1 DEF SortStep
    <3>2. CASE n # 0
      <4>1. n - 1 \in 0 .. k /\ n - 1 \in 0 .. k + 1
        BY <3>2
      <4>2. g[n - 1] = SortStep(o, g, n - 1)
        BY <2>1, <4>1 DEF IsResort
      <4>3. h[n - 1] = g[n - 1]
        BY <4>1, <4>2
      <4> HIDE DEF h
      <4> QED  BY <3>2, <4>3 DEF SortStep
    <3> QED  BY <3>1, <3>2
  <2>3. h = [n \in 0 .. k + 1 |-> SortStep(o, h, n)]
    BY <2>2
  <2> HIDE DEF h
  <2>4. IsResort(o, h, k + 1)
    BY <2>3 DEF IsResort
  <2> QED  BY <2>4
<1> HIDE DEF P
<1>3. Nat \subseteq P
  BY <1>1, <1>2, Induction
<1> QED  BY <1>3 DEF P

\* and what it computes: the same packets in order, the highest time stamps theirs.
LEMMA ResortSorts ==
    ASSUME NEW o \in Outputs, NEW moved \in Times,
           Rising(o.interleaved_packets), Stamped(o.interleaved_packets, moved)
    PROVE  SortedWith(o, Resort(o), Members(o.interleaved_packets))
<1> DEFINE q == o.interleaved_packets
           m == Len(q)
           sorted == CHOOSE g : IsResort(o, g, m)
           First(j) == {q[i] : i \in 1 .. j}
           P == {j \in Nat : j <= m => SortedWith(o, sorted[j], First(j))}
<1>0. /\ m \in Nat /\ \A i \in 1 .. m : q[i] \in Packets
      /\ \A i \in 1 .. m : q[i].dts_usec = q[i].sys_dts_usec - moved[StreamOf(q[i])]
      /\ \A i, j \in 1 .. m : i < j /\ StreamOf(q[i]) = StreamOf(q[j])
                                => EndOf(q[i]) <= q[j].sys_dts_usec
  BY OutputFields DEF Rising, Stamped
<1>1. IsResort(o, sorted, m)
  BY <1>0, SortedExists
<1> HIDE DEF sorted, q
<1>2. \A j \in 0 .. m : sorted[j] = SortStep(o, sorted, j)
  BY <1>1 DEF IsResort
<1> HIDE DEF m
<1>3. 0 \in P
  <2>1. <<>> \in Seq(Packets) /\ Len(<<>>) = 0
    BY EmptySeq
  <2> DEFINE r == [o EXCEPT !.interleaved_packets = <<>>]
  <2>2. sorted[0] = r
    BY <1>0, <1>2 DEF SortStep
  <2>3. r \in Outputs /\ r.interleaved_packets = <<>> /\ SameButQueue(o, r)
    BY <2>1, WithQueue
  <2> HIDE DEF r
  <2>4. Ordered(<<>>) /\ Rising(<<>>) /\ Members(<<>>) = {} /\ First(0) = {}
    BY <2>1 DEF Ordered, Rising, Members
  <2>5. SortedWith(o, r, {})
    BY <2>3, <2>4 DEF SortedWith, SameButQueue, SameHighest, HighestFrom
  <2> QED  BY <2>2, <2>4, <2>5
<1>4. ASSUME NEW j \in Nat, j \in P  PROVE j + 1 \in P
  <2> SUFFICES ASSUME j + 1 <= m  PROVE SortedWith(o, sorted[j + 1], First(j + 1))
    OBVIOUS
  <2> DEFINE e == q[j + 1]
  <2>1. SortedWith(o, sorted[j], First(j))
    BY <1>0, <1>4
  <2>2. j + 1 \in 0 .. m /\ j + 1 \in 1 .. m /\ j + 1 # 0 /\ (j + 1) - 1 = j
    BY <1>0
  <2>3. sorted[j + 1] = InsertPacket(SetHigher(sorted[j], e), e)
    BY <1>2, <2>2 DEF SortStep, q
  <2>4. e \in Packets
    BY <1>0, <2>2
  <2>5. ASSUME NEW p \in First(j), StreamOf(p) = StreamOf(e)
        PROVE  EndOf(p) <= e.sys_dts_usec /\ p.dts_usec < e.dts_usec
    <3>1. PICK i \in 1 .. j : p = q[i]
      OBVIOUS
    <3>2. i \in 1 .. m /\ i < j + 1
      BY <1>0, <2>2
    <3>3. EndOf(p) <= e.sys_dts_usec
      BY <1>0, <2>2, <2>5, <3>1, <3>2
    <3>4. /\ p \in Packets
          /\ p.dts_usec = p.sys_dts_usec - moved[StreamOf(p)]
          /\ e.dts_usec = e.sys_dts_usec - moved[StreamOf(p)]
      BY <1>0, <2>2, <2>5, <3>1, <3>2
    <3>5. moved[StreamOf(p)] \in Int
      BY <3>4, PacketFields DEF Times
    <3> HIDE DEF e
    <3> QED  BY <2>4, <3>3, <3>4, <3>5, EndOfType, PacketFields
  <2>6. First(j + 1) = First(j) \cup {e}
    <3>1. \A i \in 1 .. j + 1 : i \in 1 .. j \/ i = j + 1
      OBVIOUS
    <3>2. \A i \in 1 .. j : i \in 1 .. j + 1
      OBVIOUS
    <3> QED  BY <2>2, <3>1, <3>2
  <2> HIDE DEF e, First
  <2>7. SortedWith(o, InsertPacket(SetHigher(sorted[j], e), e), First(j) \cup {e})
    BY <2>1, <2>4, <2>5, PacketSorted
  <2> QED  BY <2>3, <2>6, <2>7
<1> HIDE DEF P
<1>5. m \in P
  BY <1>0, <1>3, <1>4, Induction
<1>6. SortedWith(o, sorted[m], First(m))
  BY <1>0, <1>5 DEF P
<1>7. First(m) = Members(q)
  BY DEF Members, m
<1>8. Resort(o) = sorted[m]
  BY ResortUnfold DEF sorted, m, q
<1> QED  BY <1>6, <1>7, <1>8 DEF q

-----------------------------------------------------------------------------
(* The other operators: where they cut a queue, and what they change.         *)

\* apply_interleaved_packet_offset moves a packet in its stream.
LEMMA ApplyOffsetMoves ==
    ASSUME NEW o \in Outputs, NEW p \in Packets
    PROVE  LET r == ApplyOffset(o, p)
           IN  /\ r \in Packets /\ StreamOf(r) = StreamOf(p) /\ r.type = p.type
               /\ r.sys_dts_usec = p.sys_dts_usec
               /\ r.dts_usec = p.dts - o.offsets[StreamOf(p)]
<1> DEFINE x == p.dts - o.offsets[<<p.type, p.track_idx>>]
           r == [p EXCEPT !.dts = x, !.dts_usec = x]
<1>1. x \in Int /\ x = p.dts - o.offsets[StreamOf(p)]
  BY PacketFields, OutputFields DEF StreamOf
<1> HIDE DEF x
<1>2. p \in Packet /\ StreamOf(p) \in Streams
  BY DEF Packets
<1>3. r \in Packet /\ r.type = p.type /\ r.track_idx = p.track_idx
      /\ r.sys_dts_usec = p.sys_dts_usec /\ r.dts_usec = x
  BY <1>1, <1>2 DEF Packet
<1>4. ApplyOffset(o, p) = r
  BY DEF ApplyOffset, x
<1> HIDE DEF r
<1>5. StreamOf(r) = StreamOf(p)
  BY <1>3 DEF StreamOf
<1> QED  BY <1>1, <1>2, <1>3, <1>4, <1>5 DEF Packets

\* discard_unused_audio_packets takes packets from the front.
LEMMA DiscardUnusedAudioCuts ==
    ASSUME NEW o \in Outputs, NEW t
    PROVE  \E n \in 0 .. Len(o.interleaved_packets) : DiscardUnusedAudio(o, t) = DiscardTo(o, n)
<1> DEFINE q    == o.interleaved_packets
           kept == {i \in DOMAIN q : q[i].dts_usec >= t}
           n    == IF kept = {} THEN Len(q) ELSE Min(kept) - 1
<1>1. Len(q) \in Nat /\ DOMAIN q = 1 .. Len(q)
  BY OutputFields
<1>2. kept # {} => Min(kept) \in kept
  <2>1. kept \subseteq Nat
    BY <1>1
  <2> HIDE DEF kept
  <2> QED  BY <2>1, MinOf
<1>3. kept \subseteq 1 .. Len(q)
  BY <1>1
<1> HIDE DEF kept
<1>4. n \in 0 .. Len(q)
  <2>1. CASE kept = {}
    BY <1>1, <2>1
  <2>2. CASE kept # {}
    <3>1. Min(kept) \in 1 .. Len(q)
      BY <1>2, <1>3, <2>2
    <3> QED  BY <1>1, <2>2, <3>1
  <2> QED  BY <2>1, <2>2
<1>5. DiscardUnusedAudio(o, t) = DiscardTo(o, n)
  BY DEF DiscardUnusedAudio, kept
<1> QED  BY <1>4, <1>5

\* The first and the last packet of a stream in a queue.
LEMMA OfStream ==
    ASSUME NEW o \in Outputs, NEW type, NEW track
    PROVE  LET q == o.interleaved_packets
               f == FirstOf(o, type, track)
               l == LastOf(o, type, track)
           IN  /\ Of(o, type, track) =
                    {i \in 1 .. Len(q) : q[i].type = type /\ q[i].track_idx = track}
               /\ \A i \in 1 .. Len(q) : i \in Of(o, type, track)
                                           <=> StreamOf(q[i]) = <<type, track>>
               /\ f \in 0 .. Len(q) /\ l \in 0 .. Len(q)
               /\ f = 0 <=> Of(o, type, track) = {}
               /\ f # 0 => f \in Of(o, type, track) /\ l \in Of(o, type, track)
               /\ \A i \in Of(o, type, track) : f <= i /\ i <= l
<1> DEFINE q == o.interleaved_packets
           f == FirstOf(o, type, track)
           l == LastOf(o, type, track)
           S == Of(o, type, track)
<1>1. Len(q) \in Nat /\ DOMAIN q = 1 .. Len(q) /\ \A i \in 1 .. Len(q) : q[i] \in Packets
  BY OutputFields
<1>2. S = {i \in 1 .. Len(q) : q[i].type = type /\ q[i].track_idx = track}
  BY <1>1 DEF Of
<1>3. \A i \in 1 .. Len(q) : i \in S <=> StreamOf(q[i]) = <<type, track>>
  <2> TAKE i \in 1 .. Len(q)
  <2>1. q[i] \in Packets
    BY <1>1
  <2>2. \A x, y : StreamOf(q[i]) = <<x, y>> <=> q[i].type = x /\ q[i].track_idx = y
    BY <2>1, StreamOfParts
  <2>3. StreamOf(q[i]) = <<type, track>> <=> q[i].type = type /\ q[i].track_idx = track
    BY <2>2, Zenon
  <2> QED  BY <1>2, <2>3
<1>4. S \subseteq Nat /\ S \subseteq 0 .. Len(q) /\ S \subseteq 1 .. Len(q)
  BY <1>1, <1>2
<1>5. f = (IF S = {} THEN 0 ELSE Min(S)) /\ l = (IF S = {} THEN 0 ELSE Max(S))
  BY DEF FirstOf, LastOf
<1> HIDE DEF f, l, S, q
<1>6. CASE S = {}
  BY <1>1, <1>2, <1>3, <1>5, <1>6 DEF f, l, S, q
<1>7. CASE S # {}
  <2>1. f \in S /\ \A y \in S : f <= y
    BY <1>4, <1>5, <1>7, MinOf
  <2>2. l \in S /\ \A y \in S : l >= y
    BY <1>1, <1>4, <1>5, <1>7, MaxOf
  <2>3. f \in 1 .. Len(q) /\ l \in 1 .. Len(q)
    BY <1>4, <2>1, <2>2
  <2>4. \A i \in S : f <= i /\ i <= l
    BY <1>1, <1>4, <2>1, <2>2, <2>3
  <2>5. f # 0 /\ f \in 0 .. Len(q) /\ l \in 0 .. Len(q)
    BY <1>1, <2>3
  <2> QED  BY <1>2, <1>3, <1>7, <2>1, <2>2, <2>4, <2>5 DEF f, l, S, q
<1> QED  BY <1>6, <1>7

\* The packets of all audio encoders.
AudioOf(q) == {i \in 1 .. Len(q) : q[i].type = "audio"}

\* They are those of each of them.
LEMMA AudioOfTracks ==
    ASSUME NEW o \in Outputs
    PROVE  /\ \A a \in AudioTracks : Of(o, "audio", a) \subseteq AudioOf(o.interleaved_packets)
           /\ \A i \in AudioOf(o.interleaved_packets) :
                 \E a \in AudioTracks : i \in Of(o, "audio", a)
<1> DEFINE q == o.interleaved_packets
<1>1. \A i \in 1 .. Len(q) : q[i] \in Packets
  BY OutputFields
<1>2. \A a \in AudioTracks : Of(o, "audio", a) =
         {i \in 1 .. Len(q) : q[i].type = "audio" /\ q[i].track_idx = a}
  BY OfStream
<1>3. \A i \in AudioOf(q) : q[i].track_idx \in AudioTracks
  BY <1>1, StreamOfParts DEF AudioOf
<1> QED  BY <1>2, <1>3 DEF AudioOf

-----------------------------------------------------------------------------
(* get_interleaved_start_idx cuts before the first video packet and before    *)
(* the audio packet closest to it.                                            *)

\* How far the packets at i and v are apart.
Apart(q, i, v) == Distance(q[i].dts_usec, q[v].dts_usec)

\* The first of the audio packets that are as close to v as any.
ClosestTo(q, v, c) ==
    /\ c \in AudioOf(q)
    /\ \A j \in AudioOf(q) : Apart(q, c, v) <= Apart(q, j, v)
    /\ \A i \in AudioOf(q) :
          (\A j \in AudioOf(q) : Apart(q, i, v) <= Apart(q, j, v)) => c <= i

\* A distance is not negative.
LEMMA ApartType ==
    ASSUME NEW q \in Seq(Packets), NEW i \in 1 .. Len(q), NEW v \in 1 .. Len(q)
    PROVE  Apart(q, i, v) \in Nat
<1>1. q[i].dts_usec \in Int /\ q[v].dts_usec \in Int
  BY ElementOfSeq, PacketFields
<1> QED  BY <1>1 DEF Apart, Distance

\* There is a closest audio packet.
LEMMA ClosestExists ==
    ASSUME NEW q \in Seq(Packets), NEW v \in 1 .. Len(q), AudioOf(q) # {}
    PROVE  LET closest == {i \in AudioOf(q) : \A j \in AudioOf(q) : Apart(q, i, v) <= Apart(q, j, v)}
           IN  /\ closest # {} /\ closest \subseteq Nat
               /\ ClosestTo(q, v, Min(closest))
<1> DEFINE closest == {i \in AudioOf(q) : \A j \in AudioOf(q) : Apart(q, i, v) <= Apart(q, j, v)}
           T == {Apart(q, i, v) : i \in AudioOf(q)}
<1>1. T \subseteq Nat /\ T # {}
  <2>1. \A i \in AudioOf(q) : Apart(q, i, v) \in Nat
    BY ApartType DEF AudioOf
  <2> QED  BY <2>1
<1>2. PICK m \in T : \A y \in T : m <= y
  BY <1>1, LeastOf
<1>3. PICK c \in AudioOf(q) : m = Apart(q, c, v)
  OBVIOUS
<1>4. \A j \in AudioOf(q) : Apart(q, c, v) <= Apart(q, j, v)
  BY <1>2, <1>3
<1>5. closest # {}
  BY <1>4
<1>6. closest \subseteq Nat
  BY LenProperties DEF AudioOf
<1> HIDE DEF closest
<1>7. Min(closest) \in closest /\ \A y \in closest : Min(closest) <= y
  BY <1>5, <1>6, MinOf
<1> QED  BY <1>5, <1>6, <1>7 DEF closest, ClosestTo

\* What the index is: that of the first video, of the closest audio, or of priming.
LEMMA StartIdxCuts ==
    ASSUME NEW o \in Outputs, FirstOf(o, "video", 0) # 0,
           AudioOf(o.interleaved_packets) # {}
    PROVE  LET q == o.interleaved_packets
               v == FirstOf(o, "video", 0)
           IN  \E c \in 1 .. Len(q) :
                  LET start == IF v < c THEN v ELSE c
                  IN  /\ ClosestTo(q, v, c)
                      /\ StartIdx(o) \in 0 .. Len(q) - 1
                      /\ StartIdx(o) + 1 <= v /\ StartIdx(o) + 1 <= c
                      /\ \/ StartIdx(o) + 1 = start
                         \/ \E i, f \in AudioOf(q) :
                               /\ StartIdx(o) + 1 = i
                               /\ i < start /\ start <= f /\ q[f].dts <= 0
                               /\ \A j \in AudioOf(q) : start <= j => f <= j
<1> DEFINE q       == o.interleaved_packets
           v       == FirstOf(o, "video", 0)
           audio   == {i \in DOMAIN q : q[i].type = "audio"}
           closest == {i \in audio : \A j \in audio :
                         Distance(q[i].dts_usec, q[v].dts_usec)
                           <= Distance(q[j].dts_usec, q[v].dts_usec)}
           c       == Min(closest)
           start   == Min({v, c})
           first   == Min({i \in audio : i >= start})
           priming == {FirstOf(o, "audio", a) : a \in AudioTracks} \ {0}
           x       == IF q[first].dts <= 0 THEN Min({start} \cup priming) ELSE start
<1>1. q \in Seq(Packets) /\ Len(q) \in Nat /\ DOMAIN q = 1 .. Len(q)
  BY OutputFields
<1>2. v \in 1 .. Len(q)
  <2>1. v \in 0 .. Len(q)
    BY OfStream
  <2> QED  BY <1>1, <2>1
<1>3. audio = AudioOf(q) /\ audio # {}
  BY <1>1 DEF AudioOf
<1>4. closest = {i \in AudioOf(q) : \A j \in AudioOf(q) : Apart(q, i, v) <= Apart(q, j, v)}
  BY <1>3 DEF Apart
<1>5. ClosestTo(q, v, c)
  <2> HIDE DEF closest, audio, v, q
  <2> QED  BY <1>1, <1>2, <1>3, <1>4, ClosestExists
<1>6. StartIdx(o) = x - 1
  <2>1. StartIdx(o) = (IF q[Min({i \in audio : i >= Min({v, IF audio = {} THEN 1 ELSE c})})].dts <= 0
                       THEN Min({Min({v, IF audio = {} THEN 1 ELSE c})} \cup priming)
                       ELSE Min({v, IF audio = {} THEN 1 ELSE c})) - 1
    BY DEF StartIdx
  <2>2. (IF audio = {} THEN 1 ELSE c) = c
    BY <1>3
  <2> HIDE DEF audio, c, v, priming
  <2> QED  BY <2>1, <2>2
<1>7. priming \subseteq audio /\ priming \subseteq 1 .. Len(q)
  <2> SUFFICES ASSUME NEW a \in AudioTracks, FirstOf(o, "audio", a) # 0
               PROVE  FirstOf(o, "audio", a) \in audio
    BY <1>1
  <2>1. FirstOf(o, "audio", a) \in Of(o, "audio", a)
    BY OfStream
  <2> QED  BY <1>3, <2>1, AudioOfTracks
<1>8. c \in audio /\ c \in 1 .. Len(q)
  BY <1>1, <1>3, <1>5 DEF ClosestTo
<1> HIDE DEF v, closest, audio, priming, c, q
<1>9. start = IF v < c THEN v ELSE c
  <2>1. {v, c} \subseteq Nat /\ {v, c} # {}
    BY <1>2, <1>8
  <2>2. Min({v, c}) \in {v, c} /\ \A y \in {v, c} : Min({v, c}) <= y
    BY <2>1, MinOf
  <2> QED  BY <1>2, <1>8, <2>2
<1>10. start \in 1 .. Len(q) /\ start <= v /\ start <= c
  BY <1>1, <1>2, <1>8, <1>9
<1>11. first \in audio /\ first >= start /\ \A j \in audio : start <= j => first <= j
  <2> DEFINE S == {i \in audio : i >= start}
  <2>1. c \in S
    BY <1>8, <1>10
  <2>2. S \subseteq Nat
    BY <1>1, <1>3 DEF AudioOf
  <2> HIDE DEF S
  <2>3. Min(S) \in S /\ \A j \in S : Min(S) <= j
    BY <2>1, <2>2, MinOf
  <2>4. \A j \in audio : start <= j => j \in S
    BY <1>1, <1>3, <1>10 DEF S, AudioOf
  <2> QED  BY <2>3, <2>4 DEF S
<1> HIDE DEF start, first
<1>12. CASE x = start
  <2>1. StartIdx(o) + 1 = start /\ StartIdx(o) \in 0 .. Len(q) - 1
    BY <1>1, <1>6, <1>10, <1>12
  <2> QED  BY <1>5, <1>8, <1>9, <1>10, <2>1 DEF v, q
<1>13. CASE x # start
  <2> DEFINE S == {start} \cup priming
  <2>1. q[first].dts <= 0 /\ x = Min(S)
    BY <1>13
  <2>2. S \subseteq Nat /\ S # {}
    BY <1>7, <1>10
  <2> HIDE DEF S
  <2>3. x \in S /\ x <= start
    BY <2>1, <2>2, MinOf DEF S
  <2>4. x \in priming
    BY <1>13, <2>3 DEF S
  <2> HIDE DEF x
  <2>5. x \in audio /\ x \in 1 .. Len(q) /\ x < start /\ start <= first
    BY <1>1, <1>3, <1>7, <1>10, <1>11, <1>13, <2>3, <2>4 DEF AudioOf
  <2>6. StartIdx(o) + 1 = x /\ StartIdx(o) \in 0 .. Len(q) - 1
    BY <1>1, <1>6, <2>5
  <2>7. StartIdx(o) + 1 <= v /\ StartIdx(o) + 1 <= c
    BY <1>1, <1>2, <1>8, <1>10, <2>5, <2>6
  <2>8. x \in AudioOf(q) /\ first \in AudioOf(q)
        /\ \A j \in AudioOf(q) : start <= j => first <= j
    BY <1>3, <1>11, <2>5
  <2> QED  BY <1>5, <1>8, <1>9, <2>1, <2>5, <2>6, <2>7, <2>8 DEF v, q
<1> QED  BY <1>12, <1>13

-----------------------------------------------------------------------------
(* prune_interleaved_packets and initialize_interleaved_packets.              *)

\* Every encoder that pruning and the offsets need has a packet.
LEMMA HasPackets ==
    ASSUME NEW o \in Outputs, CanPrune(o) \/ HaveAll(o)
    PROVE  /\ FirstOf(o, "video", 0) # 0
           /\ \A a \in AudioTracks : FirstOf(o, "audio", a) # 0
           /\ AudioOf(o.interleaved_packets) # {}
<1>1. FirstOf(o, "video", 0) # 0
  BY InterleaveAssumption DEF CanPrune, HaveAll, MissingVideo
<1>2. \A a \in AudioTracks : FirstOf(o, "audio", a) # 0
  BY DEF CanPrune, HaveAll, MissingAudio
<1>3. AudioOf(o.interleaved_packets) # {}
  <2>1. PICK a \in AudioTracks : TRUE
    BY InterleaveAssumption
  <2>2. FirstOf(o, "audio", a) \in Of(o, "audio", a)
    BY <1>2, OfStream
  <2> QED  BY <2>2, AudioOfTracks
<1> QED  BY <1>1, <1>2, <1>3

\* The last audio encoder starts more than a packet after the video.
LateAudio(o) ==
    LET q       == o.interleaved_packets
        longest == Max({AudioInterval[a] : a \in AudioTracks})
    IN  q[FirstOf(o, "audio", Max(AudioTracks))].dts_usec - q[FirstOf(o, "video", 0)].dts_usec
          > (IF Cardinality(AudioTracks) > 1 THEN Max({VideoInterval, longest})
                                             ELSE VideoInterval)

\* prune_premature_packets cuts at the first video or audio packet.
LEMMA PrematureCuts ==
    ASSUME NEW o \in Outputs, CanPrune(o)
    PROVE  LET q == o.interleaved_packets
               n == Premature(o)
           IN  /\ n \in 0 .. Len(q)
               /\ n # 0 <=> LateAudio(o)
               /\ n # 0 => /\ FirstOf(o, "video", 0) <= n
                           /\ \A a \in AudioTracks : FirstOf(o, "audio", a) <= n
                           /\ n \in {FirstOf(o, "video", 0)}
                                      \cup {FirstOf(o, "audio", a) : a \in AudioTracks}
<1> DEFINE q == o.interleaved_packets
           v == FirstOf(o, "video", 0)
           S == {v} \cup {FirstOf(o, "audio", a) : a \in AudioTracks}
<1>0. Len(q) \in Nat
  BY OutputFields
<1>1. \A f \in S : f \in 1 .. Len(q)
  <2>1. v \in 1 .. Len(q)
    <3>1. v \in 0 .. Len(q) /\ v # 0
      BY OfStream, HasPackets
    <3> QED  BY <1>0, <3>1
  <2>2. \A a \in AudioTracks : FirstOf(o, "audio", a) \in 1 .. Len(q)
    <3> TAKE a \in AudioTracks
    <3>1. FirstOf(o, "audio", a) \in 0 .. Len(q) /\ FirstOf(o, "audio", a) # 0
      BY OfStream, HasPackets
    <3> QED  BY <1>0, <3>1
  <2> QED  BY <2>1, <2>2
<1>2. Premature(o) = IF LateAudio(o) THEN Max(S) ELSE 0
  BY Zenon DEF Premature, LateAudio
<1>3. S \subseteq 0 .. Len(q) /\ S # {} /\ v \in S
      /\ \A a \in AudioTracks : FirstOf(o, "audio", a) \in S
  BY <1>0, <1>1
<1> HIDE DEF S, v, q
<1>4. Max(S) \in S /\ \A y \in S : Max(S) >= y
  BY <1>0, <1>3, MaxOf
<1>5. Max(S) \in 1 .. Len(q) /\ Max(S) # 0 /\ \A y \in S : y <= Max(S)
  BY <1>0, <1>1, <1>4
<1>6. CASE LateAudio(o)
  <2>1. Premature(o) = Max(S)
    BY <1>2, <1>6
  <2> QED  BY <1>0, <1>3, <1>4, <1>5, <1>6, <2>1 DEF S, v, q
<1>7. CASE ~LateAudio(o)
  <2>1. Premature(o) = 0
    BY <1>2, <1>7
  <2> QED  BY <1>0, <1>7, <2>1 DEF q
<1> QED  BY <1>6, <1>7

\* The index is in the queue.
LEMMA StartIdxRange ==
    ASSUME NEW o \in Outputs, CanPrune(o) \/ HaveAll(o)
    PROVE  StartIdx(o) \in 0 .. Len(o.interleaved_packets)
<1>1. Len(o.interleaved_packets) \in Nat
  BY OutputFields
<1>2. StartIdx(o) \in 0 .. Len(o.interleaved_packets) - 1
  BY HasPackets, StartIdxCuts
<1> QED  BY <1>1, <1>2

\* prune_interleaved_packets takes packets from the front.
LEMMA PruneCuts ==
    ASSUME NEW o \in Outputs, CanPrune(o)
    PROVE  \E n \in 0 .. Len(o.interleaved_packets) : Prune(o) = DiscardTo(o, n)
BY PrematureCuts, StartIdxRange DEF Prune

\* The packets of a stream start the time of the stream: video so that its pts
\* starts at 0, audio so that its dts does.
LEMMA SetOffsetsMoves ==
    ASSUME NEW o \in Outputs, HaveAll(o)
    PROVE  LET q == o.interleaved_packets
               r == SetOffsets(o)
               first(s) == q[FirstOf(o, s[1], s[2])]
           IN  /\ r \in Outputs /\ SameReceived(o, r)
               /\ r.highest_video_ts = o.highest_video_ts
               /\ r.highest_audio_ts =
                     o.highest_audio_ts - first(<<"audio", Min(AudioTracks)>>).dts_usec
               /\ \A s \in Streams :
                     r.offsets[s] = IF s[1] = "video" THEN first(s).dts + PtsDelay
                                    ELSE IF first(s).dts > 0 THEN first(s).dts ELSE o.offsets[s]
               /\ Moved(q, r.interleaved_packets)
               /\ \A i \in 1 .. Len(q) :
                     r.interleaved_packets[i].dts_usec = q[i].dts - r.offsets[StreamOf(q[i])]
<1> DEFINE q         == o.interleaved_packets
           first(s)  == q[FirstOf(o, s[1], s[2])]
           offset(s) == IF s[1] = "video" THEN first(s).dts + PtsDelay
                        ELSE IF first(s).dts > 0 THEN first(s).dts ELSE o.offsets[s]
           offs      == [s \in Streams |-> offset(s)]
           highest   == o.highest_audio_ts - first(<<"audio", Min(AudioTracks)>>).dts_usec
           moved     == [o EXCEPT !.offsets = offs, !.highest_audio_ts = highest]
           n         == [i \in DOMAIN q |-> ApplyOffset(moved, q[i])]
           r         == [moved EXCEPT !.interleaved_packets = n]
<1>1. /\ q \in Seq(Packets) /\ Len(q) \in Nat /\ DOMAIN q = 1 .. Len(q)
      /\ \A i \in 1 .. Len(q) : q[i] \in Packets
  BY OutputFields
<1>2. \A s \in Streams : first(s) \in Packets
  <2> TAKE s \in Streams
  <2>1. FirstOf(o, s[1], s[2]) \in 0 .. Len(q) /\ FirstOf(o, s[1], s[2]) # 0
    <3>1. CASE IsVideo(s)
      <4>1. FirstOf(o, s[1], s[2]) # 0
        BY <3>1 DEF IsVideo, HaveAll, MissingVideo
      <4> QED  BY <4>1, OfStream
    <3>2. CASE IsAudio(s)
      <4>1. FirstOf(o, s[1], s[2]) # 0
        BY <3>2 DEF IsAudio, HaveAll, MissingAudio
      <4> QED  BY <4>1, OfStream
    <3> QED  BY <3>1, <3>2, StreamParts
  <2> QED  BY <1>1, <2>1
<1>3. \A s \in Streams : offset(s) \in Int
  <2> TAKE s \in Streams
  <2>1. first(s).dts \in Int /\ o.offsets[s] \in Int /\ PtsDelay \in Int
    BY <1>2, PacketFields, OutputFields, InterleaveAssumption
  <2> HIDE DEF first
  <2> QED  BY <2>1
<1>4. offs \in [Streams -> Int] /\ \A s \in Streams : offs[s] = offset(s)
  BY <1>3
<1>5. highest \in Int
  <2>1. Min(AudioTracks) \in AudioTracks
    BY InterleaveAssumption, MinOf
  <2>2. first(<<"audio", Min(AudioTracks)>>) \in Packets
    BY <1>2, <2>1, StreamParts
  <2> HIDE DEF first
  <2> QED  BY <2>2, PacketFields, OutputFields
<1>6. SetOffsets(o) = r
  BY Zenon DEF SetOffsets
<1> HIDE DEF offs, highest
<1>7. /\ moved \in Outputs /\ SameReceived(o, moved) /\ moved.offsets = offs
      /\ moved.highest_video_ts = o.highest_video_ts /\ moved.highest_audio_ts = highest
  BY <1>4, <1>5 DEF Outputs, SameReceived
<1> HIDE DEF moved, q
<1>8. \A i \in 1 .. Len(q) :
         /\ ApplyOffset(moved, q[i]) \in Packets
         /\ StreamOf(ApplyOffset(moved, q[i])) = StreamOf(q[i])
         /\ ApplyOffset(moved, q[i]).sys_dts_usec = q[i].sys_dts_usec
         /\ ApplyOffset(moved, q[i]).dts_usec = q[i].dts - offs[StreamOf(q[i])]
  BY <1>1, <1>7, ApplyOffsetMoves
<1>9. n \in [1 .. Len(q) -> Packets] /\ \A i \in 1 .. Len(q) : n[i] = ApplyOffset(moved, q[i])
  BY <1>1, <1>8
<1> HIDE DEF n
<1>10. n \in Seq(Packets) /\ Len(n) = Len(q)
  <2>1. n \in Seq(Packets)
    BY <1>1, <1>9, SeqDef
  <2>2. DOMAIN n = 1 .. Len(q) /\ DOMAIN n = 1 .. Len(n) /\ Len(n) \in Nat
    BY <1>9, <2>1, LenProperties
  <2> QED  BY <1>1, <2>1, <2>2
<1>11. r \in Outputs /\ r.interleaved_packets = n /\ SameButQueue(moved, r)
  BY <1>7, <1>10, WithQueue
<1> HIDE DEF r
<1>12. Moved(q, n)
  BY <1>8, <1>9, <1>10 DEF Moved
<1>13. r.offsets = offs /\ r.highest_video_ts = o.highest_video_ts
       /\ r.highest_audio_ts = highest /\ SameReceived(o, r)
  BY <1>7, <1>11 DEF SameButQueue, SameReceived, SameHighest
<1>14. \A i \in 1 .. Len(q) : n[i].dts_usec = q[i].dts - r.offsets[StreamOf(q[i])]
  BY <1>8, <1>9, <1>13
<1> QED  BY <1>4, <1>6, <1>11, <1>12, <1>13, <1>14 DEF q, highest, r

-----------------------------------------------------------------------------
(* count_streamable_frames and the loop that sends.                           *)

\* count_streamable_frames counts those that others have passed.
LEMMA StreamableCounts ==
    ASSUME NEW o \in Outputs
    PROVE  /\ Streamable(o) \in 0 .. Len(o.interleaved_packets)
           /\ \A i \in 1 .. Streamable(o) : HasHigherOpposing(o, o.interleaved_packets[i])
<1> DEFINE q     == o.interleaved_packets
           stuck == {i \in DOMAIN q : ~HasHigherOpposing(o, q[i])}
<1>1. Len(q) \in Nat /\ DOMAIN q = 1 .. Len(q)
  BY OutputFields
<1>2. Streamable(o) = IF stuck = {} THEN Len(q) ELSE Min(stuck) - 1
  BY DEF Streamable
<1>3. stuck \subseteq 1 .. Len(q) /\ stuck \subseteq Nat
  BY <1>1
<1>4. \A i \in 1 .. Len(q) : i \notin stuck => HasHigherOpposing(o, q[i])
  BY <1>1
<1> HIDE DEF stuck
<1>5. CASE stuck = {}
  BY <1>1, <1>2, <1>4, <1>5
<1>6. CASE stuck # {}
  <2>1. Min(stuck) \in stuck /\ \A y \in stuck : Min(stuck) <= y
    BY <1>3, <1>6, MinOf
  <2>2. Min(stuck) \in 1 .. Len(q)
    BY <1>3, <2>1
  <2>3. Streamable(o) = Min(stuck) - 1
    BY <1>2, <1>6
  <2>4. ASSUME NEW i \in 1 .. Streamable(o)  PROVE HasHigherOpposing(o, q[i])
    <3>1. i \in 1 .. Len(q) /\ i < Min(stuck)
      BY <1>1, <2>2, <2>3
    <3>2. i \notin stuck
      BY <2>1, <2>2, <3>1
    <3> QED  BY <1>4, <3>1, <3>2
  <2>5. Streamable(o) \in 0 .. Len(q)
    BY <1>1, <2>2, <2>3
  <2> QED  BY <2>4, <2>5
<1> QED  BY <1>5, <1>6

\* No more are sent than may be.
LEMMA ToSendCounts ==
    ASSUME NEW o \in Outputs, interleaver_max_batch_size \in Nat
    PROVE  /\ ToSend(o) \in 0 .. Len(o.interleaved_packets)
           /\ \A i \in 1 .. ToSend(o) : HasHigherOpposing(o, o.interleaved_packets[i])
<1>1. Len(o.interleaved_packets) \in Nat /\ Streamable(o) \in 0 .. Len(o.interleaved_packets)
  BY OutputFields, StreamableCounts
<1>2. \/ ToSend(o) = 0
      \/ ToSend(o) = 2 /\ Streamable(o) - 1 > interleaver_max_batch_size
      \/ ToSend(o) = 1 /\ Streamable(o) # 0
  BY DEF ToSend
<1>3. ToSend(o) \in 0 .. Len(o.interleaved_packets) /\ ToSend(o) <= Streamable(o)
  BY <1>1, <1>2
<1>4. \A i \in 1 .. ToSend(o) : i \in 1 .. Streamable(o)
  BY <1>1, <1>3
<1> QED  BY <1>3, <1>4, StreamableCounts

\* The longest interval of any encoder.
LEMMA LongestIs ==
    /\ IsFiniteSet(Streams) /\ LongestInterval \in Nat
    /\ \A s \in Streams : Interval(s) <= LongestInterval
<1> DEFINE I == {Interval(s) : s \in Streams}
<1>1. IsFiniteSet(Streams)
  <2>1. IsFiniteSet({"video"} \X VideoTracks) /\ IsFiniteSet({"audio"} \X AudioTracks)
    BY InterleaveAssumption, FS_Product, FS_Singleton
  <2> QED  BY <2>1, FS_Union DEF Streams
<1>2. I \subseteq Nat /\ \A s \in Streams : Interval(s) \in I
  BY IntervalType
<1>3. IsFiniteSet(I)
  <2> DEFINE g == [s \in Streams |-> Interval(s)]
  <2>1. g \in [Streams -> I] /\ \A x \in I : \E s \in Streams : g[s] = x
    OBVIOUS
  <2> HIDE DEF g, I
  <2>2. g \in Surjection(Streams, I)
    BY <2>1 DEF Surjection
  <2> QED  BY <1>1, <2>2, FS_Surjection
<1>4. I # {}
  <2>1. PICK s \in Streams : TRUE
    BY StreamParts, InterleaveAssumption
  <2> QED  BY <2>1
<1>5. LongestInterval = Max(I)
  BY DEF LongestInterval
<1> HIDE DEF I
<1>6. Max(I) \in I /\ \A y \in I : Max(I) >= y
  BY <1>2, <1>3, <1>4, MaxOfFinite
<1>7. Max(I) \in Nat /\ \A s \in Streams : Interval(s) <= Max(I)
  BY <1>2, <1>6
<1> QED  BY <1>1, <1>5, <1>7

\* calculate_batch_size.
LEMMA BatchSizeType == BatchSize \in Nat
<1> DEFINE f == [s \in Streams |-> (2 * LongestInterval) \div Interval(s)]
<1>1. IsFiniteSet(Streams)
  BY LongestIs
<1>2. LongestInterval \in Nat
  BY LongestIs
<1>3. ASSUME NEW s \in Streams  PROVE f[s] \in Nat
  <2>1. Interval(s) \in Nat /\ Interval(s) > 0
    BY IntervalType
  <2> QED  BY <1>2, <2>1
<1>4. DOMAIN f = Streams
  OBVIOUS
<1>5. BatchSize = SumFunctionOnSet(f, Streams)
  BY <1>4 DEF BatchSize, SumFunction
<1> HIDE DEF f
<1> QED  BY <1>1, <1>3, <1>5, SumType

-----------------------------------------------------------------------------
(* The invariant of the output while it collects packets.                     *)

\* Outputs of one encoder of video, or of one of audio.
OneVideo == VideoTracks = {0}
OneAudio == \A a, b \in AudioTracks : a = b

\* When the next packet of each stream is produced, and what each is moved by.
Upcoming(d) == [s \in Streams |-> Base[s] + d[s]]
MovedBy(o)  == [s \in Streams |-> Base[s] + o.offsets[s]]

\* The dts of the next packets.
Clocks == [Streams -> {n \in Int : n >= -Priming}]

\* The packets are as their encoders made them.
AsProduced(q) ==
    \A i \in 1 .. Len(q) :
        /\ q[i].dts >= -Priming
        /\ q[i].dts_usec = q[i].sys_dts_usec
        /\ q[i].sys_dts_usec = Base[StreamOf(q[i])] + q[i].dts

\* What holds of the queue until the streams start,
Fresh(o, d) ==
    /\ o \in Outputs /\ d \in Clocks
    /\ Ordered(o.interleaved_packets) /\ AsProduced(o.interleaved_packets)
    /\ Chain(o.interleaved_packets, Upcoming(d))
    /\ o.offsets = [s \in Streams |-> 0]
    /\ o.highest_video_ts = [v \in VideoTracks |-> Lowest] /\ o.highest_audio_ts = 0

\* and what the output knows of it.
VideoKnown(o) == o.received_video[0] <=> FirstOf(o, "video", 0) # 0

Collecting(o, h, d) == Fresh(o, d) /\ VideoKnown(o) /\ ~Receives(o) /\ h = <<>>

\* The packet that stream s produces at d.
PacketOf(d, s, keyframe) ==
    [type |-> s[1], track_idx |-> s[2], dts |-> d[s], keyframe |-> keyframe,
     dts_usec |-> Base[s] + d[s], sys_dts_usec |-> Base[s] + d[s]]

\* The encoder of s goes on.
After(d, s) == [d EXCEPT ![s] = @ + Interval(s)]

\* The dts of a stream, which may be below 0 by the priming.
LEMMA DtsType ==
    ASSUME NEW d \in Clocks
    PROVE  Priming \in Nat /\ \A s \in Streams : d[s] \in Int /\ d[s] >= -Priming
BY InterleaveAssumption DEF Clocks

\* The fields of a packet that an encoder produces.
LEMMA PacketOfStream ==
    ASSUME NEW d \in Clocks, NEW s \in Streams, NEW keyframe \in BOOLEAN
    PROVE  LET p == PacketOf(d, s, keyframe)
           IN  /\ p \in Packets /\ StreamOf(p) = s /\ p.type = s[1] /\ p.track_idx = s[2]
               /\ p.dts = d[s] /\ d[s] \in Int
               /\ p.dts_usec = Base[s] + d[s] /\ p.sys_dts_usec = Base[s] + d[s]
               /\ p.sys_dts_usec = Upcoming(d)[s]
               /\ EndOf(p) = Base[s] + d[s] + Interval(s)
<1> DEFINE p == PacketOf(d, s, keyframe)
<1>1. /\ s[1] \in {"video", "audio"} /\ s[2] \in Nat /\ s = <<s[1], s[2]>>
  BY StreamParts DEF IsVideo, IsAudio
<1>2. d[s] \in Int /\ Base[s] \in Nat
  BY BaseType, DtsType
<1>3. /\ p.type = s[1] /\ p.track_idx = s[2] /\ p.dts = d[s] /\ p.keyframe = keyframe
      /\ p.dts_usec = Base[s] + d[s] /\ p.sys_dts_usec = Base[s] + d[s]
  BY DEF PacketOf
<1>4. p \in Packet
  BY <1>1, <1>2 DEF Packet, PacketOf
<1> HIDE DEF p
<1>5. StreamOf(p) = s
  BY <1>1, <1>3 DEF StreamOf
<1>6. p \in Packets
  BY <1>4, <1>5 DEF Packets
<1>7. EndOf(p) = Base[s] + d[s] + Interval(s)
  BY <1>3, <1>5 DEF EndOf
<1>8. p.sys_dts_usec = Upcoming(d)[s]
  BY <1>3 DEF Upcoming
<1> QED  BY <1>2, <1>3, <1>5, <1>6, <1>7, <1>8 DEF p

\* The times of the next packets.
LEMMA UpcomingType ==
    ASSUME NEW d \in Clocks
    PROVE  Upcoming(d) \in Times
BY BaseType, DtsType DEF Upcoming, Times

\* What the streams are moved by.
LEMMA MovedByType ==
    ASSUME NEW o \in Outputs
    PROVE  /\ MovedBy(o) \in Times
           /\ \A s \in Streams : MovedBy(o)[s] = Base[s] + o.offsets[s]
<1>1. o.offsets \in [Streams -> Int]
  BY OutputFields
<1> QED  BY <1>1, BaseType DEF MovedBy, Times

\* Going on moves the next packet of one stream to the end of this one.
LEMMA AfterPacket ==
    ASSUME NEW d \in Clocks, NEW s \in Streams, NEW keyframe \in BOOLEAN
    PROVE  /\ After(d, s) \in Clocks
           /\ After(d, s)[s] = d[s] + Interval(s) /\ After(d, s)[s] > d[s]
           /\ \A t \in Streams : t # s => After(d, s)[t] = d[t]
           /\ Upcoming(After(d, s)) =
                 [Upcoming(d) EXCEPT ![s] = EndOf(PacketOf(d, s, keyframe))]
<1> DEFINE e == After(d, s)
<1>1. Interval(s) \in Nat /\ Interval(s) > 0 /\ d[s] \in Int /\ d[s] >= -Priming /\ Priming \in Nat
  BY IntervalType, DtsType
<1>2. /\ e \in Clocks /\ e[s] = d[s] + Interval(s) /\ e[s] > d[s]
      /\ \A t \in Streams : t # s => e[t] = d[t]
  <2>1. d[s] + Interval(s) \in {n \in Int : n >= -Priming} /\ d[s] + Interval(s) > d[s]
    BY <1>1
  <2> QED  BY <2>1 DEF After, Clocks
<1> HIDE DEF e
<1>3. Base[s] + e[s] = EndOf(PacketOf(d, s, keyframe))
  <2>1. EndOf(PacketOf(d, s, keyframe)) = Base[s] + d[s] + Interval(s)
    BY PacketOfStream
  <2> QED  BY <1>1, <1>2, <2>1, BaseType
<1>4. Upcoming(e) = [Upcoming(d) EXCEPT ![s] = EndOf(PacketOf(d, s, keyframe))]
  BY <1>2, <1>3 DEF Upcoming
<1> QED  BY <1>2, <1>4 DEF e

\* To drop packets from the front keeps it,
LEMMA FreshCut ==
    ASSUME NEW o, NEW d, Fresh(o, d), NEW n \in 0 .. Len(o.interleaved_packets)
    PROVE  Fresh(DiscardTo(o, n), d)
<1> DEFINE q == o.interleaved_packets
           r == DiscardTo(o, n)
           w == r.interleaved_packets
<1>1. /\ o \in Outputs /\ d \in Clocks /\ Ordered(q) /\ AsProduced(q)
      /\ Chain(q, Upcoming(d))
  BY DEF Fresh
<1>2. r \in Outputs /\ SameButQueue(o, r) /\ Dropped(q, w, n)
  BY <1>1, DiscardToDrops
<1> HIDE DEF r
<1>3. q \in Seq(Packets) /\ w \in Seq(Packets)
  BY <1>1, <1>2, OutputFields
<1>4. Ordered(w) /\ Chain(w, Upcoming(d))
  BY <1>1, <1>2, <1>3, DroppedKeeps, UpcomingType
<1>5. AsProduced(w)
  <2>1. \A k \in 1 .. Len(w) : k + n \in 1 .. Len(q) /\ w[k] = q[k + n]
    BY <1>2, <1>3, LenProperties DEF Dropped
  <2> QED  BY <1>1, <2>1 DEF AsProduced
<1> QED  BY <1>1, <1>2, <1>4, <1>5 DEF Fresh, SameButQueue, SameHighest, r

\* so does what leaves the packets,
LEMMA FreshSame ==
    ASSUME NEW o, NEW d, Fresh(o, d), NEW r \in Outputs,
           r.interleaved_packets = o.interleaved_packets, r.offsets = o.offsets,
           SameHighest(o, r)
    PROVE  Fresh(r, d)
BY DEF Fresh, SameHighest

\* and a packet inserted, when its encoder goes on.
LEMMA FreshInserted ==
    ASSUME NEW o, NEW d, Fresh(o, d), NEW s \in Streams, NEW keyframe \in BOOLEAN
    PROVE  LET p == PacketOf(d, s, keyframe)
               r == InsertPacket(o, p)
           IN  /\ Fresh(r, After(d, s)) /\ SameReceived(o, r)
               /\ Members(r.interleaved_packets) = Members(o.interleaved_packets) \cup {p}
<1> DEFINE p == PacketOf(d, s, keyframe)
           q == o.interleaved_packets
           r == InsertPacket(o, p)
           w == r.interleaved_packets
           at == Place(q, p)
<1>1. /\ o \in Outputs /\ d \in Clocks /\ Ordered(q) /\ AsProduced(q)
      /\ Chain(q, Upcoming(d))
  BY DEF Fresh
<1>2. /\ p \in Packets /\ StreamOf(p) = s /\ p.dts = d[s] /\ d[s] \in Int
      /\ p.dts_usec = Base[s] + d[s] /\ p.sys_dts_usec = Base[s] + d[s]
      /\ p.sys_dts_usec = Upcoming(d)[s]
  BY <1>1, PacketOfStream
<1> HIDE DEF p
<1>3. r \in Outputs /\ SameButQueue(o, r) /\ Inserted(q, w, at, p) /\ Ordered(w)
  BY <1>1, <1>2, PacketPlaced
<1> HIDE DEF r
<1>4. q \in Seq(Packets) /\ w \in Seq(Packets)
  BY <1>1, <1>3, OutputFields
<1>5. \A k \in 1 .. Len(q) : StreamOf(q[k]) = StreamOf(p) => k < at
  <2> SUFFICES ASSUME NEW k \in 1 .. Len(q), StreamOf(q[k]) = s  PROVE k < at
    BY <1>2
  <2>1. q[k] \in Packets /\ q[k].dts_usec = q[k].sys_dts_usec
    BY <1>1, <1>4, ElementOfSeq DEF AsProduced
  <2>2. EndOf(q[k]) <= p.sys_dts_usec
    BY <1>1, <1>2 DEF Chain, Behind
  <2>3. q[k].dts_usec < p.dts_usec
    <3>1. q[k].sys_dts_usec \in Int /\ p.sys_dts_usec \in Int /\ p.dts_usec = p.sys_dts_usec
      BY <1>2, <2>1, PacketFields
    <3> QED  BY <2>1, <2>2, <3>1, EndOfType
  <2> QED  BY <1>1, <1>2, <1>4, <2>3, PlaceOf
<1> HIDE DEF q, w, at
<1>6. Chain(w, [Upcoming(d) EXCEPT ![StreamOf(p)] = EndOf(p)])
  BY <1>1, <1>2, <1>3, <1>4, <1>5, InsertedChain, UpcomingType
<1>7. Chain(w, Upcoming(After(d, s))) /\ After(d, s) \in Clocks
  BY <1>1, <1>2, <1>6, AfterPacket DEF p
<1>8. Members(w) = Members(q) \cup {p}
  BY <1>2, <1>3, <1>4, InsertedMembers
<1>9. AsProduced(w)
  <2> SUFFICES ASSUME NEW i \in 1 .. Len(w)
               PROVE  /\ w[i].dts >= -Priming
                      /\ w[i].dts_usec = w[i].sys_dts_usec
                      /\ w[i].sys_dts_usec = Base[StreamOf(w[i])] + w[i].dts
    BY DEF AsProduced
  <2>1. w[i] = p \/ \E j \in 1 .. Len(q) : w[i] = q[j]
    BY <1>4, <1>8, MembersOf
  <2>2. d[s] >= -Priming
    BY <1>1, DtsType
  <2> QED  BY <1>1, <1>2, <2>1, <2>2 DEF AsProduced
<1> QED  BY <1>1, <1>3, <1>7, <1>8, <1>9 DEF Fresh, SameButQueue, SameHighest, r, w, q, p

\* A packet that is not queued leaves no gap before the first of its stream.
LEMMA FreshSkipped ==
    ASSUME NEW o, NEW d, Fresh(o, d), NEW s \in Streams,
           \A i \in 1 .. Len(o.interleaved_packets) : StreamOf(o.interleaved_packets[i]) # s
    PROVE  Fresh(o, After(d, s))
<1> DEFINE q == o.interleaved_packets
<1>1. o \in Outputs /\ d \in Clocks /\ Chain(q, Upcoming(d))
  BY DEF Fresh
<1>2. /\ After(d, s) \in Clocks
      /\ \A t \in Streams : t # s => After(d, s)[t] = d[t]
  BY <1>1, AfterPacket
<1>3. \A i \in 1 .. Len(q) : Upcoming(After(d, s))[StreamOf(q[i])] = Upcoming(d)[StreamOf(q[i])]
  <2> TAKE i \in 1 .. Len(q)
  <2>1. StreamOf(q[i]) \in Streams
    BY <1>1, OutputFields, PacketFields
  <2> QED  BY <1>2, <2>1 DEF Upcoming
<1>4. Chain(q, Upcoming(After(d, s)))
  BY <1>1, <1>3 DEF Chain, Behind, Followed
<1> QED  BY <1>2, <1>4 DEF Fresh

-----------------------------------------------------------------------------
(* With one encoder of video, an output that is not ready waits for a packet. *)

\* What an output with one encoder of video waits for.
LEMMA ReceivesBoth ==
    ASSUME OneVideo, NEW o \in Outputs
    PROVE  /\ Receives(o) <=> o.received_video[0] /\ o.received_audio
           /\ HaveAll(o) <=> /\ FirstOf(o, "video", 0) # 0
                             /\ \A a \in AudioTracks : FirstOf(o, "audio", a) # 0
           /\ MissingVideo(o) # {} => FirstOf(o, "video", 0) = 0 /\ Min(MissingVideo(o)) = 0
<1>1. Receives(o) <=> o.received_video[0] /\ o.received_audio
  BY DEF OneVideo, Receives
<1>2. HaveAll(o) <=> /\ FirstOf(o, "video", 0) # 0
                     /\ \A a \in AudioTracks : FirstOf(o, "audio", a) # 0
  BY DEF OneVideo, HaveAll, MissingVideo, MissingAudio
<1>3. ASSUME MissingVideo(o) # {}
      PROVE  FirstOf(o, "video", 0) = 0 /\ Min(MissingVideo(o)) = 0
  <2>1. MissingVideo(o) \subseteq {0} /\ MissingVideo(o) \subseteq Nat
    BY DEF OneVideo, MissingVideo
  <2>2. Min(MissingVideo(o)) \in MissingVideo(o)
    BY <1>3, <2>1, MinOf
  <2> QED  BY <2>1, <2>2 DEF MissingVideo
<1> QED  BY <1>1, <1>2, <1>3

\* The first packet of a stream depends on the queue alone.
LEMMA FirstOfSame ==
    ASSUME NEW o, NEW r, r.interleaved_packets = o.interleaved_packets
    PROVE  \A type, track : FirstOf(r, type, track) = FirstOf(o, type, track)
BY DEF FirstOf, Of

\* received_audio is taken back, the video is there.
LEMMA AwaitAudio ==
    ASSUME OneVideo, NEW o, NEW d, Fresh(o, d), FirstOf(o, "video", 0) # 0, Receives(o)
    PROVE  LET r == [o EXCEPT !.received_audio = FALSE]
           IN  Fresh(r, d) /\ VideoKnown(r) /\ ~Receives(r)
<1> DEFINE r == [o EXCEPT !.received_audio = FALSE]
<1>1. o \in Outputs /\ o.received_video[0]
  BY ReceivesBoth DEF Fresh
<1>2. /\ r \in Outputs /\ r.interleaved_packets = o.interleaved_packets
      /\ r.offsets = o.offsets /\ SameHighest(o, r)
      /\ r.received_video = o.received_video /\ r.received_audio = FALSE
  BY <1>1 DEF Outputs, SameHighest
<1> HIDE DEF r
<1>3. Fresh(r, d)
  BY <1>2, FreshSame
<1>4. VideoKnown(r)
  BY <1>1, <1>2, FirstOfSame DEF VideoKnown
<1>5. ~Receives(r)
  BY <1>2, ReceivesBoth
<1> QED  BY <1>3, <1>4, <1>5 DEF r

\* get_audio_and_video_packets fails.
LEMMA AwaitMissingAwaits ==
    ASSUME OneVideo, NEW o, NEW d, Fresh(o, d), ~HaveAll(o), Receives(o)
    PROVE  LET r == AwaitMissing(o)
           IN  Fresh(r, d) /\ VideoKnown(r) /\ ~Receives(r)
<1>1. o \in Outputs /\ o.received_video[0]
  BY ReceivesBoth DEF Fresh
<1>2. CASE MissingVideo(o) # {}
  <2> DEFINE f == [o.received_video EXCEPT ![0] = FALSE]
             r == [o EXCEPT !.received_video = f]
  <2>1. AwaitMissing(o) = r
    BY <1>1, <1>2, ReceivesBoth DEF AwaitMissing
  <2>2. f \in [VideoTracks -> BOOLEAN] /\ f[0] = FALSE
    BY <1>1, OutputFields DEF OneVideo
  <2> HIDE DEF f
  <2>3. /\ r \in Outputs /\ r.interleaved_packets = o.interleaved_packets
        /\ r.offsets = o.offsets /\ SameHighest(o, r) /\ r.received_video = f
    BY <1>1, <2>2 DEF Outputs, SameHighest
  <2> HIDE DEF r
  <2>4. Fresh(r, d)
    BY <2>3, FreshSame
  <2>5. FirstOf(o, "video", 0) = 0
    BY <1>1, <1>2, ReceivesBoth
  <2>6. VideoKnown(r)
    BY <2>2, <2>3, <2>5, FirstOfSame DEF VideoKnown
  <2>7. ~Receives(r)
    BY <2>2, <2>3, ReceivesBoth
  <2> QED  BY <2>1, <2>4, <2>6, <2>7
<1>3. CASE MissingVideo(o) = {}
  <2>1. AwaitMissing(o) = [o EXCEPT !.received_audio = FALSE]
    BY <1>3 DEF AwaitMissing
  <2>2. FirstOf(o, "video", 0) # 0
    BY <1>3 DEF MissingVideo, OneVideo
  <2> QED  BY <2>1, <2>2, AwaitAudio
<1> QED  BY <1>2, <1>3

\* A cut keeps what was received.
LEMMA CutReceives ==
    ASSUME OneVideo, NEW o \in Outputs, Receives(o), NEW n \in 0 .. Len(o.interleaved_packets)
    PROVE  Receives(DiscardTo(o, n))
<1>1. DiscardTo(o, n) \in Outputs /\ SameButQueue(o, DiscardTo(o, n))
  BY DiscardToDrops
<1> QED  BY <1>1 DEF Receives, SameButQueue, SameReceived

\* When the streams cannot start, a packet of some encoder is awaited.
LEMMA NotReadyAwaits ==
    ASSUME OneVideo, NEW o, NEW d, Fresh(o, d), VideoKnown(o), Receives(o), ~Ready(o)
    PROVE  LET r == NotReady(o)
           IN  Fresh(r, d) /\ VideoKnown(r) /\ ~Receives(r)
<1> DEFINE p == Prune(o)
           x == DiscardTo(p, StartIdx(p))
<1>0. o \in Outputs /\ FirstOf(o, "video", 0) # 0
  BY ReceivesBoth DEF Fresh, VideoKnown
<1>1. CASE ~CanPrune(o)
  <2>1. NotReady(o) = [o EXCEPT !.received_audio = FALSE]
    BY <1>0, <1>1 DEF NotReady, PruneFails
  <2> QED  BY <1>0, <2>1, AwaitAudio
<1>2. CASE CanPrune(o)
  <2>1. PICK n \in 0 .. Len(o.interleaved_packets) : p = DiscardTo(o, n)
    BY <1>0, <1>2, PruneCuts
  <2>2. Fresh(p, d) /\ Receives(p)
    BY <1>0, <2>1, FreshCut, CutReceives
  <2>3. p \in Outputs
    BY <2>2 DEF Fresh
  <2>4. CASE ~HaveAll(p)
    <3>1. NotReady(o) = AwaitMissing(p)
      BY <1>2, <2>4 DEF NotReady
    <3> HIDE DEF p
    <3> QED  BY <2>2, <2>4, <3>1, AwaitMissingAwaits
  <2>5. CASE HaveAll(p) /\ ~AudioPast(p)
    <3>1. NotReady(o) = [p EXCEPT !.received_audio = FALSE]
      BY <1>2, <2>5 DEF NotReady
    <3>2. FirstOf(p, "video", 0) # 0
      BY <2>3, <2>5, HasPackets
    <3> HIDE DEF p
    <3> QED  BY <2>2, <3>1, <3>2, AwaitAudio
  <2>6. CASE HaveAll(p) /\ AudioPast(p)
    <3>1. NotReady(o) = AwaitMissing(x)
      BY <1>2, <2>6 DEF NotReady
    <3>2. ~HaveAll(x)
      BY <1>2, <2>6 DEF Ready
    <3> HIDE DEF p
    <3>3. StartIdx(p) \in 0 .. Len(p.interleaved_packets)
      BY <2>3, <2>6, StartIdxRange
    <3>4. Fresh(x, d) /\ Receives(x)
      BY <2>2, <2>3, <3>3, FreshCut, CutReceives
    <3> HIDE DEF x
    <3> QED  BY <3>1, <3>2, <3>4, AwaitMissingAwaits
  <2> QED  BY <2>4, <2>5, <2>6
<1> QED  BY <1>1, <1>2

-----------------------------------------------------------------------------
(* The invariant of the output once its streams have started.                 *)

Running(o, h, d) ==
    /\ o \in Outputs /\ d \in Clocks /\ h \in Seq(Packets)
    /\ Receives(o)
    /\ Ordered(o.interleaved_packets)
    /\ Stamped(o.interleaved_packets, MovedBy(o))
    /\ Chain(h \o o.interleaved_packets, Upcoming(d))

\* The packets, after the offsets are set, are those of the streams in order.
LEMMA OffsetsStart ==
    ASSUME NEW o, NEW d, Fresh(o, d), HaveAll(o), Receives(o)
    PROVE  LET m == SetOffsets(o)
               r == Resort(m)
           IN  /\ m \in Outputs
               /\ Running(r, <<>>, d) /\ r.offsets = m.offsets
               /\ Members(r.interleaved_packets) = Members(m.interleaved_packets)
               /\ Len(r.interleaved_packets) > 0
               /\ HighestFrom(m, r, Members(m.interleaved_packets))
               /\ Stamped(m.interleaved_packets, MovedBy(m))
<1> DEFINE m == SetOffsets(o)
           r == Resort(m)
           q == o.interleaved_packets
           n == m.interleaved_packets
           w == r.interleaved_packets
<1>1. /\ o \in Outputs /\ d \in Clocks /\ AsProduced(q) /\ Chain(q, Upcoming(d))
  BY DEF Fresh
<1>2. /\ m \in Outputs /\ SameReceived(o, m) /\ Moved(q, n)
      /\ \A i \in 1 .. Len(q) : n[i].dts_usec = q[i].dts - m.offsets[StreamOf(q[i])]
  BY <1>1, SetOffsetsMoves
<1> HIDE DEF m
<1>3. q \in Seq(Packets) /\ n \in Seq(Packets)
  BY <1>1, <1>2, OutputFields
<1>4. Chain(n, Upcoming(d))
  BY <1>1, <1>2, <1>3, MovedKeeps, UpcomingType
<1>5. Stamped(n, MovedBy(m))
  <2> SUFFICES ASSUME NEW i \in 1 .. Len(q)
               PROVE  n[i].dts_usec = n[i].sys_dts_usec - MovedBy(m)[StreamOf(n[i])]
    BY <1>2 DEF Stamped, Moved
  <2>1. StreamOf(n[i]) = StreamOf(q[i]) /\ n[i].sys_dts_usec = q[i].sys_dts_usec
    BY <1>2 DEF Moved
  <2>2. q[i] \in Packets /\ q[i].sys_dts_usec = Base[StreamOf(q[i])] + q[i].dts
    BY <1>1, <1>3, ElementOfSeq DEF AsProduced
  <2> DEFINE s == StreamOf(q[i])
  <2>3. /\ s \in Streams /\ q[i].dts \in Int /\ Base[s] \in Nat /\ m.offsets[s] \in Int
        /\ MovedBy(m)[s] = Base[s] + m.offsets[s]
    BY <1>2, <2>2, PacketFields, BaseType, MovedByType, OutputFields
  <2>4. n[i].dts_usec = q[i].dts - m.offsets[s]
    BY <1>2
  <2> HIDE DEF s, q, n
  <2>5. n[i].dts_usec = n[i].sys_dts_usec - MovedBy(m)[s]
    BY <2>1, <2>2, <2>3, <2>4 DEF s
  <2> QED  BY <2>1, <2>5 DEF s
<1>6. SortedWith(m, r, Members(n))
  BY <1>2, <1>4, <1>5, ResortSorts, MovedByType DEF Chain
<1> HIDE DEF r
<1>7. /\ r \in Outputs /\ SameReceived(m, r) /\ r.offsets = m.offsets
      /\ Ordered(w) /\ Rising(w) /\ Members(w) = Members(n)
      /\ HighestFrom(m, r, Members(n))
  BY <1>6 DEF SortedWith
<1>8. w \in Seq(Packets)
  BY <1>7, OutputFields
<1>9. Stamped(w, MovedBy(r))
  <2>1. MovedBy(r) = MovedBy(m)
    BY <1>7 DEF MovedBy
  <2> QED  BY <1>2, <1>3, <1>5, <1>7, <1>8, <2>1, SameMembers, MovedByType
<1>10. Chain(w, Upcoming(d))
  BY <1>1, <1>3, <1>4, <1>7, <1>8, SameMembers, UpcomingType DEF Chain
<1>11. <<>> \o w = w /\ <<>> \in Seq(Packets)
  BY <1>8, ConcatEmptySeq, EmptySeq
<1>12. Receives(r)
  BY <1>2, <1>7 DEF Receives, SameReceived
<1>13. Len(w) > 0
  <2>1. FirstOf(o, "video", 0) \in 1 .. Len(q)
    <3>1. FirstOf(o, "video", 0) # 0 /\ FirstOf(o, "video", 0) \in 0 .. Len(q)
      BY <1>1, HasPackets, OfStream
    <3> QED  BY <3>1
  <2>2. Len(n) = Len(q)
    BY <1>2 DEF Moved
  <2>3. PICK p \in Members(n) : TRUE
    BY <1>3, <2>1, <2>2, MembersOf
  <2>4. \E i \in 1 .. Len(w) : p = w[i]
    BY <1>7, <1>8, <2>3, MembersOf
  <2> QED  BY <1>8, <2>4, LenProperties
<1>14. Running(r, <<>>, d)
  BY <1>1, <1>7, <1>9, <1>10, <1>11, <1>12 DEF Running
<1> QED  BY <1>2, <1>5, <1>7, <1>13, <1>14 DEF m, r

\* Sending moves packets from the queue to those sent.
LEMMA SendKeepsRunning ==
    ASSUME NEW o, NEW h, NEW d, Running(o, h, d), NEW n \in 0 .. Len(o.interleaved_packets)
    PROVE  LET r == DiscardTo(o, n)
               c == h \o SubSeq(o.interleaved_packets, 1, n)
           IN  /\ Running(r, c, d) /\ SameButQueue(o, r)
               /\ c \o r.interleaved_packets = h \o o.interleaved_packets
               /\ SubSeq(o.interleaved_packets, 1, n) \in Seq(Packets)
               /\ Len(SubSeq(o.interleaved_packets, 1, n)) = n
               /\ \A i \in 1 .. n : SubSeq(o.interleaved_packets, 1, n)[i]
                                      = o.interleaved_packets[i]
<1> DEFINE q == o.interleaved_packets
           r == DiscardTo(o, n)
           w == r.interleaved_packets
           l == SubSeq(q, 1, n)
<1>1. /\ o \in Outputs /\ d \in Clocks /\ h \in Seq(Packets)
      /\ Receives(o) /\ Ordered(q) /\ Stamped(q, MovedBy(o))
      /\ Chain(h \o q, Upcoming(d))
  BY DEF Running
<1>2. r \in Outputs /\ SameButQueue(o, r) /\ Dropped(q, w, n)
  BY <1>1, DiscardToDrops
<1>3. q \in Seq(Packets) /\ w \in Seq(Packets) /\ Len(q) \in Nat
  BY <1>1, <1>2, OutputFields
<1>4. l \in Seq(Packets) /\ Len(l) = n /\ \A i \in 1 .. n : l[i] = q[i]
  BY <1>3, SubSeqProperties
<1>5. (h \o l) \o w = h \o q
  <2>1. w = SubSeq(q, n + 1, Len(q))
    BY <1>1 DEF DiscardTo, Outputs
  <2> QED  BY <1>1, <1>3, <2>1, Handed
<1>6. MovedBy(r) = MovedBy(o)
  BY <1>2 DEF SameButQueue, MovedBy
<1>7. Ordered(w) /\ Stamped(w, MovedBy(r))
  BY <1>1, <1>2, <1>3, <1>6, DroppedKeeps, MovedByType
<1>8. Receives(r)
  BY <1>1, <1>2 DEF SameButQueue, SameReceived, Receives
<1> HIDE DEF r, w, q, l
<1>9. h \o l \in Seq(Packets)
  BY <1>1, <1>4, ConcatProperties
<1>10. Running(r, h \o l, d)
  BY <1>1, <1>2, <1>5, <1>7, <1>8, <1>9 DEF Running, q, w
<1> QED  BY <1>2, <1>4, <1>5, <1>10 DEF q, r, w, l

\* A packet is moved as its stream is, and is the newest of it.
LEMMA RunningInserted ==
    ASSUME NEW o, NEW h, NEW d, Running(o, h, d), NEW s \in Streams, NEW keyframe \in BOOLEAN
    PROVE  LET out == ApplyOffset(o, PacketOf(d, s, keyframe))
               r   == SetHigher(InsertPacket(o, out), out)
           IN  /\ Running(r, h, After(d, s)) /\ r.offsets = o.offsets
               /\ out \in Packets /\ StreamOf(out) = s
               /\ out.dts_usec = d[s] - o.offsets[s]
               /\ Members(r.interleaved_packets) = Members(o.interleaved_packets) \cup {out}
               /\ HighestFrom(o, r, {out})
<1> DEFINE p   == PacketOf(d, s, keyframe)
           out == ApplyOffset(o, p)
           q   == o.interleaved_packets
           u   == InsertPacket(o, out)
           r   == SetHigher(u, out)
           w   == u.interleaved_packets
           at  == Place(q, out)
<1>1. /\ o \in Outputs /\ d \in Clocks /\ h \in Seq(Packets)
      /\ Receives(o) /\ Ordered(q) /\ Stamped(q, MovedBy(o))
      /\ Chain(h \o q, Upcoming(d))
  BY DEF Running
<1>2. /\ p \in Packets /\ StreamOf(p) = s /\ p.dts = d[s] /\ d[s] \in Int
      /\ p.sys_dts_usec = Base[s] + d[s] /\ p.sys_dts_usec = Upcoming(d)[s]
      /\ After(d, s) \in Clocks
      /\ Upcoming(After(d, s)) = [Upcoming(d) EXCEPT ![s] = EndOf(p)]
  BY <1>1, PacketOfStream, AfterPacket
<1> HIDE DEF p
<1>3. /\ out \in Packets /\ StreamOf(out) = s /\ out.sys_dts_usec = Base[s] + d[s]
      /\ out.sys_dts_usec = Upcoming(d)[s] /\ out.dts_usec = d[s] - o.offsets[s]
      /\ EndOf(out) = EndOf(p)
  <2>1. /\ out \in Packets /\ StreamOf(out) = StreamOf(p)
        /\ out.sys_dts_usec = p.sys_dts_usec /\ out.dts_usec = p.dts - o.offsets[StreamOf(p)]
    BY <1>1, <1>2, ApplyOffsetMoves
  <2> HIDE DEF out
  <2> QED  BY <1>2, <2>1 DEF EndOf
<1>4. out.dts_usec = out.sys_dts_usec - MovedBy(o)[s]
  <2>1. MovedBy(o)[s] = Base[s] + o.offsets[s] /\ Base[s] \in Nat /\ o.offsets[s] \in Int
    BY <1>1, MovedByType, BaseType, OutputFields
  <2> HIDE DEF out
  <2> QED  BY <1>2, <1>3, <2>1
<1> HIDE DEF out
<1>5. u \in Outputs /\ SameButQueue(o, u) /\ Inserted(q, w, at, out) /\ Ordered(w)
  BY <1>1, <1>3, PacketPlaced
<1> HIDE DEF u
<1>6. q \in Seq(Packets) /\ w \in Seq(Packets) /\ Len(q) \in Nat /\ Len(h) \in Nat
  BY <1>1, <1>5, OutputFields, LenProperties
<1> DEFINE c == h \o q
           e == h \o w
<1>7. /\ c \in Seq(Packets) /\ e \in Seq(Packets) /\ Len(c) = Len(h) + Len(q)
      /\ \A k \in 1 .. Len(q) : Len(h) + k \in 1 .. Len(c) /\ c[Len(h) + k] = q[k]
  <2>1. /\ c \in Seq(Packets) /\ Len(c) = Len(h) + Len(q)
        /\ \A k \in 1 .. Len(h) + Len(q) : c[k] = IF k <= Len(h) THEN h[k] ELSE q[k - Len(h)]
    BY <1>1, <1>6, ConcatProperties
  <2>2. e \in Seq(Packets)
    BY <1>1, <1>6, ConcatProperties
  <2> HIDE DEF c, e
  <2>3. ASSUME NEW k \in 1 .. Len(q)
        PROVE  Len(h) + k \in 1 .. Len(c) /\ c[Len(h) + k] = q[k]
    <3>1. Len(h) + k \in 1 .. Len(h) + Len(q) /\ ~ (Len(h) + k <= Len(h))
          /\ (Len(h) + k) - Len(h) = k
      BY <1>6
    <3> QED  BY <2>1, <3>1
  <2> QED  BY <2>1, <2>2, <2>3
<1>8. Inserted(c, e, Len(h) + at, out)
  BY <1>1, <1>3, <1>5, <1>6, InsertedBehind
<1> HIDE DEF c, e
<1>9. \A k \in 1 .. Len(c) : StreamOf(c[k]) = s => EndOf(c[k]) <= out.sys_dts_usec
  BY <1>1, <1>3 DEF Chain, Behind, c
<1>10. \A k \in 1 .. Len(q) : StreamOf(q[k]) = s => k < at
  <2> SUFFICES ASSUME NEW k \in 1 .. Len(q), StreamOf(q[k]) = s  PROVE k < at
    OBVIOUS
  <2>1. q[k] \in Packets /\ EndOf(q[k]) <= out.sys_dts_usec
    BY <1>6, <1>7, <1>9, ElementOfSeq
  <2>2. q[k].dts_usec = q[k].sys_dts_usec - MovedBy(o)[s]
    BY <1>1 DEF Stamped
  <2>3. /\ q[k].sys_dts_usec \in Int /\ out.sys_dts_usec \in Int /\ MovedBy(o)[s] \in Int
        /\ q[k].sys_dts_usec < EndOf(q[k]) /\ EndOf(q[k]) \in Int
    BY <1>1, <1>3, <2>1, PacketFields, EndOfType, MovedByType DEF Times
  <2>4. q[k].dts_usec < out.dts_usec
    BY <1>4, <2>1, <2>2, <2>3
  <2> QED  BY <1>1, <1>3, <1>6, <2>4, PlaceOf
<1>11. \A k \in 1 .. Len(c) : StreamOf(c[k]) = StreamOf(out) => k < Len(h) + at
  <2> SUFFICES ASSUME NEW k \in 1 .. Len(c), StreamOf(c[k]) = s, ~ (k <= Len(h))
               PROVE  k < Len(h) + at
    <3>1. at \in 1 .. Len(q) + 1
      BY <1>5 DEF Inserted
    <3> QED  BY <1>3, <1>6, <1>7, <3>1
  <2>1. k - Len(h) \in 1 .. Len(q) /\ Len(h) + (k - Len(h)) = k
    BY <1>6, <1>7
  <2>2. q[k - Len(h)] = c[k]
    BY <1>7, <2>1
  <2>3. k - Len(h) < at
    BY <1>10, <2>1, <2>2
  <2>4. at \in 1 .. Len(q) + 1
    BY <1>5 DEF Inserted
  <2> QED  BY <1>6, <2>3, <2>4
<1>12. Chain(e, Upcoming(After(d, s)))
  <2>1. Chain(e, [Upcoming(d) EXCEPT ![StreamOf(out)] = EndOf(out)])
    BY <1>1, <1>3, <1>7, <1>8, <1>11, InsertedChain, UpcomingType DEF c
  <2> QED  BY <1>2, <1>3, <2>1
<1>13. /\ r \in Outputs /\ r.interleaved_packets = w /\ SameReceived(u, r)
       /\ r.offsets = u.offsets
       /\ \A v \in VideoTracks :
             \/ r.highest_video_ts[v] = u.highest_video_ts[v]
             \/ StreamOf(out) = <<"video", v>> /\ r.highest_video_ts[v] = out.dts_usec
       /\ \/ r.highest_audio_ts = u.highest_audio_ts
          \/ out.type = "audio" /\ r.highest_audio_ts = out.dts_usec
  BY <1>3, <1>5, SetHigherSets
<1> HIDE DEF r
<1>14. /\ r.offsets = o.offsets /\ MovedBy(r) = MovedBy(o)
       /\ SameReceived(o, r) /\ Receives(r) /\ HighestFrom(o, r, {out})
  <2>1. r.offsets = o.offsets
    BY <1>5, <1>13 DEF SameButQueue
  <2>2. SameReceived(o, r)
    BY <1>5, <1>13 DEF SameButQueue, SameReceived
  <2>3. HighestFrom(o, r, {out})
    BY <1>5, <1>13 DEF SameButQueue, SameHighest, HighestFrom
  <2> QED  BY <1>1, <2>1, <2>2, <2>3 DEF MovedBy, SameReceived, Receives
<1>15. Members(w) = Members(q) \cup {out}
  BY <1>3, <1>5, <1>6, InsertedMembers
<1>16. Stamped(w, MovedBy(r))
  <2> SUFFICES ASSUME NEW i \in 1 .. Len(w)
               PROVE  w[i].dts_usec = w[i].sys_dts_usec - MovedBy(o)[StreamOf(w[i])]
    BY <1>14 DEF Stamped
  <2>1. w[i] = out \/ \E j \in 1 .. Len(q) : w[i] = q[j]
    BY <1>6, <1>15, MembersOf
  <2> QED  BY <1>1, <1>3, <1>4, <2>1 DEF Stamped
<1>17. Running(r, h, After(d, s))
  BY <1>1, <1>2, <1>5, <1>12, <1>13, <1>14, <1>16 DEF Running, e, w
<1> QED  BY <1>3, <1>13, <1>14, <1>15, <1>17 DEF r, u, w, q, out, p

-----------------------------------------------------------------------------
(* The steps.                                                                 *)

Steady ==
    /\ interleaver_max_batch_size \in Nat
    /\ Collecting(output, sent, dts) \/ Running(output, sent, dts)

\* The video that was received is in the queue.
LEMMA FirstOfMember ==
    ASSUME NEW o \in Outputs, NEW type, NEW track
    PROVE  FirstOf(o, type, track) # 0
             <=> \E p \in Members(o.interleaved_packets) : StreamOf(p) = <<type, track>>
<1> DEFINE q == o.interleaved_packets
<1>1. q \in Seq(Packets)
  BY OutputFields
<1>2. FirstOf(o, type, track) # 0 <=> \E i \in 1 .. Len(q) : StreamOf(q[i]) = <<type, track>>
  <2>1. \A i \in Of(o, type, track) : i \in 1 .. Len(q)
    BY OfStream
  <2> QED  BY <2>1, OfStream
<1> HIDE DEF q
<1> QED  BY <1>1, <1>2, MembersOf DEF q

\* A new start collects.
LEMMA ResetCollects ==
    ASSUME OneVideo, NEW d \in Clocks
    PROVE  Collecting(ResetPacketData, <<>>, d)
<1> DEFINE o == ResetPacketData
<1>1. Lowest \in Int
  BY InterleaveAssumption DEF Lowest
<1>2. /\ o.interleaved_packets = <<>>
      /\ o.received_video = [v \in VideoTracks |-> FALSE] /\ o.received_audio = FALSE
      /\ o.offsets = [s \in Streams |-> 0]
      /\ o.highest_video_ts = [v \in VideoTracks |-> Lowest] /\ o.highest_audio_ts = 0
  BY DEF ResetPacketData
<1>3. o \in Outputs
  <2>1. <<>> \in Seq(Packets)
    BY EmptySeq
  <2> QED  BY <1>1, <2>1 DEF ResetPacketData, Outputs
<1> HIDE DEF o
<1>4. Len(o.interleaved_packets) = 0
  BY <1>2
<1>5. Fresh(o, d)
  BY <1>2, <1>3, <1>4 DEF Fresh, Ordered, AsProduced, Chain, Rising, Behind, Followed
<1>6. ~Receives(o)
  BY <1>2 DEF Receives
<1>7. FirstOf(o, "video", 0) = 0
  <2>1. FirstOf(o, "video", 0) \in 0 .. Len(o.interleaved_packets)
    BY <1>3, OfStream
  <2> QED  BY <1>4, <2>1
<1>8. VideoKnown(o)
  BY <1>2, <1>7 DEF VideoKnown, OneVideo
<1> QED  BY <1>5, <1>6, <1>8 DEF Collecting, o

\* A packet before the first key frame.
LEMMA DiscardNonKeyCollects ==
    ASSUME OneVideo, Collecting(output, sent, dts),
           NEW s \in Streams, NEW keyframe \in BOOLEAN,
           DiscardNonKey(PacketOf(dts, s, keyframe))
    PROVE  Collecting(output', sent', After(dts, s))
<1> DEFINE p == PacketOf(dts, s, keyframe)
           q == output.interleaved_packets
           r == DiscardUnusedAudio(output, p.dts_usec)
<1>1. /\ Fresh(output, dts) /\ output \in Outputs /\ dts \in Clocks
      /\ VideoKnown(output) /\ ~Receives(output) /\ sent = <<>>
  BY DEF Collecting, Fresh
<1>2. /\ p.type = "video" /\ ~output.received_video[p.track_idx]
      /\ output' = r /\ sent' = sent
  BY DEF DiscardNonKey
<1>3. s = <<"video", 0>> /\ ~output.received_video[0]
  <2>1. p \in Packets /\ StreamOf(p) = s /\ p.type = s[1] /\ p.track_idx = s[2]
    BY <1>1, PacketOfStream
  <2>2. p.track_idx = 0
    BY <1>2, <2>1, StreamOfParts DEF OneVideo
  <2> HIDE DEF p
  <2> QED  BY <1>2, <2>1, <2>2 DEF StreamOf
<1>4. \A i \in 1 .. Len(q) : StreamOf(q[i]) # s
  <2>1. FirstOf(output, "video", 0) = 0
    BY <1>1, <1>3 DEF VideoKnown
  <2>2. Of(output, "video", 0) = {}
    BY <1>1, <2>1, OfStream
  <2>3. \A i \in 1 .. Len(q) : i \in Of(output, "video", 0) <=> StreamOf(q[i]) = <<"video", 0>>
    BY <1>1, OfStream
  <2> QED  BY <1>3, <2>2, <2>3
<1>5. Fresh(output, After(dts, s))
  BY <1>1, <1>4, FreshSkipped
<1>6. PICK n \in 0 .. Len(q) : r = DiscardTo(output, n)
  BY <1>1, DiscardUnusedAudioCuts
<1>7. Fresh(r, After(dts, s)) /\ SameButQueue(output, r)
      /\ Dropped(q, r.interleaved_packets, n)
  BY <1>1, <1>5, <1>6, FreshCut, DiscardToDrops
<1> HIDE DEF r
<1>8. r \in Outputs
  BY <1>7 DEF Fresh
<1>9. FirstOf(r, "video", 0) = 0
  <2> SUFFICES ASSUME NEW m \in Members(r.interleaved_packets), StreamOf(m) = <<"video", 0>>
               PROVE  FALSE
    BY <1>8, FirstOfMember
  <2>1. PICK i \in 1 .. Len(r.interleaved_packets) : m = r.interleaved_packets[i]
    BY DEF Members
  <2>2. m = q[i + n] /\ i + n \in 1 .. Len(q)
    <3>1. Len(q) \in Nat
      BY <1>1, OutputFields
    <3> QED  BY <1>7, <2>1, <3>1 DEF Dropped
  <2> QED  BY <1>3, <1>4, <2>2
<1>10. VideoKnown(r) /\ ~Receives(r)
  BY <1>1, <1>3, <1>7, <1>8, <1>9, ReceivesBoth
     DEF VideoKnown, SameButQueue, SameReceived
<1> QED  BY <1>1, <1>2, <1>7, <1>10 DEF Collecting

\* A packet that is collected.
LEMMA CollectInserts ==
    ASSUME OneVideo, NEW o, NEW d, Fresh(o, d), VideoKnown(o),
           NEW s \in Streams, NEW keyframe \in BOOLEAN
    PROVE  LET p == PacketOf(d, s, keyframe)
               r == InsertPacket(CheckReceived(o, p), p)
           IN  Fresh(r, After(d, s)) /\ VideoKnown(r)
<1> DEFINE p == PacketOf(d, s, keyframe)
           c == CheckReceived(o, p)
           r == InsertPacket(c, p)
<1>1. o \in Outputs /\ d \in Clocks
  BY DEF Fresh
<1>2. /\ p \in Packets /\ StreamOf(p) = s /\ p.type = s[1] /\ p.track_idx = s[2]
      /\ p.type = "video" => p.track_idx = 0
      /\ \A x, y : s = <<x, y>> <=> p.type = x /\ p.track_idx = y
  <2>1. p \in Packets /\ StreamOf(p) = s /\ p.type = s[1] /\ p.track_idx = s[2]
    BY <1>1, PacketOfStream
  <2> HIDE DEF p
  <2>2. p.type = "video" => p.track_idx = 0
    BY <2>1, StreamOfParts DEF OneVideo
  <2>3. \A x, y : s = <<x, y>> <=> p.type = x /\ p.track_idx = y
    BY <2>1, StreamOfParts
  <2> QED  BY <2>1, <2>2, <2>3
<1>3. /\ c \in Outputs /\ c.interleaved_packets = o.interleaved_packets
      /\ c.offsets = o.offsets /\ SameHighest(o, c)
      /\ c.received_video[0] <=> p.type = "video" \/ o.received_video[0]
  <2> HIDE DEF p
  <2>1. CASE p.type = "video"
    <3> DEFINE f == [o.received_video EXCEPT ![0] = TRUE]
    <3>1. f \in [VideoTracks -> BOOLEAN] /\ f[0] = TRUE
      BY <1>1, OutputFields DEF OneVideo
    <3>2. c = [o EXCEPT !.received_video = f]
      BY <1>2, <2>1 DEF CheckReceived
    <3> HIDE DEF f, c
    <3>3. /\ c \in Outputs /\ c.interleaved_packets = o.interleaved_packets
          /\ c.offsets = o.offsets /\ SameHighest(o, c) /\ c.received_video = f
      BY <1>1, <3>1, <3>2 DEF Outputs, SameHighest
    <3> QED  BY <2>1, <3>1, <3>3
  <2>2. CASE p.type # "video"
    <3>1. c = [o EXCEPT !.received_audio = TRUE]
      BY <2>2 DEF CheckReceived
    <3> HIDE DEF c
    <3>2. /\ c \in Outputs /\ c.interleaved_packets = o.interleaved_packets
          /\ c.offsets = o.offsets /\ SameHighest(o, c) /\ c.received_video = o.received_video
      BY <1>1, <3>1 DEF Outputs, SameHighest
    <3> QED  BY <2>2, <3>2
  <2> QED  BY <2>1, <2>2
<1> HIDE DEF c
<1>4. Fresh(c, d)
  BY <1>3, FreshSame
<1>5. /\ Fresh(r, After(d, s)) /\ SameReceived(c, r)
      /\ Members(r.interleaved_packets) = Members(c.interleaved_packets) \cup {p}
  BY <1>4, FreshInserted
<1> HIDE DEF r, p
<1>6. r \in Outputs
  BY <1>5 DEF Fresh
<1>7. FirstOf(r, "video", 0) # 0 <=> p.type = "video" \/ FirstOf(o, "video", 0) # 0
  <2>1. FirstOf(r, "video", 0) # 0
          <=> \E m \in Members(r.interleaved_packets) : StreamOf(m) = <<"video", 0>>
    BY <1>6, FirstOfMember
  <2>2. FirstOf(o, "video", 0) # 0
          <=> \E m \in Members(o.interleaved_packets) : StreamOf(m) = <<"video", 0>>
    BY <1>1, FirstOfMember
  <2>3. StreamOf(p) = <<"video", 0>> <=> p.type = "video"
    BY <1>2
  <2> QED  BY <1>3, <1>5, <2>1, <2>2, <2>3
<1>8. VideoKnown(r)
  BY <1>3, <1>5, <1>7 DEF VideoKnown, SameReceived
<1> QED  BY <1>5, <1>8 DEF r, c, p

\* What pruning leaves when the streams can start.
Beginning(o) == DiscardTo(Prune(o), StartIdx(Prune(o)))

\* It is a queue with packets of all.
LEMMA ReadyBegins ==
    ASSUME OneVideo, NEW o, NEW d, Fresh(o, d), Receives(o), Ready(o)
    PROVE  /\ Fresh(Prune(o), d) /\ HaveAll(Prune(o)) /\ Prune(o) \in Outputs
           /\ Fresh(Beginning(o), d) /\ HaveAll(Beginning(o)) /\ Receives(Beginning(o))
           /\ Started(o) = Resort(SetOffsets(Beginning(o)))
<1> DEFINE p == Prune(o)
<1>1. o \in Outputs
  BY DEF Fresh
<1>2. CanPrune(o) /\ HaveAll(p) /\ HaveAll(Beginning(o))
  BY DEF Ready, Beginning
<1>3. PICK n \in 0 .. Len(o.interleaved_packets) : p = DiscardTo(o, n)
  BY <1>1, <1>2, PruneCuts
<1>4. Fresh(p, d) /\ Receives(p)
  BY <1>1, <1>3, FreshCut, CutReceives
<1>5. Started(o) = Resort(SetOffsets(Beginning(o)))
  BY DEF Started, Beginning
<1> HIDE DEF p
<1>6. p \in Outputs
  BY <1>4 DEF Fresh
<1>7. StartIdx(p) \in 0 .. Len(p.interleaved_packets)
  BY <1>2, <1>6, StartIdxRange
<1>8. Fresh(Beginning(o), d) /\ Receives(Beginning(o))
  BY <1>4, <1>6, <1>7, FreshCut, CutReceives DEF Beginning, p
<1> QED  BY <1>2, <1>4, <1>5, <1>6, <1>8 DEF p

\* The output starts: of what it has collected with the last packet, the first
\* one is sent.
Starts ==
    \E o : /\ Fresh(o, dts') /\ Receives(o) /\ Ready(o)
           /\ output' = DiscardTo(Started(o), 1)
           /\ sent' = <<>> \o SubSeq(Started(o).interleaved_packets, 1, 1)

\* The output goes on: the packet of a stream is queued, and those sent that may be.
GoesOn ==
    \E s \in Streams, keyframe \in BOOLEAN :
        LET out == ApplyOffset(output, PacketOf(dts, s, keyframe))
            r   == SetHigher(InsertPacket(output, out), out)
        IN  /\ Running(output, sent, dts) /\ dts' = After(dts, s)
            /\ output' = DiscardTo(r, ToSend(r))
            /\ sent' = sent \o SubSeq(r.interleaved_packets, 1, ToSend(r))

\* Every step collects, starts the streams or goes on with them.
LEMMA StepCases ==
    ASSUME OneVideo, Steady, [Next]_vars
    PROVE  /\ interleaver_max_batch_size' \in Nat
           /\ \/ Collecting(output', sent', dts')
              \/ Starts
              \/ GoesOn
              \/ UNCHANGED <<output, sent, dts>>
<1>1. /\ interleaver_max_batch_size \in Nat /\ BatchSize \in Nat
      /\ dts \in Clocks
  BY BatchSizeType DEF Steady, Collecting, Fresh, Running
<1>2. ASSUME NEW batch \in Nat, BeginCapture(batch)
      PROVE  interleaver_max_batch_size' \in Nat /\ Collecting(output', sent', dts')
  <2>1. Collecting(ResetPacketData, <<>>, dts)
    BY <1>1, ResetCollects
  <2> QED  BY <1>1, <1>2, <2>1 DEF BeginCapture
<1>3. ASSUME NEW s \in Streams, NEW keyframe \in BOOLEAN, InterleavePackets(s, keyframe)
      PROVE  /\ interleaver_max_batch_size' \in Nat
             /\ Collecting(output', sent', dts') \/ Starts \/ GoesOn
  <2> DEFINE p == PacketOf(dts, s, keyframe)
  <2>1. /\ DiscardNonKey(p) \/ Collect(p) \/ Interleaved(p)
        /\ dts' = After(dts, s)
        /\ interleaver_max_batch_size' = interleaver_max_batch_size
    BY <1>3 DEF InterleavePackets, PacketOf, After
  <2> HIDE DEF p
  <2>2. CASE ~Receives(output)
    <3>1. /\ Collecting(output, sent, dts) /\ Fresh(output, dts) /\ VideoKnown(output)
          /\ sent = <<>> /\ output \in Outputs
      BY <2>2 DEF Steady, Running, Collecting, Fresh
    <3>2. CASE DiscardNonKey(p)
      <4>1. Collecting(output', sent', After(dts, s))
        BY <3>1, <3>2, DiscardNonKeyCollects DEF p
      <4> QED  BY <1>1, <2>1, <4>1
    <3>3. CASE Collect(p)
      <4> DEFINE o == InsertPacket(CheckReceived(output, p), p)
      <4>1. Fresh(o, dts') /\ VideoKnown(o)
        BY <2>1, <3>1, CollectInserts DEF p
      <4>2. \/ ~Receives(o) /\ output' = o /\ sent' = sent
            \/ Receives(o) /\ ~Ready(o) /\ output' = NotReady(o) /\ sent' = sent
            \/ Receives(o) /\ Ready(o) /\ Send(Started(o), 1)
        BY <3>3 DEF Collect
      <4> HIDE DEF o
      <4>3. CASE ~Receives(o) /\ output' = o /\ sent' = sent
        BY <1>1, <2>1, <3>1, <4>1, <4>3 DEF Collecting
      <4>4. CASE Receives(o) /\ ~Ready(o) /\ output' = NotReady(o) /\ sent' = sent
        <5>1. Fresh(NotReady(o), dts') /\ VideoKnown(NotReady(o)) /\ ~Receives(NotReady(o))
          BY <4>1, <4>4, NotReadyAwaits
        <5> QED  BY <1>1, <2>1, <3>1, <4>4, <5>1 DEF Collecting
      <4>5. CASE Receives(o) /\ Ready(o) /\ Send(Started(o), 1)
        BY <1>1, <2>1, <3>1, <4>1, <4>5 DEF Starts, Send
      <4> QED  BY <4>2, <4>3, <4>4, <4>5
    <3>4. ~Interleaved(p)
      BY <2>2 DEF Interleaved
    <3> QED  BY <2>1, <3>2, <3>3, <3>4
  <2>3. CASE Receives(output)
    <3>1. Running(output, sent, dts) /\ output \in Outputs
      BY <2>3 DEF Steady, Collecting, Running
    <3>2. ~Collect(p)
      BY <2>3 DEF Collect
    <3>3. ~DiscardNonKey(p)
      <4>1. p \in Packets
        BY <1>1, PacketOfStream DEF p
      <4>2. p.type = "video" => p.track_idx = 0
        BY <4>1, StreamOfParts DEF OneVideo
      <4>3. output.received_video[0]
        BY <2>3, <3>1, ReceivesBoth
      <4> QED  BY <4>2, <4>3 DEF DiscardNonKey
    <3>4. Interleaved(p)
      BY <2>1, <3>2, <3>3
    <3>5. GoesOn
      BY <2>1, <3>1, <3>4 DEF GoesOn, Interleaved, Send, p
    <3> QED  BY <1>1, <2>1, <3>5
  <2> QED  BY <2>2, <2>3
<1>4. CASE UNCHANGED vars
  BY <1>1, <1>4 DEF vars
<1>5. CASE Next
  <2>1. CASE BeginDelayedCapture
    <3>1. BeginCapture(0)
      BY <2>1 DEF BeginDelayedCapture
    <3> QED  BY <1>2, <3>1
  <2>2. CASE BeginDataCapture
    <3>1. BeginCapture(BatchSize)
      BY <2>2 DEF BeginDataCapture
    <3> QED  BY <1>1, <1>2, <3>1
  <2>3. CASE \E s \in Streams, keyframe \in BOOLEAN : InterleavePackets(s, keyframe)
    BY <1>3, <2>3
  <2> QED  BY <1>5, <2>1, <2>2, <2>3 DEF Next
<1> QED  BY <1>4, <1>5

\* The output that has started.
LEMMA StartsRunning ==
    ASSUME OneVideo, NEW o, NEW d, Fresh(o, d), Receives(o), Ready(o)
    PROVE  LET r == Started(o)
           IN  /\ Running(r, <<>>, d) /\ 1 \in 0 .. Len(r.interleaved_packets)
               /\ Running(DiscardTo(r, 1), <<>> \o SubSeq(r.interleaved_packets, 1, 1), d)
<1> DEFINE r == Started(o)
           b == Beginning(o)
<1>1. /\ Fresh(b, d) /\ HaveAll(b) /\ Receives(b)
      /\ r = Resort(SetOffsets(b))
  BY ReadyBegins
<1> HIDE DEF r, b
<1>2. Running(r, <<>>, d) /\ Len(r.interleaved_packets) > 0
  BY <1>1, OffsetsStart
<1>3. 1 \in 0 .. Len(r.interleaved_packets)
  <2>1. Len(r.interleaved_packets) \in Nat
    BY <1>2, OutputFields DEF Running
  <2> QED  BY <1>2, <2>1
<1>4. Running(DiscardTo(r, 1), <<>> \o SubSeq(r.interleaved_packets, 1, 1), d)
  BY <1>2, <1>3, SendKeepsRunning
<1> QED  BY <1>2, <1>3, <1>4 DEF r

\* Every step keeps the invariant,
LEMMA SteadyNext ==
    ASSUME OneVideo, Steady, [Next]_vars
    PROVE  Steady'
<1>1. interleaver_max_batch_size' \in Nat
  BY StepCases
<1>2. CASE Collecting(output', sent', dts')
  BY <1>1, <1>2 DEF Steady
<1>3. CASE Starts
  <2>1. PICK o : /\ Fresh(o, dts') /\ Receives(o) /\ Ready(o)
                 /\ output' = DiscardTo(Started(o), 1)
                 /\ sent' = <<>> \o SubSeq(Started(o).interleaved_packets, 1, 1)
    BY <1>3 DEF Starts
  <2>2. Running(output', sent', dts')
    BY <2>1, StartsRunning
  <2> QED  BY <1>1, <2>2 DEF Steady
<1>4. CASE GoesOn
  <2>1. PICK s \in Streams, keyframe \in BOOLEAN :
           LET out == ApplyOffset(output, PacketOf(dts, s, keyframe))
               r   == SetHigher(InsertPacket(output, out), out)
           IN  /\ Running(output, sent, dts) /\ dts' = After(dts, s)
               /\ output' = DiscardTo(r, ToSend(r))
               /\ sent' = sent \o SubSeq(r.interleaved_packets, 1, ToSend(r))
    BY <1>4 DEF GoesOn
  <2> DEFINE out == ApplyOffset(output, PacketOf(dts, s, keyframe))
             r   == SetHigher(InsertPacket(output, out), out)
  <2>2. Running(r, sent, dts')
    BY <2>1, RunningInserted
  <2>3. output' = DiscardTo(r, ToSend(r))
        /\ sent' = sent \o SubSeq(r.interleaved_packets, 1, ToSend(r))
    BY <2>1
  <2> HIDE DEF r
  <2>4. ToSend(r) \in 0 .. Len(r.interleaved_packets)
    BY <2>2, ToSendCounts DEF Steady, Running
  <2>5. Running(output', sent', dts')
    BY <2>2, <2>3, <2>4, SendKeepsRunning
  <2> QED  BY <1>1, <2>5 DEF Steady
<1>5. CASE UNCHANGED <<output, sent, dts>>
  <2>1. Collecting(output', sent', dts') \/ Running(output', sent', dts')
    BY <1>5 DEF Steady
  <2> QED  BY <1>1, <2>1 DEF Steady
<1> QED  BY <1>2, <1>3, <1>4, <1>5, StepCases

\* and it holds at first.
LEMMA SteadyInit == ASSUME OneVideo, Init PROVE Steady
<1>1. dts \in Clocks
  BY InterleaveAssumption DEF Init, Clocks
<1>2. Collecting(output, sent, dts)
  BY <1>1, ResetCollects DEF Init
<1>3. interleaver_max_batch_size \in Nat
  BY BatchSizeType DEF Init
<1> QED  BY <1>2, <1>3 DEF Steady

-----------------------------------------------------------------------------
(* No gap.                                                                    *)

\* In a chain, packets of a stream that have none between them touch.
LEMMA ChainTouches ==
    ASSUME NEW h \in Seq(Packets), NEW q \in Seq(Packets), NEW next \in Times,
           Chain(h \o q, next), NEW i \in 1 .. Len(h), NEW j \in 1 .. Len(h), i < j,
           StreamOf(h[i]) = StreamOf(h[j]),
           \A k \in 1 .. Len(h) : StreamOf(h[k]) = StreamOf(h[i]) => ~ (i < k /\ k < j)
    PROVE  h[j].sys_dts_usec = EndOf(h[i])
<1> DEFINE c == h \o q
<1>0. Len(h) \in Nat /\ Len(q) \in Nat
  BY LenProperties
<1>1. /\ c \in Seq(Packets) /\ Len(c) = Len(h) + Len(q)
      /\ \A k \in 1 .. Len(h) + Len(q) : c[k] = IF k <= Len(h) THEN h[k] ELSE q[k - Len(h)]
  BY ConcatProperties
<1>2. Rising(c) /\ Behind(c, next) /\ Followed(c, next)
  BY DEF Chain
<1> HIDE DEF c
<1>3. \A k \in 1 .. Len(h) : k \in 1 .. Len(c) /\ c[k] = h[k]
  BY <1>0, <1>1
<1>4. \A k \in 1 .. Len(c) : c[k] \in Packets
  BY <1>1, ElementOfSeq
<1>5. /\ EndOf(h[i]) \in Int /\ EndOf(h[j]) \in Int
      /\ h[i].sys_dts_usec < EndOf(h[i]) /\ h[j].sys_dts_usec < EndOf(h[j])
      /\ h[i].sys_dts_usec \in Int /\ h[j].sys_dts_usec \in Int
      /\ next[StreamOf(h[i])] \in Int
  BY ElementOfSeq, EndOfType, PacketFields DEF Times
<1>6. EndOf(h[i]) <= h[j].sys_dts_usec
  BY <1>2, <1>3 DEF Rising
<1>7. EndOf(h[j]) <= next[StreamOf(h[i])]
  BY <1>2, <1>3 DEF Behind
<1>8. EndOf(h[i]) # next[StreamOf(h[i])]
  BY <1>5, <1>6, <1>7
<1>9. PICK k \in 1 .. Len(c) : StreamOf(c[k]) = StreamOf(h[i]) /\ c[k].sys_dts_usec = EndOf(h[i])
  BY <1>2, <1>3, <1>8 DEF Followed
<1>10. /\ EndOf(c[k]) \in Int /\ c[k].sys_dts_usec \in Int
       /\ c[k].sys_dts_usec < EndOf(c[k])
  BY <1>4, EndOfType, PacketFields
<1>11. ~ (k < i)
  <2> SUFFICES ASSUME k < i  PROVE FALSE
    OBVIOUS
  <2>1. EndOf(c[k]) <= h[i].sys_dts_usec
    BY <1>2, <1>3, <1>9 DEF Rising
  <2> QED  BY <1>5, <1>9, <1>10, <2>1
<1>12. k # i
  BY <1>3, <1>5, <1>9
<1>13. ~ (j < k)
  <2> SUFFICES ASSUME j < k  PROVE FALSE
    OBVIOUS
  <2>1. EndOf(h[j]) <= c[k].sys_dts_usec
    BY <1>2, <1>3, <1>9 DEF Rising
  <2> QED  BY <1>5, <1>6, <1>9, <2>1
<1>14. k = j
  <2>1. k \in 1 .. Len(h)
    BY <1>0, <1>1, <1>13
  <2>2. ~ (i < k /\ k < j)
    BY <1>3, <1>9, <2>1
  <2> QED  BY <1>0, <1>11, <1>12, <1>13, <2>1, <2>2
<1> QED  BY <1>3, <1>9, <1>14

\* With it no stream has a gap.
LEMMA SteadyNoGap == ASSUME Steady PROVE NoGap
<1>1. /\ sent \in Seq(Packets) /\ output \in Outputs /\ dts \in Clocks
      /\ sent = <<>> \/ Chain(sent \o output.interleaved_packets, Upcoming(dts))
  BY EmptySeq DEF Steady, Collecting, Fresh, Running
<1>2. DOMAIN sent = 1 .. Len(sent)
  BY <1>1, LenProperties
<1> SUFFICES ASSUME NEW s \in Streams, NEW i \in SentOf(s), NEW j \in SentOf(s),
                    InARow(s, i, j)
             PROVE  sent[j].sys_dts_usec - sent[i].sys_dts_usec = Interval(s)
  BY DEF NoGap
<1>3. /\ i \in 1 .. Len(sent) /\ j \in 1 .. Len(sent) /\ i < j
      /\ StreamOf(sent[i]) = s /\ StreamOf(sent[j]) = s
      /\ \A k \in 1 .. Len(sent) : StreamOf(sent[k]) = s => ~ (i < k /\ k < j)
  BY <1>2 DEF InARow, SentOf, StreamOf
<1>4. sent # <<>>
  <2>1. Len(<<>>) = 0
    BY EmptySeq
  <2> QED  BY <1>3, <2>1
<1>5. output.interleaved_packets \in Seq(Packets) /\ Upcoming(dts) \in Times
  BY <1>1, OutputFields, UpcomingType
<1>6. sent[j].sys_dts_usec = EndOf(sent[i])
  BY <1>1, <1>3, <1>4, <1>5, ChainTouches
<1>7. sent[i] \in Packets
  BY <1>1, <1>3, ElementOfSeq
<1>8. sent[i].sys_dts_usec \in Int /\ Interval(s) \in Int
  BY <1>7, PacketFields, IntervalType
<1> QED  BY <1>3, <1>6, <1>8 DEF EndOf

\* A stream that has started is sent without a gap, with one encoder of video
\* and any of audio.
THEOREM NothingLeftOut == ASSUME OneVideo PROVE Spec => []NoGap
<1>1. Init => Steady
  BY SteadyInit
<1>2. Steady /\ [Next]_vars => Steady'
  BY SteadyNext
<1>3. Steady => NoGap
  BY SteadyNoGap
<1> QED  BY <1>1, <1>2, <1>3, PTL DEF Spec

-----------------------------------------------------------------------------
(* The order, with one encoder of audio too.                                  *)

\* The highest time stamps are those of packets that each stream is past.
Below(o, d) ==
    /\ \A v \in VideoTracks :
          o.highest_video_ts[v] < d[<<"video", v>>] - o.offsets[<<"video", v>>]
    /\ \A a \in AudioTracks :
          o.highest_audio_ts < d[<<"audio", a>>] - o.offsets[<<"audio", a>>]

\* What was sent is older than what is queued and what any stream will produce.
Passed(h, o, d) ==
    \A i \in 1 .. Len(h) : \A s \in Streams : h[i].dts_usec <= d[s] - o.offsets[s]

InOrder(o, h, d) == Ordered(h \o o.interleaved_packets) /\ Passed(h, o, d) /\ Below(o, d)

\* Two queues in order, the first not later than the second, are one in order.
LEMMA OrderedConcat ==
    ASSUME NEW h \in Seq(Packets), NEW q \in Seq(Packets)
    PROVE  Ordered(h \o q) <=>
              /\ Ordered(h) /\ Ordered(q)
              /\ \A i \in 1 .. Len(h) : \A m \in Members(q) : h[i].dts_usec <= m.dts_usec
<1> DEFINE c == h \o q
<1>0. Len(h) \in Nat /\ Len(q) \in Nat
  BY LenProperties
<1>1. /\ Len(c) = Len(h) + Len(q)
      /\ \A k \in 1 .. Len(h) + Len(q) : c[k] = IF k <= Len(h) THEN h[k] ELSE q[k - Len(h)]
  BY ConcatProperties
<1> HIDE DEF c
<1>2. \A k \in 1 .. Len(h) : k \in 1 .. Len(c) /\ c[k] = h[k]
  BY <1>0, <1>1
<1>3. ASSUME NEW k \in 1 .. Len(q)
      PROVE  Len(h) + k \in 1 .. Len(c) /\ c[Len(h) + k] = q[k]
  <2>1. Len(h) + k \in 1 .. Len(h) + Len(q) /\ ~ (Len(h) + k <= Len(h))
        /\ (Len(h) + k) - Len(h) = k
    BY <1>0
  <2> QED  BY <1>1, <2>1
<1>4. ASSUME NEW k \in 1 .. Len(c)
      PROVE  \/ k \in 1 .. Len(h)
             \/ k - Len(h) \in 1 .. Len(q) /\ k > Len(h) /\ c[k] = q[k - Len(h)]
  BY <1>0, <1>1
<1>5. ASSUME Ordered(c)
      PROVE  /\ Ordered(h) /\ Ordered(q)
             /\ \A i \in 1 .. Len(h) : \A m \in Members(q) : h[i].dts_usec <= m.dts_usec
  <2>1. Ordered(h)
    BY <1>2, <1>5 DEF Ordered
  <2>2. ASSUME NEW i \in 1 .. Len(q), NEW j \in 1 .. Len(q), i < j
        PROVE  q[i].dts_usec <= q[j].dts_usec
    <3>1. Len(h) + i < Len(h) + j
      BY <1>0, <2>2
    <3> QED  BY <1>3, <1>5, <3>1 DEF Ordered
  <2>3. ASSUME NEW i \in 1 .. Len(h), NEW j \in 1 .. Len(q)
        PROVE  h[i].dts_usec <= q[j].dts_usec
    <3>1. i < Len(h) + j
      BY <1>0
    <3> QED  BY <1>2, <1>3, <1>5, <3>1 DEF Ordered
  <2> QED  BY <2>1, <2>2, <2>3, MembersOf DEF Ordered
<1>6. ASSUME Ordered(h), Ordered(q),
             \A i \in 1 .. Len(h) : \A m \in Members(q) : h[i].dts_usec <= m.dts_usec
      PROVE  Ordered(c)
  <2> SUFFICES ASSUME NEW i \in 1 .. Len(c), NEW j \in 1 .. Len(c), i < j
               PROVE  c[i].dts_usec <= c[j].dts_usec
    BY DEF Ordered
  <2>1. CASE i \in 1 .. Len(h) /\ j \in 1 .. Len(h)
    BY <1>2, <1>6, <2>1 DEF Ordered
  <2>2. CASE i \in 1 .. Len(h) /\ j \notin 1 .. Len(h)
    <3>1. j - Len(h) \in 1 .. Len(q) /\ c[j] = q[j - Len(h)]
      BY <1>4, <2>2
    <3>2. q[j - Len(h)] \in Members(q)
      BY <3>1, MembersOf
    <3> QED  BY <1>2, <1>6, <2>2, <3>1, <3>2
  <2>3. CASE i \notin 1 .. Len(h)
    <3>1. /\ i - Len(h) \in 1 .. Len(q) /\ i > Len(h) /\ c[i] = q[i - Len(h)]
      BY <1>4, <2>3
    <3>2. j \notin 1 .. Len(h)
      BY <1>0, <3>1
    <3>3. /\ j - Len(h) \in 1 .. Len(q) /\ c[j] = q[j - Len(h)]
      BY <1>4, <3>2
    <3>4. i - Len(h) < j - Len(h)
      BY <1>0, <1>1
    <3> QED  BY <1>6, <3>1, <3>3, <3>4 DEF Ordered
  <2> QED  BY <2>1, <2>2, <2>3
<1> QED  BY <1>5, <1>6 DEF c

\* A stream is past each packet that it has in the queue.
LEMMA RunningPast ==
    ASSUME NEW o, NEW h, NEW d, Running(o, h, d), NEW m \in Members(o.interleaved_packets)
    PROVE  /\ m \in Packets
           /\ m.dts_usec < d[StreamOf(m)] - o.offsets[StreamOf(m)]
<1> DEFINE q == o.interleaved_packets
           c == h \o q
           s == StreamOf(m)
<1>1. /\ o \in Outputs /\ d \in Clocks /\ h \in Seq(Packets) /\ q \in Seq(Packets)
      /\ Stamped(q, MovedBy(o)) /\ Chain(c, Upcoming(d))
  BY OutputFields DEF Running
<1>2. PICK k \in 1 .. Len(q) : m = q[k]
  BY <1>1, MembersOf
<1>3. m \in Packets /\ s \in Streams
  BY <1>1, <1>2, ElementOfSeq, PacketFields
<1>4. m.dts_usec = m.sys_dts_usec - MovedBy(o)[s]
  BY <1>1, <1>2 DEF Stamped
<1>5. EndOf(m) <= Upcoming(d)[s]
  <2>1. Len(h) \in Nat /\ Len(q) \in Nat
    BY <1>1, LenProperties
  <2>2. /\ Len(c) = Len(h) + Len(q)
        /\ \A j \in 1 .. Len(h) + Len(q) : c[j] = IF j <= Len(h) THEN h[j] ELSE q[j - Len(h)]
    BY <1>1, ConcatProperties
  <2> HIDE DEF c, q
  <2>3. /\ Len(h) + k \in 1 .. Len(h) + Len(q) /\ ~ (Len(h) + k <= Len(h))
        /\ (Len(h) + k) - Len(h) = k
    BY <2>1
  <2>4. Len(h) + k \in 1 .. Len(c) /\ c[Len(h) + k] = m
    BY <1>2, <2>2, <2>3
  <2> QED  BY <1>1, <2>4 DEF Chain, Behind
<1>6. /\ MovedBy(o)[s] = Base[s] + o.offsets[s] /\ Upcoming(d)[s] = Base[s] + d[s]
      /\ Base[s] \in Nat /\ o.offsets[s] \in Int /\ d[s] \in Int
      /\ m.sys_dts_usec \in Int /\ EndOf(m) \in Int /\ m.sys_dts_usec < EndOf(m)
  BY <1>1, <1>3, MovedByType, BaseType, DtsType, OutputFields, PacketFields, EndOfType DEF Upcoming
<1> HIDE DEF s
<1>7. m.dts_usec < d[s] - o.offsets[s]
  BY <1>4, <1>5, <1>6
<1> QED  BY <1>3, <1>7 DEF s

\* Packets that every stream is past can be sent.
LEMMA SendKeepsOrder ==
    ASSUME NEW o, NEW h, NEW d, Running(o, h, d), InOrder(o, h, d),
           NEW n \in 0 .. Len(o.interleaved_packets),
           \A i \in 1 .. n : \A s \in Streams :
              o.interleaved_packets[i].dts_usec <= d[s] - o.offsets[s]
    PROVE  InOrder(DiscardTo(o, n), h \o SubSeq(o.interleaved_packets, 1, n), d)
<1> DEFINE q == o.interleaved_packets
           r == DiscardTo(o, n)
           l == SubSeq(q, 1, n)
           c == h \o l
<1>1. /\ SameButQueue(o, r) /\ c \o r.interleaved_packets = h \o q
      /\ l \in Seq(Packets) /\ Len(l) = n /\ \A i \in 1 .. n : l[i] = q[i]
  BY SendKeepsRunning
<1>2. h \in Seq(Packets) /\ Len(h) \in Nat
  BY LenProperties DEF Running
<1>3. /\ Len(c) = Len(h) + n
      /\ \A k \in 1 .. Len(h) + n : c[k] = IF k <= Len(h) THEN h[k] ELSE l[k - Len(h)]
  <2> HIDE DEF l
  <2> QED  BY <1>1, <1>2, ConcatProperties
<1> HIDE DEF c, l, r
<1>4. r.offsets = o.offsets
  BY <1>1 DEF SameButQueue
<1>5. Below(r, d)
  BY <1>1 DEF InOrder, Below, SameButQueue, SameHighest
<1>6. ASSUME NEW k \in 1 .. Len(c), NEW s \in Streams
      PROVE  c[k].dts_usec <= d[s] - r.offsets[s]
  <2>1. CASE k <= Len(h)
    <3>1. k \in 1 .. Len(h) /\ c[k] = h[k]
      BY <1>2, <1>3, <2>1
    <3> QED  BY <1>4, <3>1 DEF InOrder, Passed
  <2>2. CASE k > Len(h)
    <3>1. k - Len(h) \in 1 .. n /\ c[k] = l[k - Len(h)]
      BY <1>2, <1>3, <2>2
    <3>2. c[k] = q[k - Len(h)]
      BY <1>1, <3>1
    <3> QED  BY <1>4, <3>1, <3>2
  <2> QED  BY <1>2, <1>3, <2>1, <2>2
<1>7. Ordered(c \o r.interleaved_packets)
  BY <1>1 DEF InOrder
<1> QED  BY <1>5, <1>6, <1>7 DEF InOrder, Passed, c, l, r

\* Of one encoder of audio and any of video, what may be sent is passed by all.
LEMMA MaySend ==
    ASSUME OneAudio, NEW o, NEW h, NEW d, Running(o, h, d), Below(o, d),
           NEW m \in Members(o.interleaved_packets), HasHigherOpposing(o, m),
           NEW s \in Streams
    PROVE  m.dts_usec <= d[s] - o.offsets[s]
<1>1. /\ o \in Outputs /\ d \in Clocks
  BY DEF Running
<1>2. m \in Packets /\ m.dts_usec < d[StreamOf(m)] - o.offsets[StreamOf(m)]
  BY RunningPast
<1>3. /\ d[s] \in Int /\ o.offsets[s] \in Int /\ m.dts_usec \in Int
      /\ d[StreamOf(m)] \in Int /\ o.offsets[StreamOf(m)] \in Int
  BY <1>1, <1>2, DtsType, OutputFields, PacketFields
<1>4. CASE s = StreamOf(m)
  BY <1>2, <1>3, <1>4
<1>5. CASE s # StreamOf(m) /\ IsVideo(s)
  <2>1. ~ (m.type = "video" /\ s[2] = m.track_idx)
    BY <1>2, <1>5, StreamOfParts DEF IsVideo, StreamOf
  <2>2. s[2] \in VideoTracks /\ s = <<"video", s[2]>>
    BY <1>5 DEF IsVideo
  <2>3. o.highest_video_ts[s[2]] > m.dts_usec
    BY <2>1, <2>2 DEF HasHigherOpposing
  <2>4. o.highest_video_ts[s[2]] < d[s] - o.offsets[s]
    BY <2>2 DEF Below
  <2>5. o.highest_video_ts[s[2]] \in Int
    BY <1>1, <2>2, OutputFields
  <2> QED  BY <1>3, <2>3, <2>4, <2>5
<1>6. CASE s # StreamOf(m) /\ IsAudio(s)
  <2>1. s[2] \in AudioTracks /\ s = <<"audio", s[2]>>
    BY <1>6 DEF IsAudio
  <2>2. m.type # "audio"
    <3> SUFFICES ASSUME m.type = "audio"  PROVE FALSE
      OBVIOUS
    <3>1. m.track_idx = s[2]
      BY <1>2, <2>1, StreamOfParts DEF OneAudio
    <3> QED  BY <1>6, <2>1, <3>1 DEF StreamOf
  <2>3. o.highest_audio_ts > m.dts_usec
    BY <2>2 DEF HasHigherOpposing
  <2>4. o.highest_audio_ts < d[s] - o.offsets[s]
    BY <2>1 DEF Below
  <2>5. o.highest_audio_ts \in Int
    BY <1>1, OutputFields
  <2> QED  BY <1>3, <2>3, <2>4, <2>5
<1> QED  BY <1>4, <1>5, <1>6, StreamParts

\* The next packet of a stream is behind all that were sent.
LEMMA InsertKeepsOrder ==
    ASSUME OneAudio, NEW o, NEW h, NEW d, Running(o, h, d), InOrder(o, h, d),
           NEW s \in Streams, NEW keyframe \in BOOLEAN
    PROVE  LET out == ApplyOffset(o, PacketOf(d, s, keyframe))
               r   == SetHigher(InsertPacket(o, out), out)
           IN  InOrder(r, h, After(d, s))
<1> DEFINE out == ApplyOffset(o, PacketOf(d, s, keyframe))
           r   == SetHigher(InsertPacket(o, out), out)
           q   == o.interleaved_packets
           w   == r.interleaved_packets
           e   == After(d, s)
<1>1. /\ Running(r, h, e) /\ r.offsets = o.offsets
      /\ out \in Packets /\ StreamOf(out) = s /\ out.dts_usec = d[s] - o.offsets[s]
      /\ Members(w) = Members(q) \cup {out} /\ HighestFrom(o, r, {out})
  BY RunningInserted
<1> HIDE DEF r, out
<1>2. /\ o \in Outputs /\ r \in Outputs /\ d \in Clocks /\ h \in Seq(Packets)
      /\ Ordered(w)
  BY <1>1 DEF Running
<1>3. q \in Seq(Packets) /\ w \in Seq(Packets)
  BY <1>2, OutputFields
<1>4. \A t \in Streams : /\ d[t] \in Int /\ e[t] \in Int /\ o.offsets[t] \in Int
                        /\ d[t] <= e[t]
  <2> TAKE t \in Streams
  <2>1. e \in Clocks /\ e[s] > d[s] /\ \A u \in Streams : u # s => e[u] = d[u]
    BY <1>2, AfterPacket
  <2>2. d[t] \in Int /\ e[t] \in Int /\ o.offsets[t] \in Int
    BY <1>2, <2>1, DtsType, OutputFields
  <2>3. d[t] <= e[t]
    <3>1. CASE t = s
      BY <2>1, <2>2, <3>1
    <3>2. CASE t # s
      BY <2>1, <2>2, <3>2
    <3> QED  BY <3>1, <3>2
  <2> QED  BY <2>2, <2>3
<1>5. out.dts_usec < e[s] - o.offsets[s]
  <2>1. e[s] > d[s]
    BY <1>2, AfterPacket
  <2> QED  BY <1>1, <1>4, <2>1
<1> HIDE DEF e
<1>6. Passed(h, r, e)
  <2> SUFFICES ASSUME NEW i \in 1 .. Len(h), NEW t \in Streams
               PROVE  h[i].dts_usec <= e[t] - r.offsets[t]
    BY DEF Passed
  <2>1. h[i].dts_usec <= d[t] - o.offsets[t]
    BY DEF InOrder, Passed
  <2>2. h[i].dts_usec \in Int
    BY <1>2, ElementOfSeq, PacketFields
  <2> QED  BY <1>1, <1>4, <2>1, <2>2
<1>7. ASSUME NEW v \in VideoTracks
      PROVE  r.highest_video_ts[v] < e[<<"video", v>>] - r.offsets[<<"video", v>>]
  <2> DEFINE t == <<"video", v>>
  <2>1. t \in Streams
    BY StreamParts
  <2>2. CASE r.highest_video_ts[v] = o.highest_video_ts[v]
    <3>1. o.highest_video_ts[v] < d[t] - o.offsets[t] /\ o.highest_video_ts[v] \in Int
      BY <1>2, OutputFields DEF InOrder, Below
    <3> HIDE DEF t
    <3>2. o.highest_video_ts[v] < e[t] - o.offsets[t]
      BY <1>4, <2>1, <3>1
    <3> QED  BY <1>1, <2>2, <3>2 DEF t
  <2>3. CASE StreamOf(out) = t /\ r.highest_video_ts[v] = out.dts_usec
    BY <1>1, <1>5, <2>3
  <2> QED  BY <1>1, <2>2, <2>3 DEF HighestFrom
<1>8. ASSUME NEW a \in AudioTracks
      PROVE  r.highest_audio_ts < e[<<"audio", a>>] - r.offsets[<<"audio", a>>]
  <2> DEFINE t == <<"audio", a>>
  <2>1. t \in Streams
    BY StreamParts
  <2>2. CASE r.highest_audio_ts = o.highest_audio_ts
    <3>1. o.highest_audio_ts < d[t] - o.offsets[t] /\ o.highest_audio_ts \in Int
      BY <1>2, OutputFields DEF InOrder, Below
    <3> HIDE DEF t
    <3>2. o.highest_audio_ts < e[t] - o.offsets[t]
      BY <1>4, <2>1, <3>1
    <3> QED  BY <1>1, <2>2, <3>2 DEF t
  <2>3. CASE out.type = "audio" /\ r.highest_audio_ts = out.dts_usec
    <3>1. out.track_idx = a
      BY <1>1, <2>3, StreamOfParts DEF OneAudio
    <3>2. s = t
      BY <1>1, <2>3, <3>1 DEF StreamOf
    <3> QED  BY <1>1, <1>5, <2>3, <3>2
  <2> QED  BY <1>1, <2>2, <2>3 DEF HighestFrom
<1>9. Ordered(h \o w)
  <2>1. /\ Ordered(h)
        /\ \A i \in 1 .. Len(h) : \A m \in Members(q) : h[i].dts_usec <= m.dts_usec
    BY <1>2, <1>3, OrderedConcat DEF InOrder
  <2>2. \A i \in 1 .. Len(h) : h[i].dts_usec <= out.dts_usec
    BY <1>1 DEF InOrder, Passed
  <2> HIDE DEF w, q
  <2>3. \A i \in 1 .. Len(h) : \A m \in Members(w) : h[i].dts_usec <= m.dts_usec
    BY <1>1, <2>1, <2>2
  <2> QED  BY <1>2, <1>3, <2>1, <2>3, OrderedConcat
<1> QED  BY <1>6, <1>7, <1>8, <1>9 DEF InOrder, Below, r, out, e

\* The first packet of a stream while packets are collected.
LEMMA FirstFresh ==
    ASSUME NEW o, NEW d, Fresh(o, d), HaveAll(o), NEW s \in Streams
    PROVE  LET q == o.interleaved_packets
               f == FirstOf(o, s[1], s[2])
           IN  /\ f \in 1 .. Len(q) /\ q[f] \in Packets /\ StreamOf(q[f]) = s
               /\ \A i \in 1 .. Len(q) : StreamOf(q[i]) = s => f <= i
               /\ q[f].dts \in Int /\ q[f].dts >= -Priming /\ q[f].dts < d[s]
               /\ q[f].dts_usec = Base[s] + q[f].dts
               /\ q[f].sys_dts_usec = q[f].dts_usec
<1> DEFINE q == o.interleaved_packets
           f == FirstOf(o, s[1], s[2])
<1>1. /\ o \in Outputs /\ d \in Clocks /\ q \in Seq(Packets) /\ Len(q) \in Nat
      /\ AsProduced(q) /\ Chain(q, Upcoming(d))
  BY OutputFields DEF Fresh
<1>2. f # 0 /\ s = <<s[1], s[2]>>
  BY StreamParts DEF IsVideo, IsAudio, HaveAll, MissingVideo, MissingAudio
<1>3. f \in 1 .. Len(q) /\ StreamOf(q[f]) = s
  <2>1. f \in 0 .. Len(q) /\ f \in Of(o, s[1], s[2])
    BY <1>1, <1>2, OfStream
  <2>2. f \in 1 .. Len(q)
    BY <1>1, <1>2, <2>1
  <2>3. StreamOf(q[f]) = <<s[1], s[2]>>
    BY <1>1, <2>1, <2>2, OfStream
  <2> QED  BY <1>2, <2>2, <2>3
<1>4. \A i \in 1 .. Len(q) : StreamOf(q[i]) = s => f <= i
  <2> SUFFICES ASSUME NEW i \in 1 .. Len(q), StreamOf(q[i]) = s  PROVE f <= i
    OBVIOUS
  <2>1. i \in Of(o, s[1], s[2])
    <3>1. StreamOf(q[i]) = <<s[1], s[2]>>
      BY <1>2
    <3> QED  BY <1>1, <3>1, OfStream
  <2> QED  BY <1>1, <2>1, OfStream
<1> HIDE DEF f, q
<1>5. q[f] \in Packets
  BY <1>1, <1>3, ElementOfSeq
<1>6. /\ q[f].dts >= -Priming /\ q[f].dts_usec = q[f].sys_dts_usec
      /\ q[f].sys_dts_usec = Base[s] + q[f].dts
      /\ EndOf(q[f]) <= Upcoming(d)[s]
  BY <1>1, <1>3 DEF AsProduced, Chain, Behind
<1>7. /\ q[f].dts \in Int /\ q[f].sys_dts_usec \in Int /\ d[s] \in Int /\ Base[s] \in Nat
      /\ EndOf(q[f]) \in Int /\ q[f].sys_dts_usec < EndOf(q[f])
      /\ Upcoming(d)[s] = Base[s] + d[s]
  BY <1>1, <1>5, PacketFields, EndOfType, BaseType, DtsType DEF Upcoming
<1>8. q[f].dts \in Int /\ q[f].dts >= -Priming /\ q[f].dts < d[s] /\ q[f].dts_usec = Base[s] + q[f].dts
  BY <1>6, <1>7
<1> QED  BY <1>3, <1>4, <1>5, <1>6, <1>8 DEF f, q

\* The offset of a stream, by its first packet: none for audio that begins with
\* its priming.
LEMMA OffsetOf ==
    ASSUME NEW o, NEW d, Fresh(o, d), HaveAll(o), NEW s \in Streams
    PROVE  LET x == o.interleaved_packets[FirstOf(o, s[1], s[2])].dts
           IN  SetOffsets(o).offsets[s] = IF s[1] = "video" THEN x + PtsDelay
                                          ELSE IF x > 0 THEN x ELSE 0
<1> DEFINE x == o.interleaved_packets[FirstOf(o, s[1], s[2])].dts
<1>1. o \in Outputs /\ o.offsets = [t \in Streams |-> 0]
  BY DEF Fresh
<1>2. SetOffsets(o).offsets[s] = IF s[1] = "video" THEN x + PtsDelay
                                 ELSE IF x > 0 THEN x ELSE o.offsets[s]
  BY <1>1, SetOffsetsMoves
<1> HIDE DEF x
<1>3. o.offsets[s] = 0
  BY <1>1
<1> QED  BY <1>2, <1>3 DEF x

\* The streams start in order, and all are past the first packet of all.
LEMMA StartsInOrder ==
    ASSUME OneVideo, OneAudio, NEW o, NEW d, Fresh(o, d), Receives(o), Ready(o)
    PROVE  LET r == Started(o)
           IN  /\ InOrder(r, <<>>, d)
               /\ \A i \in 1 .. 1 : \A s \in Streams :
                     r.interleaved_packets[i].dts_usec <= d[s] - r.offsets[s]
<1> DEFINE b == Beginning(o)
           m == SetOffsets(b)
           r == Started(o)
           q == b.interleaved_packets
           n == m.interleaved_packets
           w == r.interleaved_packets
<1>1. /\ Fresh(b, d) /\ HaveAll(b) /\ Receives(b) /\ r = Resort(m)
  BY ReadyBegins
<1> HIDE DEF r, b
<1>2. /\ m \in Outputs /\ Running(r, <<>>, d) /\ r.offsets = m.offsets
      /\ Members(w) = Members(n) /\ Len(w) > 0 /\ HighestFrom(m, r, Members(n))
  BY <1>1, OffsetsStart
<1>3. /\ r \in Outputs /\ w \in Seq(Packets) /\ Len(w) \in Nat /\ Ordered(w)
      /\ d \in Clocks /\ b \in Outputs
  BY <1>1, <1>2, OutputFields DEF Running, Fresh
<1>4. /\ b.highest_video_ts = [v \in VideoTracks |-> Lowest] /\ b.highest_audio_ts = 0
  BY <1>1 DEF Fresh
<1>5. /\ m.highest_video_ts = b.highest_video_ts
      /\ m.highest_audio_ts = b.highest_audio_ts
            - q[FirstOf(b, "audio", Min(AudioTracks))].dts_usec
      /\ Moved(q, n)
  <2>1. m.highest_audio_ts = b.highest_audio_ts
           - q[FirstOf(b, <<"audio", Min(AudioTracks)>>[1], <<"audio", Min(AudioTracks)>>[2])].dts_usec
    BY <1>1, <1>3, SetOffsetsMoves
  <2> QED  BY <1>1, <1>3, <2>1, SetOffsetsMoves
<1>6. \A p \in Members(w) : p \in Packets /\ p.dts_usec < d[StreamOf(p)] - r.offsets[StreamOf(p)]
  BY <1>2, RunningPast
<1>7. \A s \in Streams : d[s] \in Int /\ r.offsets[s] \in Int
  BY <1>3, DtsType, OutputFields
<1> HIDE DEF m
<1>8. ASSUME NEW v \in VideoTracks
      PROVE  r.highest_video_ts[v] < d[<<"video", v>>] - r.offsets[<<"video", v>>]
  <2> DEFINE s == <<"video", v>>
             x == q[FirstOf(b, s[1], s[2])].dts
  <2>1. s \in Streams /\ s[1] = "video"
    BY StreamParts
  <2>2. CASE r.highest_video_ts[v] = m.highest_video_ts[v]
    <3>1. r.offsets[s] = x + PtsDelay
      BY <1>1, <1>2, <2>1, OffsetOf DEF m
    <3>2. x \in Int /\ x < d[s]
      BY <1>1, <2>1, FirstFresh
    <3> HIDE DEF x, s
    <3>3. Lowest < d[s] - (x + PtsDelay)
      BY <1>7, <2>1, <3>2, InterleaveAssumption DEF Lowest
    <3> QED  BY <1>4, <1>5, <2>2, <3>1, <3>3 DEF s
  <2>3. CASE \E p \in Members(n) : StreamOf(p) = s /\ r.highest_video_ts[v] = p.dts_usec
    BY <1>2, <1>6, <2>3
  <2> QED  BY <1>2, <2>2, <2>3 DEF HighestFrom
<1>9. ASSUME NEW a \in AudioTracks
      PROVE  r.highest_audio_ts < d[<<"audio", a>>] - r.offsets[<<"audio", a>>]
  <2> DEFINE s == <<"audio", a>>
             x == q[FirstOf(b, s[1], s[2])].dts
  <2>1. s \in Streams /\ s[1] # "video"
    BY StreamParts
  <2>2. CASE r.highest_audio_ts = m.highest_audio_ts
    <3> DEFINE t == <<"audio", Min(AudioTracks)>>
               y == q[FirstOf(b, t[1], t[2])]
    <3>1. t \in Streams
      BY MinOf, StreamParts, InterleaveAssumption
    <3>2. /\ y.dts_usec = Base[t] + y.dts /\ y.dts \in Int /\ y.dts >= -Priming
          /\ Base[t] \in Nat /\ Base[t] >= 2 * Priming /\ Priming \in Nat
      <4>1. Min(AudioTracks) \in AudioTracks
        BY MinOf, InterleaveAssumption
      <4>2. Base[t] >= 2 * Priming /\ Priming \in Nat
        BY <4>1, InterleaveAssumption
      <4> HIDE DEF t
      <4> QED  BY <1>1, <3>1, <4>2, FirstFresh, BaseType
    <3>3. m.highest_audio_ts = 0 - y.dts_usec
      BY <1>4, <1>5
    <3>4. /\ r.offsets[s] = (IF x > 0 THEN x ELSE 0)
          /\ x \in Int /\ x >= -Priming /\ x < d[s]
      BY <1>1, <1>2, <2>1, OffsetOf, FirstFresh DEF m
    <3> HIDE DEF x, y, s, t
    <3>5. m.highest_audio_ts < d[s] - r.offsets[s]
      BY <1>7, <2>1, <3>2, <3>3, <3>4
    <3> QED  BY <2>2, <3>5 DEF s
  <2>3. CASE \E p \in Members(n) : p.type = "audio" /\ r.highest_audio_ts = p.dts_usec
    <3>1. PICK p \in Members(n) : p.type = "audio" /\ r.highest_audio_ts = p.dts_usec
      BY <2>3
    <3>2. p \in Packets /\ p.dts_usec < d[StreamOf(p)] - r.offsets[StreamOf(p)]
      BY <1>2, <1>6
    <3>3. p.track_idx = a
      BY <3>1, <3>2, StreamOfParts DEF OneAudio
    <3>4. StreamOf(p) = s
      BY <3>1, <3>3 DEF StreamOf
    <3> QED  BY <3>1, <3>2, <3>4
  <2> QED  BY <1>2, <2>2, <2>3 DEF HighestFrom
<1>10. Below(r, d)
  BY <1>8, <1>9 DEF Below
<1>11. <<>> \o w = w /\ Len(<<>>) = 0
  BY <1>3, ConcatEmptySeq, EmptySeq
<1>12. InOrder(r, <<>>, d)
  BY <1>3, <1>10, <1>11 DEF InOrder, Passed
<1>13. ASSUME NEW s \in Streams
       PROVE  w[1].dts_usec <= d[s] - r.offsets[s]
  <2> DEFINE f == FirstOf(b, s[1], s[2])
  <2>1. f \in 1 .. Len(q) /\ StreamOf(q[f]) = s
    BY <1>1, FirstFresh
  <2>2. f \in 1 .. Len(n) /\ StreamOf(n[f]) = s
    BY <1>5, <2>1 DEF Moved
  <2>3. n[f] \in Members(w)
    BY <1>2, <2>2 DEF Members
  <2>4. PICK j \in 1 .. Len(w) : n[f] = w[j]
    BY <1>3, <2>3, MembersOf
  <2>5. w[j].dts_usec < d[s] - r.offsets[s]
    BY <1>6, <2>2, <2>3, <2>4
  <2>6. 1 \in 1 .. Len(w) /\ w[1] \in Packets /\ w[j] \in Packets
    BY <1>2, <1>3, ElementOfSeq
  <2>7. w[1].dts_usec <= w[j].dts_usec
    <3>1. CASE j = 1
      BY <2>6, <3>1, PacketFields
    <3>2. CASE j # 1
      BY <1>3, <2>6, <3>2 DEF Ordered
    <3> QED  BY <3>1, <3>2
  <2>8. w[1].dts_usec \in Int /\ w[j].dts_usec \in Int
    BY <2>6, PacketFields
  <2> QED  BY <1>7, <2>5, <2>7, <2>8
<1> QED  BY <1>12, <1>13 DEF r

OrderInv == Running(output, sent, dts) => InOrder(output, sent, dts)

\* Every step keeps the order.
LEMMA OrderNext ==
    ASSUME OneVideo, OneAudio, Steady, OrderInv, [Next]_vars
    PROVE  OrderInv'
<1> SUFFICES ASSUME Running(output', sent', dts')
             PROVE  InOrder(output', sent', dts')
  BY DEF OrderInv
<1>1. ~ Collecting(output', sent', dts')
  BY DEF Collecting, Running
<1>2. CASE Starts
  <2>1. PICK o : /\ Fresh(o, dts') /\ Receives(o) /\ Ready(o)
                 /\ output' = DiscardTo(Started(o), 1)
                 /\ sent' = <<>> \o SubSeq(Started(o).interleaved_packets, 1, 1)
    BY <1>2 DEF Starts
  <2> DEFINE r == Started(o)
  <2>2. /\ Running(r, <<>>, dts') /\ 1 \in 0 .. Len(r.interleaved_packets)
        /\ InOrder(r, <<>>, dts')
        /\ \A i \in 1 .. 1 : \A s \in Streams :
              r.interleaved_packets[i].dts_usec <= dts'[s] - r.offsets[s]
    BY <2>1, StartsRunning, StartsInOrder
  <2>3. output' = DiscardTo(r, 1) /\ sent' = <<>> \o SubSeq(r.interleaved_packets, 1, 1)
    BY <2>1
  <2> HIDE DEF r
  <2> QED  BY <2>2, <2>3, SendKeepsOrder
<1>3. CASE GoesOn
  <2>1. PICK s \in Streams, keyframe \in BOOLEAN :
           LET out == ApplyOffset(output, PacketOf(dts, s, keyframe))
               r   == SetHigher(InsertPacket(output, out), out)
           IN  /\ Running(output, sent, dts) /\ dts' = After(dts, s)
               /\ output' = DiscardTo(r, ToSend(r))
               /\ sent' = sent \o SubSeq(r.interleaved_packets, 1, ToSend(r))
    BY <1>3 DEF GoesOn
  <2> DEFINE out == ApplyOffset(output, PacketOf(dts, s, keyframe))
             r   == SetHigher(InsertPacket(output, out), out)
             q   == r.interleaved_packets
  <2>2. Running(r, sent, dts') /\ InOrder(r, sent, dts')
    BY <2>1, RunningInserted, InsertKeepsOrder DEF OrderInv
  <2>3. output' = DiscardTo(r, ToSend(r)) /\ sent' = sent \o SubSeq(q, 1, ToSend(r))
    BY <2>1
  <2> HIDE DEF r
  <2>4. r \in Outputs /\ q \in Seq(Packets) /\ Len(q) \in Nat
    BY <2>2, OutputFields DEF Running
  <2>5. /\ ToSend(r) \in 0 .. Len(q)
        /\ \A i \in 1 .. ToSend(r) : HasHigherOpposing(r, q[i])
    BY <2>4, ToSendCounts DEF Steady
  <2>6. ASSUME NEW i \in 1 .. ToSend(r), NEW t \in Streams
        PROVE  q[i].dts_usec <= dts'[t] - r.offsets[t]
    <3>1. i \in 1 .. Len(q)
      BY <2>4, <2>5
    <3>2. q[i] \in Members(q) /\ HasHigherOpposing(r, q[i])
      BY <2>5, <3>1 DEF Members
    <3> QED  BY <2>2, <3>2, MaySend DEF InOrder
  <2> QED  BY <2>2, <2>3, <2>5, <2>6, SendKeepsOrder
<1>4. CASE UNCHANGED <<output, sent, dts>>
  <2>1. Running(output, sent, dts)
    BY <1>4
  <2> QED  BY <1>4, <2>1 DEF OrderInv
<1> QED  BY <1>1, <1>2, <1>3, <1>4, StepCases

\* So the packets sent are in order.
LEMMA OrderMonotonic == ASSUME Steady, OrderInv PROVE Monotonic
<1>1. CASE Collecting(output, sent, dts)
  <2>1. Len(sent) = 0
    BY <1>1, EmptySeq DEF Collecting
  <2> QED  BY <2>1 DEF Monotonic
<1>2. CASE Running(output, sent, dts)
  <2>1. /\ sent \in Seq(Packets) /\ output.interleaved_packets \in Seq(Packets)
        /\ Ordered(sent \o output.interleaved_packets)
    BY <1>2, OutputFields DEF OrderInv, Running, InOrder
  <2>2. Ordered(sent) /\ Len(sent) \in Nat
    BY <2>1, OrderedConcat, LenProperties
  <2>3. \A i \in 1 .. Len(sent) - 1 : i \in 1 .. Len(sent) /\ i + 1 \in 1 .. Len(sent) /\ i < i + 1
    BY <2>2
  <2> QED  BY <2>2, <2>3 DEF Ordered, Monotonic
<1> QED  BY <1>1, <1>2 DEF Steady

\* Packets leave in the order of their time stamps, with one encoder of video
\* and one of audio.
THEOREM SentInOrder == ASSUME OneVideo, OneAudio PROVE Spec => []Monotonic
<1>1. Init => Steady /\ OrderInv
  <2>1. ASSUME Init  PROVE ~ Running(output, sent, dts)
    <3>1. ~ Receives(output)
      BY <2>1, InterleaveAssumption DEF Init, ResetPacketData, Receives
    <3> QED  BY <3>1 DEF Running
  <2> QED  BY <2>1, SteadyInit DEF OrderInv
<1>2. Steady /\ OrderInv /\ [Next]_vars => (Steady /\ OrderInv)'
  BY SteadyNext, OrderNext
<1>3. Steady /\ OrderInv => Monotonic
  BY OrderMonotonic
<1> QED  BY <1>1, <1>2, <1>3, PTL DEF Spec

-----------------------------------------------------------------------------
(* The start brings video and audio together, with one encoder of each.       *)

\* There is audio within a packet of the packet at v.
Near(q, v) == \E c \in AudioOf(q) : Apart(q, c, v) <= LongestInterval

\* What the queue is while packets are collected, with the audio in one stream.
LEMMA FreshQueue ==
    ASSUME OneAudio, NEW o, NEW d, Fresh(o, d)
    PROVE  LET q == o.interleaved_packets
           IN  /\ o \in Outputs /\ q \in Seq(Packets) /\ Len(q) \in Nat
               /\ Ordered(q) /\ Upcoming(d) \in Times
               /\ \A i \in 1 .. Len(q) :
                     /\ q[i] \in Packets /\ q[i].dts >= -Priming /\ q[i].dts \in Int
                     /\ q[i].dts_usec \in Int /\ q[i].sys_dts_usec = q[i].dts_usec
                     /\ q[i].dts_usec = Base[StreamOf(q[i])] + q[i].dts
                     /\ EndOf(q[i]) = q[i].dts_usec + Interval(StreamOf(q[i]))
                     /\ StreamOf(q[i]) \in Streams
               /\ \A i, j \in AudioOf(q) : StreamOf(q[i]) = StreamOf(q[j])
               /\ \A i, j \in AudioOf(q) : i < j => EndOf(q[i]) <= q[j].dts_usec
<1> DEFINE q == o.interleaved_packets
<1>1. /\ o \in Outputs /\ d \in Clocks /\ q \in Seq(Packets) /\ Len(q) \in Nat
      /\ Ordered(q) /\ AsProduced(q) /\ Rising(q)
  BY OutputFields DEF Fresh, Chain
<1>2. \A i \in 1 .. Len(q) :
         /\ q[i] \in Packets /\ q[i].dts >= -Priming /\ q[i].dts \in Int
         /\ q[i].dts_usec \in Int /\ q[i].sys_dts_usec = q[i].dts_usec
         /\ q[i].dts_usec = Base[StreamOf(q[i])] + q[i].dts
         /\ EndOf(q[i]) = q[i].dts_usec + Interval(StreamOf(q[i]))
         /\ StreamOf(q[i]) \in Streams
  BY <1>1, ElementOfSeq, PacketFields DEF AsProduced, EndOf
<1>3. ASSUME NEW i \in AudioOf(q), NEW j \in AudioOf(q)
      PROVE  StreamOf(q[i]) = StreamOf(q[j])
  <2>1. /\ i \in 1 .. Len(q) /\ j \in 1 .. Len(q)
        /\ q[i].type = "audio" /\ q[j].type = "audio"
    BY DEF AudioOf
  <2>2. q[i].track_idx = q[j].track_idx
    <3>1. q[i].track_idx \in AudioTracks /\ q[j].track_idx \in AudioTracks
      BY <1>2, <2>1, StreamOfParts
    <3> QED  BY <3>1 DEF OneAudio
  <2> QED  BY <2>1, <2>2 DEF StreamOf
<1>4. \A i, j \in AudioOf(q) : i < j => EndOf(q[i]) <= q[j].dts_usec
  <2>1. \A i \in AudioOf(q) : i \in 1 .. Len(q)
    BY DEF AudioOf
  <2> QED  BY <1>1, <1>2, <1>3, <2>1 DEF Rising
<1> QED  BY <1>1, <1>2, <1>3, <1>4, UpcomingType

\* Audio before and after a packet: the last one before it is near.
LEMMA CrossingNear ==
    ASSUME OneAudio, NEW o, NEW d, Fresh(o, d), NEW v \in 1 .. Len(o.interleaved_packets),
           NEW x \in AudioOf(o.interleaved_packets), NEW y \in AudioOf(o.interleaved_packets),
           o.interleaved_packets[x].dts_usec <= o.interleaved_packets[v].dts_usec,
           o.interleaved_packets[v].dts_usec <= o.interleaved_packets[y].dts_usec
    PROVE  Near(o.interleaved_packets, v)
<1> DEFINE q == o.interleaved_packets
           T == q[v].dts_usec
           B == {i \in AudioOf(q) : q[i].dts_usec <= T}
           m == Max(B)
<1>1. /\ o \in Outputs /\ q \in Seq(Packets) /\ Len(q) \in Nat /\ Upcoming(d) \in Times
      /\ \A i \in 1 .. Len(q) :
            /\ q[i] \in Packets /\ q[i].dts_usec \in Int /\ q[i].sys_dts_usec = q[i].dts_usec
            /\ EndOf(q[i]) = q[i].dts_usec + Interval(StreamOf(q[i]))
            /\ StreamOf(q[i]) \in Streams
      /\ \A i, j \in AudioOf(q) : StreamOf(q[i]) = StreamOf(q[j])
      /\ \A i, j \in AudioOf(q) : i < j => EndOf(q[i]) <= q[j].dts_usec
  BY FreshQueue
<1>2. AudioOf(q) \subseteq 1 .. Len(q) /\ x \in B
  BY DEF AudioOf
<1>3. \A i \in AudioOf(q) : i \in 1 .. Len(q)
  BY <1>2
<1>4. Behind(q, Upcoming(d)) /\ Followed(q, Upcoming(d))
  BY DEF Fresh, Chain
<1> HIDE DEF q
<1>5. B \subseteq 0 .. Len(q) /\ B # {}
  BY <1>1, <1>2
<1> HIDE DEF B
<1>6. m \in B /\ \A i \in B : m >= i
  BY <1>1, <1>5, MaxOf
<1> HIDE DEF m
<1>7. m \in AudioOf(q) /\ m \in 1 .. Len(q) /\ q[m].dts_usec <= T
  BY <1>3, <1>6 DEF B
<1> DEFINE s == StreamOf(q[m])
<1>8. /\ s \in Streams /\ Interval(s) \in Nat /\ Interval(s) > 0 /\ Interval(s) <= LongestInterval
      /\ LongestInterval \in Nat /\ EndOf(q[m]) = q[m].dts_usec + Interval(s)
      /\ q[m].dts_usec \in Int /\ T \in Int /\ q[y].dts_usec \in Int
      /\ Upcoming(d)[s] \in Int
  <2>1. v \in 1 .. Len(q) /\ y \in 1 .. Len(q) /\ T = q[v].dts_usec
    BY <1>3 DEF q
  <2>2. s \in Streams /\ EndOf(q[m]) = q[m].dts_usec + Interval(s) /\ q[m].dts_usec \in Int
    BY <1>1, <1>7
  <2>3. T \in Int /\ q[y].dts_usec \in Int
    BY <1>1, <2>1
  <2>4. Interval(s) \in Nat /\ Interval(s) > 0 /\ Interval(s) <= LongestInterval
        /\ LongestInterval \in Nat
    BY <2>2, IntervalType, LongestIs
  <2>5. Upcoming(d)[s] \in Int
    BY <1>1, <2>2 DEF Times
  <2> QED  BY <2>2, <2>3, <2>4, <2>5
<1>9. CASE q[m].dts_usec = T
  <2>1. Apart(q, m, v) = 0
    BY <1>8, <1>9 DEF Apart, Distance
  <2> QED  BY <1>7, <1>8, <2>1 DEF Near, q
<1>10. CASE q[m].dts_usec # T
  <2>1. q[m].dts_usec < T
    BY <1>7, <1>8, <1>10
  <2>2. y \in AudioOf(q) /\ y \in 1 .. Len(q) /\ T <= q[y].dts_usec /\ StreamOf(q[y]) = s
    BY <1>1, <1>3, <1>7 DEF q
  <2>3. EndOf(q[y]) <= Upcoming(d)[s] /\ EndOf(q[y]) = q[y].dts_usec + Interval(s)
    BY <1>1, <1>4, <2>2 DEF Behind
  <2>4. m < y
    <3>1. m # y
      BY <1>8, <2>1, <2>2
    <3>2. ~ (y < m)
      <4> SUFFICES ASSUME y < m  PROVE FALSE
        OBVIOUS
      <4>1. EndOf(q[y]) <= q[m].dts_usec
        BY <1>1, <1>7, <2>2
      <4> QED  BY <1>8, <2>1, <2>2, <2>3, <4>1
    <3> QED  BY <1>7, <2>2, <3>1, <3>2
  <2>5. EndOf(q[m]) <= q[y].dts_usec
    BY <1>1, <1>7, <2>2, <2>4
  <2>6. EndOf(q[m]) # Upcoming(d)[s]
    BY <1>8, <2>3, <2>5
  <2>7. PICK z \in 1 .. Len(q) : StreamOf(q[z]) = s /\ q[z].sys_dts_usec = EndOf(q[m])
    BY <1>4, <1>7, <2>6 DEF Followed
  <2>8. z \in AudioOf(q) /\ q[z].dts_usec = q[m].dts_usec + Interval(s)
    <3>1. q[z].type = q[m].type
      BY <1>1, <1>7, <2>7, StreamOfParts
    <3> QED  BY <1>1, <1>7, <1>8, <2>7, <3>1 DEF AudioOf
  <2>9. T < q[z].dts_usec
    <3> SUFFICES ASSUME q[z].dts_usec <= T  PROVE FALSE
      BY <1>8, <2>8
    <3>1. m >= z
      BY <1>6, <2>8 DEF B
    <3>2. z < m
      BY <1>7, <1>8, <2>7, <2>8, <3>1
    <3>3. EndOf(q[z]) <= q[m].dts_usec /\ EndOf(q[z]) = q[z].dts_usec + Interval(s)
      BY <1>1, <1>7, <2>7, <2>8, <3>2
    <3> QED  BY <1>8, <2>8, <3>3
  <2>10. Apart(q, m, v) = T - q[m].dts_usec
    BY <1>8, <2>1 DEF Apart, Distance
  <2>11. Apart(q, m, v) <= LongestInterval
    BY <1>8, <2>8, <2>9, <2>10
  <2> QED  BY <1>7, <2>11 DEF Near, q
<1> QED  BY <1>9, <1>10

\* Of a queue, what remains without n packets has the first video packet v and
\* the audio packet c, and begins its audio with packet e.
StartsAt(q, w, n, v, c, e) ==
    /\ Dropped(q, w, n)
    /\ v \in 1 .. Len(q) /\ c \in AudioOf(q) /\ n < v /\ n < c
    /\ e \in AudioOf(q) /\ n < e
    /\ \A i \in AudioOf(w) : e <= i + n

\* get_interleaved_start_idx keeps the first video packet and the audio packet
\* closest to it, which becomes the first audio, or follows priming that is kept.
LEMMA ClosestStays ==
    ASSUME OneAudio, NEW o, NEW d, Fresh(o, d), CanPrune(o) \/ HaveAll(o)
    PROVE  LET q == o.interleaved_packets
               v == FirstOf(o, "video", 0)
               r == DiscardTo(o, StartIdx(o))
           IN  \E c, e \in AudioOf(q) :
                  /\ \A j \in AudioOf(q) : Apart(q, c, v) <= Apart(q, j, v)
                  /\ StartsAt(q, r.interleaved_packets, StartIdx(o), v, c, e)
                  /\ \/ e = c
                     \/ \E f \in AudioOf(q) :
                           /\ q[e].dts <= q[f].dts /\ q[f].dts <= 0
                           /\ Apart(q, f, v) <= Apart(q, c, v)
<1> DEFINE q == o.interleaved_packets
           v == FirstOf(o, "video", 0)
           n == StartIdx(o)
           r == DiscardTo(o, n)
           w == r.interleaved_packets
<1>1. /\ o \in Outputs /\ q \in Seq(Packets) /\ Len(q) \in Nat /\ Ordered(q)
      /\ \A i \in 1 .. Len(q) :
            /\ q[i] \in Packets /\ q[i].dts >= -Priming /\ q[i].dts \in Int
            /\ q[i].dts_usec \in Int
            /\ q[i].dts_usec = Base[StreamOf(q[i])] + q[i].dts
            /\ EndOf(q[i]) = q[i].dts_usec + Interval(StreamOf(q[i]))
            /\ StreamOf(q[i]) \in Streams
      /\ \A i, j \in AudioOf(q) : StreamOf(q[i]) = StreamOf(q[j])
      /\ \A i, j \in AudioOf(q) : i < j => EndOf(q[i]) <= q[j].dts_usec
  BY FreshQueue
<1>2. FirstOf(o, "video", 0) # 0 /\ AudioOf(q) # {}
  BY <1>1, HasPackets
<1>3. PICK c \in 1 .. Len(q) :
         /\ ClosestTo(q, v, c)
         /\ n \in 0 .. Len(q) - 1
         /\ n + 1 <= v /\ n + 1 <= c
         /\ \/ n + 1 = (IF v < c THEN v ELSE c)
            \/ \E i, f \in AudioOf(q) :
                  /\ n + 1 = i
                  /\ i < (IF v < c THEN v ELSE c)
                  /\ (IF v < c THEN v ELSE c) <= f /\ q[f].dts <= 0
                  /\ \A j \in AudioOf(q) : (IF v < c THEN v ELSE c) <= j => f <= j
  BY <1>1, <1>2, StartIdxCuts
<1>4. v \in 1 .. Len(q)
  <2>1. v \in 0 .. Len(q)
    BY <1>1, OfStream
  <2> QED  BY <1>1, <1>2, <2>1
<1>5. n \in 0 .. Len(q)
  BY <1>1, <1>3
<1>6. r \in Outputs /\ Dropped(q, w, n)
  BY <1>1, <1>5, DiscardToDrops
<1>7. w \in Seq(Packets) /\ Len(w) \in Nat
  BY <1>6, OutputFields
<1> HIDE DEF q, v, w, n, r
<1>8. \A i \in AudioOf(q) : i \in 1 .. Len(q)
  BY DEF AudioOf
<1>9. c \in AudioOf(q) /\ (\A j \in AudioOf(q) : Apart(q, c, v) <= Apart(q, j, v)) /\ n < v /\ n < c
  BY <1>3, <1>4, <1>5 DEF ClosestTo
\* Priming is kept: the audio that is close enough to the video has a dts up to 0.
<1>10. ASSUME NEW e \in AudioOf(q), NEW f \in AudioOf(q), n + 1 = e,
              e < (IF v < c THEN v ELSE c), (IF v < c THEN v ELSE c) <= f, q[f].dts <= 0,
              \A j \in AudioOf(q) : (IF v < c THEN v ELSE c) <= j => f <= j
       PROVE  /\ StartsAt(q, w, n, v, c, e) /\ q[e].dts <= q[f].dts
              /\ Apart(q, f, v) <= Apart(q, c, v)
  <2>1. e \in 1 .. Len(q) /\ f \in 1 .. Len(q) /\ e < f /\ f <= c
    BY <1>1, <1>3, <1>4, <1>8, <1>9, <1>10
  <2>2. EndOf(q[e]) <= q[f].dts_usec /\ StreamOf(q[e]) = StreamOf(q[f])
    BY <1>1, <2>1
  <2> DEFINE s == StreamOf(q[f])
  <2>3. /\ EndOf(q[e]) = q[e].dts_usec + Interval(s) /\ q[e].dts_usec = Base[s] + q[e].dts
        /\ q[f].dts_usec = Base[s] + q[f].dts
        /\ q[e].dts \in Int /\ q[f].dts \in Int /\ s \in Streams
    BY <1>1, <2>1, <2>2
  <2>4. Interval(s) \in Nat /\ Interval(s) > 0 /\ Base[s] \in Nat
    BY <2>3, IntervalType, BaseType
  <2> HIDE DEF s
  <2>5. q[e].dts <= q[f].dts
    BY <2>2, <2>3, <2>4
  <2>6. Apart(q, f, v) <= Apart(q, c, v)
    <3>1. CASE f = c
      <4>1. Apart(q, c, v) \in Nat
        BY <1>1, <1>3, <1>4, ApartType
      <4> QED  BY <3>1, <4>1
    <3>2. CASE f # c
      <4>1. v <= f /\ f < c
        BY <1>3, <1>4, <1>10, <2>1, <3>2
      <4>2. q[v].dts_usec <= q[f].dts_usec /\ q[f].dts_usec <= q[c].dts_usec
        <5>1. CASE v = f
          BY <1>1, <1>3, <2>1, <4>1, <5>1 DEF Ordered
        <5>2. CASE v < f
          BY <1>1, <1>3, <1>4, <2>1, <4>1, <5>2 DEF Ordered
        <5> QED  BY <1>4, <2>1, <4>1, <5>1, <5>2
      <4>3. q[v].dts_usec \in Int /\ q[f].dts_usec \in Int /\ q[c].dts_usec \in Int
        BY <1>1, <1>3, <1>4, <2>1
      <4> QED  BY <4>2, <4>3 DEF Apart, Distance
    <3> QED  BY <3>1, <3>2
  <2>7. \A i \in AudioOf(w) : e <= i + n
    BY <1>5, <1>7, <1>10 DEF AudioOf
  <2>8. n < e
    BY <1>5, <1>10
  <2> QED  BY <1>4, <1>6, <1>9, <2>5, <2>6, <2>7, <2>8 DEF StartsAt
<1>11. ASSUME n + 1 = (IF v < c THEN v ELSE c), NEW i \in AudioOf(w)  PROVE c <= i + n
  <2> SUFFICES ASSUME i + n < c  PROVE FALSE
    BY <1>3, <1>5, <1>7 DEF AudioOf
  <2> DEFINE x == i + n
  <2>1. i \in 1 .. Len(w) /\ w[i].type = "audio"
    BY DEF AudioOf
  <2>2. x \in 1 .. Len(q) /\ w[i] = q[x] /\ n < x
    BY <1>1, <1>5, <1>6, <1>7, <2>1 DEF Dropped
  <2>3. x \in AudioOf(q)
    BY <2>1, <2>2 DEF AudioOf
  <2>4. v <= x /\ x < c
    BY <1>3, <1>4, <1>5, <1>11, <2>2
  <2> HIDE DEF x
  <2>5. q[v].dts_usec <= q[x].dts_usec /\ q[x].dts_usec <= q[c].dts_usec
    <3>1. q[x].dts_usec <= q[c].dts_usec
      BY <1>1, <2>2, <2>4 DEF Ordered
    <3>2. CASE v = x
      BY <1>1, <1>4, <3>1, <3>2
    <3>3. CASE v < x
      BY <1>1, <1>4, <2>2, <3>1, <3>3 DEF Ordered
    <3> QED  BY <1>4, <2>2, <2>4, <3>1, <3>2, <3>3
  <2>6. q[v].dts_usec \in Int /\ q[x].dts_usec \in Int /\ q[c].dts_usec \in Int
    BY <1>1, <1>4, <2>2
  <2>7. Apart(q, x, v) <= Apart(q, c, v)
    BY <2>5, <2>6 DEF Apart, Distance
  <2>8. \A j \in AudioOf(q) : Apart(q, c, v) <= Apart(q, j, v)
    BY <1>3 DEF ClosestTo
  <2>9. \A j \in AudioOf(q) : Apart(q, x, v) <= Apart(q, j, v)
    <3> TAKE j \in AudioOf(q)
    <3>1. Apart(q, j, v) \in Nat /\ Apart(q, x, v) \in Nat /\ Apart(q, c, v) \in Nat
      BY <1>1, <1>4, <1>8, <2>2, ApartType
    <3> QED  BY <2>7, <2>8, <3>1
  <2>10. c <= x
    BY <1>3, <2>3, <2>9 DEF ClosestTo
  <2> QED  BY <2>2, <2>4, <2>10
<1>12. CASE n + 1 = (IF v < c THEN v ELSE c)
  <2>1. StartsAt(q, w, n, v, c, c)
    BY <1>4, <1>6, <1>9, <1>11, <1>12 DEF StartsAt
  <2> QED  BY <1>9, <2>1 DEF q, v, w, n, r
<1>13. CASE n + 1 # (IF v < c THEN v ELSE c)
  <2>1. PICK e \in AudioOf(q), f \in AudioOf(q) :
           /\ n + 1 = e /\ e < (IF v < c THEN v ELSE c) /\ (IF v < c THEN v ELSE c) <= f
           /\ q[f].dts <= 0
           /\ \A j \in AudioOf(q) : (IF v < c THEN v ELSE c) <= j => f <= j
    BY <1>3, <1>13
  <2>2. /\ StartsAt(q, w, n, v, c, e) /\ q[e].dts <= q[f].dts
        /\ Apart(q, f, v) <= Apart(q, c, v)
    BY <1>10, <2>1
  <2> QED  BY <1>9, <2>1, <2>2 DEF q, v, w, n, r
<1> QED  BY <1>12, <1>13

\* Where in the system's time the time stamp 0 of an output's stream lies that
\* begins with audio packet p: no offset takes its priming away.
Origin(p) == IF p.dts > 0 THEN p.dts_usec ELSE p.dts_usec - p.dts

\* The first audio packet puts its stream near the first video packet.
Meets(o) ==
    LET q == o.interleaved_packets
    IN  \E c \in AudioOf(q) :
           /\ \A i \in AudioOf(q) : c <= i
           /\ Distance(Origin(q[c]), q[FirstOf(o, "video", 0)].dts_usec)
                 <= LongestInterval + Priming

\* What is dropped before the first video packet leaves it the first.
LEMMA VideoStays ==
    ASSUME NEW o \in Outputs, NEW n \in 0 .. Len(o.interleaved_packets),
           n < FirstOf(o, "video", 0)
    PROVE  LET q == o.interleaved_packets
               v == FirstOf(o, "video", 0)
               r == DiscardTo(o, n)
               w == r.interleaved_packets
           IN  /\ FirstOf(r, "video", 0) = v - n
               /\ v \in 1 .. Len(q) /\ v - n \in 1 .. Len(w) /\ w[v - n] = q[v]
<1> DEFINE q == o.interleaved_packets
           v == FirstOf(o, "video", 0)
           r == DiscardTo(o, n)
           w == r.interleaved_packets
           g == FirstOf(r, "video", 0)
<1>1. r \in Outputs /\ Dropped(q, w, n)
  BY DiscardToDrops
<1>2. q \in Seq(Packets) /\ Len(q) \in Nat /\ w \in Seq(Packets) /\ Len(w) \in Nat
  BY <1>1, OutputFields
<1>3. /\ v \in 0 .. Len(q)
      /\ v # 0 => v \in Of(o, "video", 0)
      /\ \A i \in Of(o, "video", 0) : v <= i
      /\ \A i \in 1 .. Len(q) : i \in Of(o, "video", 0) <=> StreamOf(q[i]) = <<"video", 0>>
  BY OfStream
<1>4. /\ g \in 0 .. Len(w)
      /\ g = 0 <=> Of(r, "video", 0) = {}
      /\ g # 0 => g \in Of(r, "video", 0)
      /\ \A i \in Of(r, "video", 0) : g <= i
      /\ \A i \in 1 .. Len(w) : i \in Of(r, "video", 0) <=> StreamOf(w[i]) = <<"video", 0>>
  BY <1>1, OfStream
<1> HIDE DEF q, v, r, w, g
<1>5. n < v /\ n \in 0 .. Len(q)
  BY DEF v, q
<1>6. v \in 1 .. Len(q)
  BY <1>2, <1>3, <1>5
<1>7. v - n \in 1 .. Len(w) /\ w[v - n] = q[v]
  <2>1. Len(w) = Len(q) - n /\ \A k \in 1 .. Len(w) : w[k] = q[k + n]
    BY <1>1 DEF Dropped
  <2>2. v - n \in 1 .. Len(w) /\ (v - n) + n = v
    BY <1>2, <1>5, <1>6, <2>1
  <2> QED  BY <2>1, <2>2
<1>8. g \in 1 .. Len(w) /\ g <= v - n /\ StreamOf(w[g]) = <<"video", 0>>
  <2>1. StreamOf(w[v - n]) = <<"video", 0>>
    BY <1>3, <1>6, <1>7
  <2>2. v - n \in Of(r, "video", 0)
    BY <1>4, <1>7, <2>1
  <2>3. g # 0 /\ g <= v - n
    BY <1>4, <2>2
  <2>4. g \in 1 .. Len(w)
    BY <1>2, <1>4, <2>3
  <2> QED  BY <1>4, <2>3, <2>4
<1>9. v <= g + n
  <2>1. g + n \in 1 .. Len(q) /\ w[g] = q[g + n]
    BY <1>1, <1>2, <1>6, <1>8 DEF Dropped
  <2> QED  BY <1>3, <1>8, <2>1
<1>10. g = v - n
  BY <1>2, <1>5, <1>6, <1>8, <1>9
<1> QED  BY <1>6, <1>7, <1>10 DEF q, v, r, w, g

\* If there is audio near the first video, what get_interleaved_start_idx
\* leaves has it too, and begins with audio that puts its stream there.
LEMMA NearMeets ==
    ASSUME OneAudio, NEW o, NEW d, Fresh(o, d), CanPrune(o) \/ HaveAll(o),
           Near(o.interleaved_packets, FirstOf(o, "video", 0))
    PROVE  LET r == DiscardTo(o, StartIdx(o))
           IN  Meets(r) /\ Near(r.interleaved_packets, FirstOf(r, "video", 0))
<1> DEFINE q == o.interleaved_packets
           v == FirstOf(o, "video", 0)
           n == StartIdx(o)
           r == DiscardTo(o, n)
           w == r.interleaved_packets
<1>1. /\ o \in Outputs /\ q \in Seq(Packets) /\ Len(q) \in Nat
      /\ \A i \in 1 .. Len(q) :
            /\ q[i] \in Packets /\ q[i].dts >= -Priming /\ q[i].dts \in Int
            /\ q[i].dts_usec \in Int
            /\ q[i].dts_usec = Base[StreamOf(q[i])] + q[i].dts
            /\ StreamOf(q[i]) \in Streams
      /\ \A i, j \in AudioOf(q) : StreamOf(q[i]) = StreamOf(q[j])
  BY FreshQueue
<1>2. PICK c \in AudioOf(q), e \in AudioOf(q) :
         /\ \A j \in AudioOf(q) : Apart(q, c, v) <= Apart(q, j, v)
         /\ StartsAt(q, w, n, v, c, e)
         /\ \/ e = c
            \/ \E f \in AudioOf(q) :
                  /\ q[e].dts <= q[f].dts /\ q[f].dts <= 0
                  /\ Apart(q, f, v) <= Apart(q, c, v)
  BY ClosestStays
<1>3. n \in 0 .. Len(q) /\ n < v /\ n < c /\ n < e
  BY <1>1, <1>2, StartIdxRange DEF StartsAt
<1>4. /\ FirstOf(r, "video", 0) = v - n /\ v \in 1 .. Len(q)
      /\ v - n \in 1 .. Len(w) /\ w[v - n] = q[v]
  BY <1>1, <1>3, VideoStays
<1>5. PICK x \in AudioOf(q) : Apart(q, x, v) <= LongestInterval
  BY DEF Near
<1>6. r \in Outputs /\ Dropped(q, w, n)
  BY <1>1, <1>3, DiscardToDrops
<1>7. w \in Seq(Packets) /\ Len(w) \in Nat
  BY <1>6, OutputFields
<1> HIDE DEF q, v, w, n, r
<1>8. \A i \in AudioOf(q) : i \in 1 .. Len(q) /\ q[i].type = "audio"
  BY DEF AudioOf
<1>9. \A i \in AudioOf(q) : n < i => i - n \in AudioOf(w) /\ w[i - n] = q[i]
  <2> SUFFICES ASSUME NEW i \in AudioOf(q), n < i  PROVE i - n \in AudioOf(w) /\ w[i - n] = q[i]
    OBVIOUS
  <2>1. Len(w) = Len(q) - n /\ \A k \in 1 .. Len(w) : w[k] = q[k + n]
    BY <1>6 DEF Dropped
  <2>2. i - n \in 1 .. Len(w) /\ (i - n) + n = i
    BY <1>1, <1>3, <1>8, <2>1
  <2>3. w[i - n] = q[i]
    BY <2>1, <2>2
  <2> QED  BY <1>8, <2>2, <2>3 DEF AudioOf
<1>10. \A i \in AudioOf(w) : e - n <= i
  <2> TAKE i \in AudioOf(w)
  <2>1. e <= i + n /\ i \in 1 .. Len(w)
    BY <1>2 DEF StartsAt, AudioOf
  <2> QED  BY <1>1, <1>3, <1>7, <1>8, <2>1
<1>11. \A j \in AudioOf(q) : Apart(q, j, v) \in Nat
  BY <1>1, <1>4, <1>8, ApartType
<1>12. Apart(q, c, v) <= LongestInterval /\ LongestInterval \in Nat
  <2>1. Apart(q, c, v) <= Apart(q, x, v)
    BY <1>2
  <2> QED  BY <1>5, <1>11, <2>1, LongestIs
<1>13. Near(w, v - n)
  <2>1. Apart(w, c - n, v - n) = Apart(q, c, v)
    BY <1>3, <1>4, <1>9 DEF Apart
  <2> QED  BY <1>3, <1>9, <1>12, <2>1 DEF Near
<1>14. Distance(Origin(q[e]), q[v].dts_usec) <= LongestInterval + Priming
  <2>1. PICK f \in AudioOf(q) : /\ Apart(q, f, v) <= Apart(q, c, v)
                                /\ e = f \/ (q[e].dts <= q[f].dts /\ q[f].dts <= 0)
    <3>1. Apart(q, c, v) <= Apart(q, c, v)
      BY <1>11
    <3> QED  BY <1>2, <3>1
  <2>9. Apart(q, f, v) <= LongestInterval
    <3>1. Apart(q, f, v) \in Nat /\ Apart(q, c, v) \in Nat
      BY <1>11, <2>1, <1>2
    <3> QED  BY <1>12, <2>1, <3>1
  <2> DEFINE s == StreamOf(q[f])
             T == q[v].dts_usec
  <2>2. /\ q[f].dts_usec = Base[s] + q[f].dts /\ q[e].dts_usec = Base[s] + q[e].dts
        /\ q[f].dts \in Int /\ q[e].dts \in Int /\ T \in Int /\ s \in Streams
        /\ q[f].dts >= -Priming /\ q[e].dts >= -Priming
        /\ q[f].dts_usec \in Int
    BY <1>1, <1>4, <1>8
  <2>3. Base[s] \in Nat /\ Priming \in Nat
    BY <2>2, BaseType, InterleaveAssumption
  <2>4. Distance(q[f].dts_usec, T) <= LongestInterval
    BY <2>9 DEF Apart
  <2> HIDE DEF s, T
  <2>5. CASE q[e].dts > 0
    <3>1. Origin(q[e]) = q[f].dts_usec
      BY <2>1, <2>2, <2>5 DEF Origin
    <3> QED  BY <1>12, <2>2, <2>3, <2>4, <3>1 DEF Distance, T
  <2>6. CASE q[e].dts <= 0
    <3>1. Origin(q[e]) = Base[s] /\ q[f].dts <= 0
      BY <2>1, <2>2, <2>3, <2>6 DEF Origin
    <3>2. Distance(Base[s], T) <= LongestInterval + Priming
      BY <1>12, <2>2, <2>3, <2>4, <3>1 DEF Distance
    <3> QED  BY <3>1, <3>2 DEF T
  <2> QED  BY <2>2, <2>5, <2>6
<1>15. Meets(r)
  <2>1. e - n \in AudioOf(w) /\ w[e - n] = q[e]
    BY <1>3, <1>9
  <2> QED  BY <1>4, <1>10, <1>14, <2>1 DEF Meets, w
<1> QED  BY <1>4, <1>13, <1>15 DEF r, n, w

\* There is audio up to the first video, once the streams are ready to start.
LEMMA AudioReaches ==
    ASSUME OneVideo, NEW o \in Outputs, HaveAll(o), AudioPast(o)
    PROVE  LET q == o.interleaved_packets
               v == FirstOf(o, "video", 0)
           IN  /\ v \in 1 .. Len(q)
               /\ \E y \in AudioOf(q) : q[v].dts_usec <= q[y].dts_usec
<1> DEFINE q == o.interleaved_packets
           v == FirstOf(o, "video", 0)
<1>1. /\ v # 0 /\ v \in 0 .. Len(q) /\ Len(q) \in Nat
      /\ \A i \in 1 .. Len(q) : q[i] \in Packets
  BY HasPackets, OfStream, OutputFields
<1>2. v \in 1 .. Len(q)
  BY <1>1
<1>3. PICK a \in AudioTracks : TRUE
  BY InterleaveAssumption
<1>4. LastOf(o, "audio", a) \in AudioOf(q)
  BY HasPackets, OfStream, AudioOfTracks
<1>5. Min(VideoTracks) = 0
  BY MinOf DEF OneVideo
<1>6. q[LastOf(o, "audio", a)].dts_usec >= q[v].dts_usec
  BY <1>5 DEF AudioPast
<1> HIDE DEF v, q
<1>7. q[v].dts_usec <= q[LastOf(o, "audio", a)].dts_usec
  <2>1. q[v].dts_usec \in Int /\ q[LastOf(o, "audio", a)].dts_usec \in Int
    BY <1>1, <1>2, <1>4, PacketFields DEF AudioOf
  <2> QED  BY <1>6, <2>1
<1> QED  BY <1>2, <1>4, <1>7 DEF v, q

\* With one audio encoder: the first audio comes more than a packet of video late.
LEMMA LateAudioIs ==
    ASSUME OneVideo, OneAudio, NEW o \in Outputs, CanPrune(o)
    PROVE  LET q == o.interleaved_packets
               v == FirstOf(o, "video", 0)
           IN  \E x \in AudioOf(q) :
                  /\ \A i \in AudioOf(q) : x <= i
                  /\ x \in 1 .. Len(q) /\ v \in 1 .. Len(q)
                  /\ LateAudio(o) <=> q[x].dts_usec - q[v].dts_usec > VideoInterval
<1> DEFINE q == o.interleaved_packets
           v == FirstOf(o, "video", 0)
<1>1. PICK a \in AudioTracks : TRUE
  BY InterleaveAssumption
<1>2. AudioTracks = {a}
  BY DEF OneAudio
<1>3. Max(AudioTracks) = a /\ Cardinality(AudioTracks) = 1
  <2>1. a \in Nat /\ Cardinality({a}) = 1
    BY <1>1, InterleaveAssumption, FS_Singleton
  <2>2. Max({a}) \in {a}
    BY <2>1, MaxOfTwo
  <2> QED  BY <1>2, <2>1, <2>2
<1> DEFINE x == FirstOf(o, "audio", a)
<1>4. LateAudio(o) <=> q[x].dts_usec - q[v].dts_usec > VideoInterval
  BY <1>3 DEF LateAudio
<1>5. /\ v # 0 /\ v \in 0 .. Len(q) /\ Len(q) \in Nat
      /\ x # 0 /\ x \in 0 .. Len(q) /\ x \in Of(o, "audio", a)
  BY HasPackets, OfStream, OutputFields
<1>6. v \in 1 .. Len(q) /\ x \in 1 .. Len(q)
  BY <1>5
<1>7. x \in AudioOf(q)
  BY <1>5, AudioOfTracks
<1>8. \A i \in AudioOf(q) : x <= i
  <2> TAKE i \in AudioOf(q)
  <2>1. i \in Of(o, "audio", a)
    BY <1>2, AudioOfTracks
  <2> QED  BY <2>1, OfStream
<1> HIDE DEF x, v, q
<1> QED  BY <1>4, <1>6, <1>7, <1>8 DEF v, q

\* No packets are premature: audio is near the first video when some of what
\* stays is past it.
LEMMA EarlyNear ==
    ASSUME OneVideo, OneAudio, NEW o, NEW d, Fresh(o, d), CanPrune(o), ~LateAudio(o),
           HaveAll(DiscardTo(o, StartIdx(o))), AudioPast(DiscardTo(o, StartIdx(o)))
    PROVE  Near(o.interleaved_packets, FirstOf(o, "video", 0))
<1> DEFINE q == o.interleaved_packets
           v == FirstOf(o, "video", 0)
           n == StartIdx(o)
           p == DiscardTo(o, n)
           w == p.interleaved_packets
<1>1. /\ o \in Outputs /\ q \in Seq(Packets) /\ Len(q) \in Nat
      /\ \A i \in 1 .. Len(q) : q[i].dts_usec \in Int
  BY FreshQueue
<1>2. PICK x \in AudioOf(q) :
         /\ x \in 1 .. Len(q) /\ v \in 1 .. Len(q)
         /\ ~(q[x].dts_usec - q[v].dts_usec > VideoInterval)
  BY <1>1, LateAudioIs
<1>3. PICK c \in AudioOf(q), e \in AudioOf(q) : StartsAt(q, w, n, v, c, e)
  BY ClosestStays
<1>4. n \in 0 .. Len(q) /\ n < v
  BY <1>1, <1>3, StartIdxRange DEF StartsAt
<1>5. p \in Outputs /\ Dropped(q, w, n)
  BY <1>1, <1>4, DiscardToDrops
<1>6. FirstOf(p, "video", 0) = v - n /\ w[v - n] = q[v]
  BY <1>1, <1>4, VideoStays
<1>7. PICK z \in AudioOf(w) : w[v - n].dts_usec <= w[z].dts_usec
  BY <1>5, <1>6, AudioReaches
<1>8. w \in Seq(Packets) /\ Len(w) \in Nat
  BY <1>5, OutputFields
<1> DEFINE y == z + n
<1>9. y \in AudioOf(q) /\ w[z] = q[y]
  <2>1. z \in 1 .. Len(w) /\ w[z].type = "audio"
    BY DEF AudioOf
  <2> HIDE DEF q, w, n
  <2>2. y \in 1 .. Len(q) /\ w[z] = q[y]
    BY <1>1, <1>4, <1>5, <1>8, <2>1 DEF Dropped
  <2> HIDE DEF y
  <2> QED  BY <2>1, <2>2 DEF AudioOf
<1> HIDE DEF y
<1>10. q[v].dts_usec <= q[y].dts_usec
  BY <1>6, <1>7, <1>9
<1>11. CASE q[x].dts_usec <= q[v].dts_usec
  <2> HIDE DEF v
  <2> QED  BY <1>2, <1>9, <1>10, <1>11, CrossingNear DEF v
<1>12. CASE q[v].dts_usec < q[x].dts_usec
  <2>1. VideoInterval \in Nat /\ VideoInterval <= LongestInterval /\ LongestInterval \in Nat
    <3>1. <<"video", 0>> \in Streams
      BY StreamParts DEF OneVideo
    <3>2. Interval(<<"video", 0>>) = VideoInterval
      BY DEF Interval
    <3> QED  BY <3>1, <3>2, LongestIs, InterleaveAssumption
  <2> HIDE DEF q, v
  <2>2. Apart(q, x, v) = q[x].dts_usec - q[v].dts_usec
    BY <1>1, <1>2, <1>12 DEF Apart, Distance
  <2>3. Apart(q, x, v) <= LongestInterval
    BY <1>1, <1>2, <2>1, <2>2
  <2> QED  BY <1>2, <2>3 DEF Near, q, v
<1> HIDE DEF q, v
<1>13. q[x].dts_usec \in Int /\ q[v].dts_usec \in Int
  BY <1>1, <1>2
<1>14. Near(q, v)
  BY <1>11, <1>12, <1>13 DEF q, v
<1> QED  BY <1>14 DEF q, v

\* The first audio is premature and dropped with what is before it: the video
\* that stays is not earlier, and the next audio follows without a gap.
LEMMA LateNear ==
    ASSUME OneVideo, OneAudio, NEW o, NEW d, Fresh(o, d), CanPrune(o), LateAudio(o),
           HaveAll(DiscardTo(o, Premature(o))), AudioPast(DiscardTo(o, Premature(o)))
    PROVE  LET p == DiscardTo(o, Premature(o))
           IN  Near(p.interleaved_packets, FirstOf(p, "video", 0))
<1> DEFINE q == o.interleaved_packets
           v == FirstOf(o, "video", 0)
           n == Premature(o)
           p == DiscardTo(o, n)
           w == p.interleaved_packets
           g == FirstOf(p, "video", 0)
<1>1. /\ o \in Outputs /\ q \in Seq(Packets) /\ Len(q) \in Nat /\ Ordered(q)
      /\ Upcoming(d) \in Times
      /\ \A i \in 1 .. Len(q) :
            /\ q[i] \in Packets /\ q[i].dts_usec \in Int /\ q[i].sys_dts_usec = q[i].dts_usec
            /\ EndOf(q[i]) = q[i].dts_usec + Interval(StreamOf(q[i]))
            /\ StreamOf(q[i]) \in Streams
      /\ \A i, j \in AudioOf(q) : StreamOf(q[i]) = StreamOf(q[j])
      /\ \A i, j \in AudioOf(q) : i < j => EndOf(q[i]) <= q[j].dts_usec
  BY FreshQueue
<1>2. Behind(q, Upcoming(d)) /\ Followed(q, Upcoming(d))
  BY DEF Fresh, Chain
<1>3. PICK x \in AudioOf(q) :
         /\ \A i \in AudioOf(q) : x <= i
         /\ x \in 1 .. Len(q) /\ v \in 1 .. Len(q)
         /\ q[x].dts_usec - q[v].dts_usec > VideoInterval
         /\ \A a \in AudioTracks : FirstOf(o, "audio", a) = x
  <2>1. PICK x \in AudioOf(q) :
           /\ \A i \in AudioOf(q) : x <= i
           /\ x \in 1 .. Len(q) /\ v \in 1 .. Len(q)
           /\ LateAudio(o) <=> q[x].dts_usec - q[v].dts_usec > VideoInterval
    BY <1>1, LateAudioIs
  <2>2. ASSUME NEW a \in AudioTracks  PROVE FirstOf(o, "audio", a) = x
    <3> DEFINE f == FirstOf(o, "audio", a)
    <3>1. f # 0 /\ f \in 0 .. Len(q) /\ f \in Of(o, "audio", a)
      BY <1>1, HasPackets, OfStream
    <3>2. f \in AudioOf(q) /\ x <= f
      BY <1>1, <2>1, <3>1, AudioOfTracks
    <3>3. x \in Of(o, "audio", a)
      <4>1. PICK b \in AudioTracks : x \in Of(o, "audio", b)
        BY <1>1, AudioOfTracks
      <4> QED  BY <4>1 DEF OneAudio
    <3>4. f <= x
      BY <1>1, <3>3, OfStream
    <3> HIDE DEF f
    <3> QED  BY <1>1, <2>1, <3>1, <3>2, <3>4 DEF f
  <2> QED  BY <2>1, <2>2
<1>4. n = x /\ n \in 0 .. Len(q) /\ v <= n
  <2>1. /\ n # 0 /\ n \in 0 .. Len(q) /\ v <= n
        /\ \A a \in AudioTracks : FirstOf(o, "audio", a) <= n
        /\ n \in {v} \cup {FirstOf(o, "audio", a) : a \in AudioTracks}
    BY <1>1, PrematureCuts
  <2>2. n \in {v, x} /\ x <= n
    BY <1>3, <2>1, InterleaveAssumption
  <2>3. v < x
    <3> SUFFICES ASSUME x <= v  PROVE FALSE
      BY <1>3
    <3>1. q[x].dts_usec <= q[v].dts_usec
      <4>1. CASE x = v
        BY <1>1, <1>3, <4>1
      <4>2. CASE x < v
        BY <1>1, <1>3, <4>2 DEF Ordered
      <4> QED  BY <1>3, <4>1, <4>2
    <3> HIDE DEF q, v
    <3>2. q[x].dts_usec \in Int /\ q[v].dts_usec \in Int
      BY <1>1, <1>3
    <3> QED  BY <1>3, <3>1, <3>2, InterleaveAssumption
  <2> HIDE DEF v, n
  <2> QED  BY <1>3, <2>1, <2>2, <2>3
<1>5. p \in Outputs /\ Dropped(q, w, n) /\ Fresh(p, d)
  BY <1>1, <1>4, DiscardToDrops, FreshCut
<1>6. w \in Seq(Packets) /\ Len(w) \in Nat
  BY <1>5, OutputFields
<1>7. g \in 1 .. Len(w) /\ \E y \in AudioOf(w) : w[g].dts_usec <= w[y].dts_usec
  BY <1>5, AudioReaches
<1>8. PICK y \in AudioOf(w) : w[g].dts_usec <= w[y].dts_usec
  BY <1>7
<1> HIDE DEF q, v, w, n, p, g
<1> DEFINE s == StreamOf(q[x])
<1>9. /\ \A i \in 1 .. Len(w) : i + n \in 1 .. Len(q) /\ w[i] = q[i + n] /\ n < i + n
      /\ \A i \in 1 .. Len(q) : n < i => i - n \in 1 .. Len(w) /\ w[i - n] = q[i]
  <2>1. Len(w) = Len(q) - n /\ \A k \in 1 .. Len(w) : w[k] = q[k + n]
    BY <1>5 DEF Dropped
  <2>2. \A i \in 1 .. Len(w) : i + n \in 1 .. Len(q) /\ n < i + n
    BY <1>1, <1>4, <1>6, <2>1
  <2>3. \A i \in 1 .. Len(q) : n < i => i - n \in 1 .. Len(w) /\ (i - n) + n = i
    BY <1>1, <1>4, <1>6, <2>1
  <2> QED  BY <2>1, <2>2, <2>3
<1>10. /\ s \in Streams /\ Interval(s) \in Nat /\ Interval(s) > 0
       /\ Interval(s) <= LongestInterval /\ LongestInterval \in Nat
       /\ q[x].dts_usec \in Int /\ Upcoming(d)[s] \in Int
       /\ EndOf(q[x]) = q[x].dts_usec + Interval(s)
  <2>1. s \in Streams /\ q[x].dts_usec \in Int /\ EndOf(q[x]) = q[x].dts_usec + Interval(s)
    BY <1>1, <1>3
  <2> HIDE DEF s
  <2>2. /\ Interval(s) \in Nat /\ Interval(s) > 0
        /\ Interval(s) <= LongestInterval /\ LongestInterval \in Nat
    BY <2>1, IntervalType, LongestIs
  <2>3. Upcoming(d)[s] \in Int
    BY <1>1, <2>1 DEF Times
  <2> QED  BY <2>1, <2>2, <2>3
\* The audio after the one that is dropped.
<1>11. PICK z \in 1 .. Len(q) : /\ StreamOf(q[z]) = s /\ q[z].sys_dts_usec = EndOf(q[x])
                                /\ q[z].type = "audio" /\ n < z
  <2>1. y + n \in 1 .. Len(q) /\ n < y + n /\ q[y + n].type = "audio"
    BY <1>8, <1>9 DEF AudioOf
  <2> DEFINE u == y + n
  <2>2. u \in AudioOf(q) /\ u \in 1 .. Len(q) /\ x < u
    BY <1>4, <2>1 DEF AudioOf
  <2> HIDE DEF u
  <2>3. EndOf(q[x]) <= q[u].dts_usec /\ StreamOf(q[u]) = s
    BY <1>1, <1>3, <2>2
  <2>4. EndOf(q[u]) <= Upcoming(d)[s]
    BY <1>2, <2>2, <2>3 DEF Behind
  <2>5. EndOf(q[u]) = q[u].dts_usec + Interval(s) /\ q[u].dts_usec \in Int
    BY <1>1, <2>2, <2>3
  <2> HIDE DEF s
  <2>6. EndOf(q[x]) # Upcoming(d)[s]
    BY <1>10, <2>3, <2>4, <2>5
  <2>7. PICK z \in 1 .. Len(q) : StreamOf(q[z]) = s /\ q[z].sys_dts_usec = EndOf(q[x])
    BY <1>2, <1>3, <2>6 DEF Followed, s
  <2>8. q[z].type = "audio"
    <3>1. q[z].type = q[x].type
      BY <1>1, <1>3, <2>7, StreamOfParts DEF s
    <3> QED  BY <1>3, <3>1 DEF AudioOf
  <2>9. n < z
    <3> SUFFICES ASSUME z <= x  PROVE FALSE
      BY <1>3, <1>4
    <3>1. z \in AudioOf(q)
      BY <2>8 DEF AudioOf
    <3>2. z = x
      BY <1>3, <3>1
    <3>3. q[x].dts_usec = EndOf(q[x])
      BY <1>1, <1>3, <2>7, <3>2
    <3> QED  BY <1>10, <3>3
  <2> QED  BY <2>7, <2>8, <2>9
<1>12. z - n \in AudioOf(w) /\ w[z - n].dts_usec = q[x].dts_usec + Interval(s)
  <2>1. z - n \in 1 .. Len(w) /\ w[z - n] = q[z]
    BY <1>9, <1>11
  <2>2. q[z].dts_usec = EndOf(q[x])
    BY <1>1, <1>11
  <2> QED  BY <1>10, <1>11, <2>1, <2>2 DEF AudioOf
<1> DEFINE c == z - n
<1>13. c \in AudioOf(w) /\ c \in 1 .. Len(w) /\ w[c].dts_usec = q[x].dts_usec + Interval(s)
  BY <1>12 DEF AudioOf
<1> HIDE DEF c, s
<1>14. q[x].dts_usec <= w[g].dts_usec /\ w[g].dts_usec \in Int
  <2>1. g + n \in 1 .. Len(q) /\ w[g] = q[g + n] /\ x < g + n
    BY <1>4, <1>7, <1>9
  <2> DEFINE u == g + n
  <2>2. u \in 1 .. Len(q) /\ w[g] = q[u] /\ x < u
    BY <2>1
  <2> HIDE DEF u
  <2> QED  BY <1>1, <1>3, <2>2 DEF Ordered
<1>15. CASE w[c].dts_usec <= w[g].dts_usec
  <2>1. Near(w, g)
    BY <1>5, <1>7, <1>8, <1>13, <1>15, CrossingNear DEF w
  <2> QED  BY <2>1 DEF w, g, p, n
<1>16. CASE w[g].dts_usec < w[c].dts_usec
  <2>1. Apart(w, c, g) = w[c].dts_usec - w[g].dts_usec
    BY <1>10, <1>13, <1>14, <1>16 DEF Apart, Distance
  <2>2. Apart(w, c, g) <= LongestInterval
    BY <1>10, <1>13, <1>14, <2>1
  <2> QED  BY <1>13, <2>2 DEF Near, w, g, p, n
<1> QED  BY <1>10, <1>13, <1>14, <1>15, <1>16

\* What is kept at the start begins with audio that puts its stream near the video.
LEMMA BeginningMeets ==
    ASSUME OneVideo, OneAudio, NEW o, NEW d, Fresh(o, d), Receives(o), Ready(o)
    PROVE  Meets(Beginning(o))
<1> DEFINE p == Prune(o)
<1>1. /\ Fresh(p, d) /\ HaveAll(p) /\ p \in Outputs
  BY ReadyBegins
<1>2. CanPrune(o) /\ AudioPast(p)
  BY DEF Ready
<1>3. o \in Outputs
  BY DEF Fresh
<1>4. Near(p.interleaved_packets, FirstOf(p, "video", 0))
  <2>1. CASE LateAudio(o)
    <3>1. Premature(o) # 0
      BY <1>2, <1>3, <2>1, PrematureCuts
    <3>2. p = DiscardTo(o, Premature(o))
      BY <3>1 DEF Prune
    <3> HIDE DEF p
    <3> QED  BY <1>1, <1>2, <2>1, <3>2, LateNear
  <2>2. CASE ~LateAudio(o)
    <3> DEFINE q == o.interleaved_packets
               v == FirstOf(o, "video", 0)
               n == StartIdx(o)
               w == p.interleaved_packets
    <3>1. Premature(o) = 0
      BY <1>2, <1>3, <2>2, PrematureCuts
    <3>2. p = DiscardTo(o, n)
      BY <3>1 DEF Prune
    <3> HIDE DEF p
    <3>3. Near(q, v)
      BY <1>1, <1>2, <2>2, <3>2, EarlyNear
    <3> QED  BY <1>2, <3>2, <3>3, NearMeets
  <2> QED  BY <2>1, <2>2
<1> HIDE DEF p
<1>5. Meets(DiscardTo(p, StartIdx(p)))
  BY <1>1, <1>4, NearMeets
<1> QED  BY <1>5 DEF Beginning, p

\* By the offsets both streams begin at their first packets.
Sync(o, h) ==
    /\ Stamped(h, MovedBy(o))
    /\ \A a \in AudioTracks :
          Distance(MovedBy(o)[<<"video", 0>>] - PtsDelay, MovedBy(o)[<<"audio", a>>])
            <= LongestInterval + Priming

\* So they are when the streams start.
LEMMA StartsInSync ==
    ASSUME OneVideo, OneAudio, NEW o, NEW d, Fresh(o, d), Receives(o), Ready(o)
    PROVE  Sync(Started(o), <<>>)
<1> DEFINE b == Beginning(o)
           m == SetOffsets(b)
           r == Started(o)
           q == b.interleaved_packets
           v == FirstOf(b, "video", 0)
<1>1. /\ Fresh(b, d) /\ HaveAll(b) /\ Receives(b) /\ r = Resort(m) /\ Meets(b)
  BY ReadyBegins, BeginningMeets
<1> HIDE DEF b, r
<1>2. /\ m \in Outputs /\ r.offsets = m.offsets
  BY <1>1, OffsetsStart
<1>3. MovedBy(r) = MovedBy(m)
  BY <1>2 DEF MovedBy
<1>4. Stamped(<<>>, MovedBy(r))
  BY EmptySeq DEF Stamped
<1>5. PICK c \in AudioOf(q) : /\ \A i \in AudioOf(q) : c <= i
                              /\ Distance(Origin(q[c]), q[v].dts_usec) <= LongestInterval + Priming
  BY <1>1 DEF Meets
<1>6. ASSUME NEW a \in AudioTracks
      PROVE  Distance(MovedBy(m)[<<"video", 0>>] - PtsDelay, MovedBy(m)[<<"audio", a>>])
               <= LongestInterval + Priming
  <2> DEFINE s == <<"audio", a>>
             t == <<"video", 0>>
             f == FirstOf(b, s[1], s[2])
             g == FirstOf(b, t[1], t[2])
  <2>1. s \in Streams /\ t \in Streams /\ s[1] = "audio" /\ t[1] = "video" /\ g = v
    BY StreamParts DEF OneVideo
  <2>2. /\ f \in 1 .. Len(q) /\ q[f] \in Packets /\ StreamOf(q[f]) = s
        /\ \A i \in 1 .. Len(q) : StreamOf(q[i]) = s => f <= i
        /\ q[f].dts \in Int /\ q[f].dts >= -Priming /\ q[f].dts_usec = Base[s] + q[f].dts
    BY <1>1, <2>1, FirstFresh
  <2>3. q[g].dts \in Int /\ q[g].dts_usec = Base[t] + q[g].dts
    BY <1>1, <2>1, FirstFresh
  <2>4. m.offsets[s] = IF q[f].dts > 0 THEN q[f].dts ELSE 0
    BY <1>1, <2>1, OffsetOf
  <2>5. m.offsets[t] = q[g].dts + PtsDelay
    BY <1>1, <2>1, OffsetOf
  <2>6. MovedBy(m)[s] = Base[s] + m.offsets[s] /\ MovedBy(m)[t] = Base[t] + m.offsets[t]
        /\ Base[s] \in Nat /\ Base[t] \in Nat /\ PtsDelay \in Nat
    BY <1>2, <2>1, MovedByType, BaseType, InterleaveAssumption
  <2>7. f = c
    <3>1. Len(q) \in Nat /\ c \in 1 .. Len(q) /\ q[c] \in Packets
      BY <1>1, OutputFields DEF Fresh, AudioOf
    <3>2. f \in AudioOf(q)
      BY <2>2, StreamOfParts DEF AudioOf
    <3>3. StreamOf(q[c]) = s
      <4>1. q[c].type = "audio" /\ q[c].track_idx \in AudioTracks
        BY <3>1, StreamOfParts DEF AudioOf
      <4> QED  BY <4>1 DEF OneAudio, StreamOf
    <3>4. c <= f /\ f <= c
      BY <1>5, <2>2, <3>1, <3>2, <3>3
    <3> HIDE DEF f
    <3> QED  BY <2>2, <3>1, <3>4
  <2> HIDE DEF s, t, f, g, m, q, v
  <2>8. MovedBy(m)[s] = Origin(q[c])
    BY <2>2, <2>4, <2>6, <2>7 DEF Origin
  <2>9. MovedBy(m)[t] - PtsDelay = q[v].dts_usec
    BY <2>1, <2>3, <2>5, <2>6
  <2>10. Distance(MovedBy(m)[t] - PtsDelay, MovedBy(m)[s]) <= LongestInterval + Priming
    <3>1. Origin(q[c]) \in Int /\ q[v].dts_usec \in Int
      BY <2>1, <2>2, <2>3, <2>6, <2>7 DEF Origin
    <3> QED  BY <1>5, <2>8, <2>9, <3>1 DEF Distance
  <2> QED  BY <2>10 DEF s, t
<1> HIDE DEF m
<1>7. Sync(r, <<>>)
  BY <1>3, <1>4, <1>6 DEF Sync
<1> QED  BY <1>7 DEF r

\* Sending leaves the offsets, by which the packets of the queue are stamped.
LEMMA SendKeepsSync ==
    ASSUME NEW o, NEW h, NEW d, Running(o, h, d), Sync(o, h),
           NEW n \in 0 .. Len(o.interleaved_packets)
    PROVE  Sync(DiscardTo(o, n), h \o SubSeq(o.interleaved_packets, 1, n))
<1> DEFINE q == o.interleaved_packets
           r == DiscardTo(o, n)
           l == SubSeq(q, 1, n)
           c == h \o l
<1>1. /\ SameButQueue(o, r) /\ l \in Seq(Packets) /\ Len(l) = n
      /\ \A i \in 1 .. n : l[i] = q[i]
  BY SendKeepsRunning
<1>2. MovedBy(r) = MovedBy(o)
  BY <1>1 DEF SameButQueue, MovedBy
<1>3. /\ h \in Seq(Packets) /\ Len(h) \in Nat /\ Len(q) \in Nat
      /\ Stamped(q, MovedBy(o)) /\ Stamped(h, MovedBy(o))
  BY LenProperties, OutputFields DEF Running, Sync
<1>4. /\ Len(c) = Len(h) + Len(l)
      /\ \A i \in 1 .. Len(h) + Len(l) : c[i] = IF i <= Len(h) THEN h[i] ELSE l[i - Len(h)]
  <2> HIDE DEF q, l, r
  <2> QED  BY <1>1, <1>3, ConcatProperties
<1> HIDE DEF q, l, r
<1> HIDE DEF c
<1>5. Stamped(c, MovedBy(o))
  <2> SUFFICES ASSUME NEW i \in 1 .. Len(c)
               PROVE  c[i].dts_usec = c[i].sys_dts_usec - MovedBy(o)[StreamOf(c[i])]
    BY DEF Stamped
  <2>1. n \in 0 .. Len(q) /\ i \in 1 .. Len(h) + n
    BY <1>1, <1>4 DEF q
  <2>2. CASE i <= Len(h)
    <3>1. i \in 1 .. Len(h) /\ c[i] = h[i]
      BY <1>1, <1>3, <1>4, <2>1, <2>2
    <3> QED  BY <1>3, <3>1 DEF Stamped
  <2>3. CASE i > Len(h)
    <3>1. i - Len(h) \in 1 .. n /\ i - Len(h) \in 1 .. Len(q) /\ c[i] = l[i - Len(h)]
      BY <1>1, <1>3, <1>4, <2>1, <2>3
    <3>2. c[i] = q[i - Len(h)]
      BY <1>1, <3>1
    <3> QED  BY <1>3, <3>1, <3>2 DEF Stamped
  <2> QED  BY <1>3, <2>1, <2>2, <2>3
<1>6. Sync(r, c)
  BY <1>2, <1>5 DEF Sync
<1> QED  BY <1>6 DEF r, c, l, q

SyncInv == Running(output, sent, dts) => Sync(output, sent)

\* Every step keeps them so.
LEMMA SyncNext ==
    ASSUME OneVideo, OneAudio, Steady, SyncInv, [Next]_vars
    PROVE  SyncInv'
<1> SUFFICES ASSUME Running(output', sent', dts')
             PROVE  Sync(output', sent')
  BY DEF SyncInv
<1>1. ~ Collecting(output', sent', dts')
  BY DEF Collecting, Running
<1>2. CASE Starts
  <2>1. PICK o : /\ Fresh(o, dts') /\ Receives(o) /\ Ready(o)
                 /\ output' = DiscardTo(Started(o), 1)
                 /\ sent' = <<>> \o SubSeq(Started(o).interleaved_packets, 1, 1)
    BY <1>2 DEF Starts
  <2> DEFINE r == Started(o)
  <2>2. /\ Running(r, <<>>, dts') /\ 1 \in 0 .. Len(r.interleaved_packets)
        /\ Sync(r, <<>>)
    BY <2>1, StartsRunning, StartsInSync
  <2>3. output' = DiscardTo(r, 1) /\ sent' = <<>> \o SubSeq(r.interleaved_packets, 1, 1)
    BY <2>1
  <2> HIDE DEF r
  <2> QED  BY <2>2, <2>3, SendKeepsSync
<1>3. CASE GoesOn
  <2>1. PICK s \in Streams, keyframe \in BOOLEAN :
           LET out == ApplyOffset(output, PacketOf(dts, s, keyframe))
               r   == SetHigher(InsertPacket(output, out), out)
           IN  /\ Running(output, sent, dts) /\ dts' = After(dts, s)
               /\ output' = DiscardTo(r, ToSend(r))
               /\ sent' = sent \o SubSeq(r.interleaved_packets, 1, ToSend(r))
    BY <1>3 DEF GoesOn
  <2> DEFINE out == ApplyOffset(output, PacketOf(dts, s, keyframe))
             r   == SetHigher(InsertPacket(output, out), out)
             q   == r.interleaved_packets
  <2>2. Running(r, sent, dts') /\ r.offsets = output.offsets
    BY <2>1, RunningInserted
  <2>3. output' = DiscardTo(r, ToSend(r)) /\ sent' = sent \o SubSeq(q, 1, ToSend(r))
    BY <2>1
  <2> HIDE DEF r
  <2>4. Sync(r, sent)
    <3>1. MovedBy(r) = MovedBy(output)
      BY <2>2 DEF MovedBy
    <3> QED  BY <2>1, <3>1 DEF SyncInv, Sync
  <2>5. ToSend(r) \in 0 .. Len(q)
    BY <2>2, ToSendCounts DEF Steady, Running
  <2> QED  BY <2>2, <2>3, <2>4, <2>5, SendKeepsSync
<1>4. CASE UNCHANGED <<output, sent, dts>>
  <2>1. Running(output, sent, dts)
    BY <1>4
  <2> QED  BY <1>4, <2>1 DEF SyncInv
<1> QED  BY <1>1, <1>2, <1>3, <1>4, StepCases

\* Packets of the two streams then keep the distance of their capture.
LEMMA SyncKeeps == ASSUME OneVideo, OneAudio, Steady, SyncInv PROVE KeepsDistance
<1>1. CASE Collecting(output, sent, dts)
  <2>1. DOMAIN sent = {}
    BY <1>1 DEF Collecting
  <2> QED  BY <2>1 DEF KeepsDistance
<1>2. CASE Running(output, sent, dts)
  <2> DEFINE m == MovedBy(output)
             t == <<"video", 0>>
  <2>1. /\ sent \in Seq(Packets) /\ output \in Outputs /\ Stamped(sent, m)
        /\ \A a \in AudioTracks : Distance(m[t] - PtsDelay, m[<<"audio", a>>])
                                     <= LongestInterval + Priming
    BY <1>2 DEF SyncInv, Sync, Running
  <2>2. m \in Times /\ LongestInterval \in Nat /\ PtsDelay \in Nat /\ Priming \in Nat
    BY <2>1, MovedByType, LongestIs, InterleaveAssumption
  <2> HIDE DEF m
  <2>3. PICK a \in AudioTracks : TRUE
    BY InterleaveAssumption
  <2> DEFINE s == <<"audio", a>>
  <2>4. s \in Streams /\ t \in Streams
    BY StreamParts DEF OneVideo
  <2>5. m[s] \in Int /\ m[t] \in Int
    BY <2>2, <2>4 DEF Times
  <2>6. Distance(m[t] - PtsDelay, m[s]) <= LongestInterval + Priming
    BY <2>1
  <2>7. ASSUME NEW i \in DOMAIN sent
        PROVE  /\ sent[i].dts_usec \in Int /\ sent[i].sys_dts_usec \in Int
               /\ \/ /\ Shown(sent[i]) = sent[i].dts_usec + PtsDelay
                     /\ sent[i].dts_usec = sent[i].sys_dts_usec - m[t]
                  \/ /\ Shown(sent[i]) = sent[i].dts_usec
                     /\ sent[i].dts_usec = sent[i].sys_dts_usec - m[s]
    <3> DEFINE p == sent[i]
    <3>1. i \in 1 .. Len(sent) /\ p \in Packets
      BY <2>1, ElementOfSeq
    <3>2. p.dts_usec = p.sys_dts_usec - m[StreamOf(p)]
      BY <2>1, <3>1 DEF Stamped
    <3> HIDE DEF p
    <3>3. p.dts_usec \in Int /\ p.sys_dts_usec \in Int /\ p.type \in {"video", "audio"}
      BY <3>1, PacketFields
    <3>4. CASE p.type = "video"
      <4>1. StreamOf(p) = t
        BY <3>1, <3>4, StreamOfParts DEF OneVideo, StreamOf
      <4>2. Shown(p) = p.dts_usec + PtsDelay
        BY <3>4 DEF Shown
      <4> QED  BY <3>2, <3>3, <4>1, <4>2 DEF p
    <3>5. CASE p.type = "audio"
      <4>1. p.track_idx = a
        BY <2>3, <3>1, <3>5, StreamOfParts DEF OneAudio
      <4>2. StreamOf(p) = s
        BY <3>5, <4>1 DEF StreamOf
      <4>3. Shown(p) = p.dts_usec
        BY <3>3, <3>5 DEF Shown
      <4> QED  BY <3>2, <3>3, <4>2, <4>3 DEF p
    <3> QED  BY <3>3, <3>4, <3>5
  <2> HIDE DEF s, t
  <2>8. ASSUME NEW i \in DOMAIN sent, NEW j \in DOMAIN sent
        PROVE  Drift(i, j) <= LongestInterval + Priming
    <3> DEFINE x == Shown(sent[i])
               y == Shown(sent[j])
               u == sent[i].sys_dts_usec
               w == sent[j].sys_dts_usec
    <3>1. u \in Int /\ w \in Int
      BY <2>7
    <3>2. x = u - m[t] + PtsDelay \/ x = u - m[s]
      BY <2>2, <2>5, <2>7
    <3>3. y = w - m[t] + PtsDelay \/ y = w - m[s]
      BY <2>2, <2>5, <2>7
    <3> HIDE DEF x, y, u, w
    <3>4. Distance(x - y, u - w) <= LongestInterval + Priming
      BY <2>2, <2>5, <2>6, <3>1, <3>2, <3>3 DEF Distance
    <3> QED  BY <3>4 DEF x, y, u, w, Drift
  <2> QED  BY <2>8 DEF KeepsDistance
<1> QED  BY <1>1, <1>2 DEF Steady

\* What is shown and heard together was captured together, up to one packet, the
\* longest of the encoders, and the priming that the audio begins with.
THEOREM ShownTogether == ASSUME OneVideo, OneAudio PROVE Spec => []KeepsDistance
<1>1. Init => Steady /\ SyncInv
  <2>1. ASSUME Init  PROVE ~ Running(output, sent, dts)
    <3>1. ~ Receives(output)
      BY <2>1, InterleaveAssumption DEF Init, ResetPacketData, Receives
    <3> QED  BY <3>1 DEF Running
  <2> QED  BY <2>1, SteadyInit DEF SyncInv
<1>2. Steady /\ SyncInv /\ [Next]_vars => (Steady /\ SyncInv)'
  BY SteadyNext, SyncNext
<1>3. Steady /\ SyncInv => KeepsDistance
  BY SyncKeeps
<1> QED  BY <1>1, <1>2, <1>3, PTL DEF Spec
=============================================================================
