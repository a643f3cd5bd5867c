---------------------------- MODULE VideoIO_proofs ----------------------------
(***************************************************************************)
(* Proofs about the frame cache of the video output, for every size of the *)
(* cache, set of inputs and bound on the clock.                            *)
(***************************************************************************)
EXTENDS VideoIO, SumTheorems, SequenceTheorems, TLAPS

-----------------------------------------------------------------------------
(* The inductive invariant.                                                *)

\* The slot filled last lies d slots behind the front of the ring.
LastAt(d) == \/ last_added = first_added + d
             \/ last_added = first_added + d - CacheSize

\* The frames fill the ring from its front to the slot filled last, which is
\* the slot behind them while a frame is copied into it.
RingOK ==
    /\ gpc = "idle" /\ Used = 0 => last_added = first_added
    /\ gpc = "idle" /\ Used > 0 => LastAt(Used - 1)
    /\ gpc = "locked" => available_frames > 0 /\ LastAt(Used)

\* Each frame in the ring has one wake-up: still in the semaphore, or taken by
\* the video thread and not yet used up.  The wake-up of a stop has none.
SemOK ==
    /\ ~stop => update_semaphore
                 + (IF vpc \in {"awake", "loop", "input", "again"} THEN 1 ELSE 0)
                 = Used
    /\ vpc = "input" => Used > 0 /\ slot = first_added
    /\ mpc # "running" => stop

\* A frame stands for at least one interval until its slot is free.
CountOK ==
    /\ \A s \in Queued : cache[s].count > 0
    /\ gpc = "locked" => cache[last_added].count > 0

IInv == TypeOK /\ RingOK /\ SemOK /\ CountOK

-----------------------------------------------------------------------------
(* Facts about the ring and the array of inputs.                           *)

\* Following a slot is a slot.
LEMMA NextSlotType == \A s \in Slots : NextSlot(s) \in Slots
  BY CacheSizeAssumption DEF NextSlot, Slots

\* Repeating a frame adds to its intervals and moves nothing else.
LEMMA RepeatType ==
    ASSUME NEW f \in Frame, NEW n \in Nat
    PROVE  /\ Repeat(f, n) \in Frame
           /\ Repeat(f, n).timestamp = f.timestamp
           /\ Repeat(f, n).count = f.count + n
  BY DEF Repeat, Frame

\* The new counter is a counter.
LEMMA NextCounterType ==
    ASSUME NEW p \in Inputs, NEW n \in Nat
    PROVE  NextCounter(p, n) \in Nat
  BY DEF NextCounter

\* Erasing an element of the array leaves an array of inputs.
LEMMA WithoutInputType ==
    ASSUME inputs \in Seq([param : Inputs, counter : Nat]),
           NEW k \in 1 .. Len(inputs)
    PROVE  WithoutInput(k) \in Seq([param : Inputs, counter : Nat])
<1> DEFINE R == [param : Inputs, counter : Nat]
<1>1. Len(inputs) - 1 \in Nat
  BY LenProperties
<1>2. ASSUME NEW j \in 1 .. Len(inputs) - 1
      PROVE  (IF j < k THEN inputs[j] ELSE inputs[j + 1]) \in R
  <2>1. j \in 1 .. Len(inputs) /\ j + 1 \in 1 .. Len(inputs)
    BY LenProperties
  <2> QED  BY <2>1, ElementOfSeq
<1>3. WithoutInput(k) \in [1 .. Len(inputs) - 1 -> R]
  BY <1>2 DEF WithoutInput
<1> QED  BY <1>1, <1>3, SeqDef

\* Serving an input leaves an array of inputs.
LEMMA ServedType ==
    ASSUME inputs \in Seq([param : Inputs, counter : Nat]),
           NEW k \in 1 .. Len(inputs)
    PROVE  [inputs EXCEPT ![k].counter = NextCounter(inputs[k].param, @)]
                \in Seq([param : Inputs, counter : Nat])
<1> DEFINE R == [param : Inputs, counter : Nat]
           e == [inputs[k] EXCEPT !.counter =
                    NextCounter(inputs[k].param, inputs[k].counter)]
<1>1. inputs[k] \in R
  BY ElementOfSeq
<1>2. NextCounter(inputs[k].param, inputs[k].counter) \in Nat
  BY <1>1, NextCounterType
<1>3. e \in R
  BY <1>1, <1>2
<1>4. [inputs EXCEPT ![k] = e] \in Seq(R)
  BY <1>3, ExceptSeq
<1> QED  BY <1>4

-----------------------------------------------------------------------------
(* The inductive invariant holds.                                          *)

\* The invariant holds at first,
LEMMA InitIInv == Init => IInv
<1> SUFFICES ASSUME Init PROVE IInv
  OBVIOUS
<1> USE CacheSizeAssumption DEF Init
<1>1. TypeOK
  <2>1. inputs \in Seq([param : Inputs, counter : Nat])
    BY EmptySeq
  <2>2. cache \in [Slots -> Frame] /\ joined \in [Inputs -> Int]
    BY DEF NoFrame, Frame
  <2>3. 0 \in Slots /\ CacheSize \in 0..CacheSize
    BY DEF Slots
  <2>4. index \in Nat \ {0} /\ shown \in Int
    OBVIOUS
  <2> QED  BY <2>1, <2>2, <2>3, <2>4 DEF TypeOK
<1>2. RingOK /\ SemOK /\ CountOK
  BY DEF RingOK, SemOK, CountOK, Used, Queued, Slots, Distance
<1> QED  BY <1>1, <1>2 DEF IInv

\* The graphics thread repeats the newest frame.
LEMMA RepeatLastIInv ==
    ASSUME IInv, NEW count \in 1..MaxCount, RepeatLast(count)
    PROVE  IInv'
<1> USE CacheSizeAssumption, MaxCountAssumption
    DEF RepeatLast, ring, stats, vthread
<1> DEFINE f == Repeat(cache[last_added], count)
<1>0. /\ cache[last_added] \in Frame /\ f \in Frame
      /\ f.count = cache[last_added].count + count
      /\ cache' = [cache EXCEPT ![last_added] = f]
  <2>1. count \in Nat /\ cache[last_added] \in Frame
    BY DEF IInv, TypeOK
  <2>2. cache' = [cache EXCEPT ![last_added] = f]
    OBVIOUS
  <2> QED  BY <2>1, <2>2, RepeatType
<1> HIDE DEF f
<1>1. cache' \in [Slots -> Frame] /\ video_time' \in Nat /\ duplicated' \in Int
  BY <1>0 DEF IInv, TypeOK
<1>2. TypeOK'
  BY <1>1 DEF IInv, TypeOK, Slots
<1>3. RingOK' /\ SemOK'
  BY DEF IInv, RingOK, SemOK, LastAt, Used
<1>4. CountOK'
  <2>1. Queued' = Queued
    BY DEF Queued, Used, Distance, Slots
  <2>2. last_added \in Queued
    BY DEF IInv, TypeOK, Queued, Used, Distance, Slots
  <2>3. ASSUME NEW s \in Queued  PROVE cache'[s].count > 0
    BY <1>0, <2>2 DEF IInv, TypeOK, CountOK, Queued, Frame
  <2> QED  BY <2>1, <2>3 DEF CountOK
<1> QED  BY <1>2, <1>3, <1>4 DEF IInv

\* The graphics thread claims a slot.
LEMMA LockFrameIInv ==
    ASSUME IInv, NEW count \in 1..MaxCount, LockFrame(count)
    PROVE  IInv'
<1> USE CacheSizeAssumption, MaxCountAssumption
    DEF LockFrame, ring, stats, vthread
<1>1. ClaimedSlot \in Slots /\ ClaimedSlot = last_added'
  BY NextSlotType DEF IInv, TypeOK, ClaimedSlot
<1>2. cache' \in [Slots -> Frame] /\ video_time' \in Nat
  BY <1>1 DEF IInv, TypeOK, Frame
<1>3. TypeOK'
  BY <1>1, <1>2 DEF IInv, TypeOK, Slots
<1>4. RingOK' /\ SemOK'
  BY DEF IInv, TypeOK, RingOK, SemOK, LastAt, Used, ClaimedSlot, NextSlot, Slots
<1>5. CountOK'
  BY <1>1 DEF IInv, TypeOK, CountOK, Queued, Used, Distance, Frame, Slots
<1> QED  BY <1>3, <1>4, <1>5 DEF IInv

\* The graphics thread publishes the slot.
LEMMA UnlockFrameIInv ==
    ASSUME IInv, UnlockFrame
    PROVE  IInv'
<1> USE CacheSizeAssumption DEF UnlockFrame, stats, vthread
<1>1. TypeOK'
  BY DEF IInv, TypeOK, RingOK, Slots
<1>2. RingOK' /\ SemOK'
  BY DEF IInv, TypeOK, RingOK, SemOK, LastAt, Used, Slots
<1>3. CountOK'
  BY DEF IInv, TypeOK, RingOK, LastAt, CountOK, Queued, Used, Distance, Slots
<1> QED  BY <1>1, <1>2, <1>3 DEF IInv

\* The steps of the video thread that leave the ring alone.
LEMMA VideoThreadIInv ==
    ASSUME IInv, SemWait \/ TestStop \/ LeaveLoop \/ TakeFrame \/ CountFrame
    PROVE  IInv'
<1> USE CacheSizeAssumption DEF ring, stats, vthread
<1>1. TypeOK'
  <2>1. CASE SemWait  BY <2>1 DEF SemWait, IInv, TypeOK, Slots
  <2>2. CASE TestStop  BY <2>2 DEF TestStop, IInv, TypeOK, Slots
  <2>3. CASE LeaveLoop  BY <2>3 DEF LeaveLoop, IInv, TypeOK, Slots
  <2>4. CASE TakeFrame
    <3>1. cache[first_added].timestamp \in Int
      BY DEF IInv, TypeOK, Frame
    <3> QED  BY <2>4, <3>1 DEF TakeFrame, IInv, TypeOK, Slots
  <2>5. CASE CountFrame  BY <2>5 DEF CountFrame, IInv, TypeOK, Slots
  <2> QED  BY <2>1, <2>2, <2>3, <2>4, <2>5
<1>2. RingOK' /\ CountOK'
  BY DEF SemWait, TestStop, LeaveLoop, TakeFrame, CountFrame, IInv, RingOK,
         CountOK, LastAt, Used, Queued, Distance, Slots
<1>3. SemOK'
  <2> USE DEF IInv, TypeOK, SemOK, Used
  <2>1. CASE SemWait  BY <2>1 DEF SemWait
  <2>2. CASE TestStop  BY <2>2 DEF TestStop
  <2>3. CASE LeaveLoop  BY <2>3 DEF LeaveLoop
  <2>4. CASE TakeFrame  BY <2>4 DEF TakeFrame
  <2>5. CASE CountFrame  BY <2>5 DEF CountFrame
  <2> QED  BY <2>1, <2>2, <2>3, <2>4, <2>5
<1> QED  BY <1>1, <1>2, <1>3 DEF IInv

\* The video thread finishes one interval of the frame at the front.
LEMMA FinishFrameIInv ==
    ASSUME IInv, FinishFrame
    PROVE  IInv'
<1> USE CacheSizeAssumption DEF FinishFrame, stats
<1>1. slot = first_added /\ slot \in Slots /\ Used > 0 /\ vpc = "input"
  BY DEF IInv, TypeOK, SemOK
<1> DEFINE left == cache[slot].count - 1
<1>2. /\ cache' \in [Slots -> Frame] /\ skipped_frames' \in Int
      /\ left \in Int /\ cache'[slot].count = left
      /\ \A s \in Slots \ {slot} : cache'[s] = cache[s]
  <2>1. cache[slot] \in Frame /\ left \in Int
    BY <1>1 DEF IInv, TypeOK, Frame
  <2> DEFINE f == [timestamp |-> cache[slot].timestamp + 1,
                   count |-> left,
                   skipped |-> IF left # 0 /\ cache[slot].skipped > 0
                               THEN cache[slot].skipped - 1
                               ELSE cache[slot].skipped]
  <2>2. f \in Frame /\ f.count = left
    BY <2>1 DEF Frame
  <2>3. cache' = [cache EXCEPT ![slot] = f]
    OBVIOUS
  <2>4. skipped_frames' \in Int
    BY <2>1 DEF IInv, TypeOK, Frame
  <2> QED  BY <1>1, <2>1, <2>2, <2>3, <2>4 DEF IInv, TypeOK
<1>3. TypeOK'
  BY <1>1, <1>2, NextSlotType DEF IInv, TypeOK, Used, NewestAfterFree
<1>4. RingOK' /\ SemOK'
  <2> USE DEF IInv, TypeOK, RingOK, SemOK, LastAt, Used, Slots
  <2>1. CASE left = 0
    <3>1. /\ first_added' = NextSlot(first_added) /\ vpc' = "counted"
          /\ available_frames' = available_frames + 1
          /\ last_added' = NewestAfterFree
          /\ UNCHANGED <<update_semaphore, stop, gpc, mpc>>
      BY <2>1
    <3> HIDE DEF FinishFrame
    <3>2. RingOK'
      BY <1>1, <3>1 DEF NextSlot, NewestAfterFree
    <3>3. SemOK'
      BY <1>1, <3>1
    <3> QED  BY <3>2, <3>3
  <2>2. CASE left # 0
    BY <1>1, <2>2
  <2> QED  BY <2>1, <2>2
<1>5. CountOK'
  <2>1. CASE left = 0
    <3>1. first_added' = NextSlot(first_added) /\ Used' = Used - 1
      BY <2>1, <1>1 DEF IInv, TypeOK, Used
    <3>2. \A s \in Queued' : s \in Queued /\ s # slot
      BY <3>1, <1>1 DEF IInv, TypeOK, Queued, Used, Distance, NextSlot, Slots
    <3>3. gpc = "locked" => last_added' = last_added /\ last_added # slot
      BY <1>1, <3>1 DEF IInv, TypeOK, RingOK, LastAt, NewestAfterFree, Used, Slots, NextSlot
    <3> QED  BY <1>2, <3>2, <3>3 DEF IInv, TypeOK, CountOK, Queued
  <2>2. CASE left # 0
    <3>1. Queued' = Queued /\ last_added' = last_added /\ slot \in Queued
      BY <2>2, <1>1 DEF IInv, TypeOK, Queued, Used, Distance, Slots
    <3>2. left > 0
      <4>1. cache[slot].count > 0 /\ cache[slot].count \in Int
        BY <3>1, <1>1 DEF IInv, TypeOK, CountOK, Frame
      <4> QED  BY <2>2, <4>1
    <3> QED  BY <1>2, <3>1, <3>2 DEF IInv, TypeOK, CountOK, Queued
  <2> QED  BY <2>1, <2>2
<1> QED  BY <1>3, <1>4, <1>5 DEF IInv

\* The steps that change the inputs.
LEMMA InputsIInv ==
    ASSUME IInv,
           \/ ServeInput
           \/ \E p \in Inputs : Connect(p)
           \/ \E k \in 1..Len(inputs) : Disconnect(k)
    PROVE  IInv'
<1> DEFINE R == [param : Inputs, counter : Nat]
<1> USE CacheSizeAssumption DEF ring, stats, vthread
<1>1. RingOK' /\ SemOK' /\ CountOK'
  BY DEF ServeInput, Connect, Disconnect, IInv, RingOK, SemOK, CountOK, LastAt,
         Used, Queued, Distance, Slots
<1>2. inputs \in Seq(R) /\ Len(inputs) \in Nat /\ shown \in Int
  BY LenProperties DEF IInv, TypeOK
<1>3. TypeOK'
  <2>1. CASE ServeInput
    <3>1. index \in 1 .. Len(inputs) /\ index + 1 \in Nat \ {0}
      <4>1. index \in Nat \ {0} /\ index <= Len(inputs)
        BY <2>1 DEF ServeInput, IInv, TypeOK
      <4> QED  BY <4>1, <1>2
    <3>2. inputs' \in Seq(R)
      BY <2>1, <3>1, <1>2, ServedType, WithoutInputType DEF ServeInput
    <3> QED  BY <2>1, <3>1, <3>2 DEF ServeInput, IInv, TypeOK, Slots
  <2>2. ASSUME NEW p \in Inputs, Connect(p)  PROVE TypeOK'
    <3>1. [param |-> p, counter |-> 0] \in R
      OBVIOUS
    <3>2. inputs' \in Seq(R)
      BY <2>2, <3>1, <1>2 DEF Connect
    <3>3. joined' \in [Inputs -> Int]
      BY <2>2, <1>2 DEF Connect, IInv, TypeOK
    <3>4. skipped_frames' \in Int /\ total_frames' \in Nat /\ duplicated' \in Int
      BY <2>2 DEF Connect, IInv, TypeOK
    <3> QED  BY <2>2, <3>2, <3>3, <3>4 DEF Connect, IInv, TypeOK, Slots
  <2>3. ASSUME NEW k \in 1..Len(inputs), Disconnect(k)  PROVE TypeOK'
    <3>1. inputs' \in Seq(R)
      BY <2>3, <1>2, WithoutInputType DEF Disconnect
    <3> QED  BY <2>3, <3>1 DEF Disconnect, IInv, TypeOK, Slots
  <2> QED  BY <2>1, <2>2, <2>3
<1> QED  BY <1>1, <1>3 DEF IInv

\* The output is stopped.
LEMMA StopOutputIInv ==
    ASSUME IInv, StopOutput
    PROVE  IInv'
<1> USE CacheSizeAssumption DEF StopOutput, Stop, ring, stats, vthread
<1>1. TypeOK'
  <2>1. update_semaphore' \in Nat
    BY DEF IInv, TypeOK
  <2>2. stop' \in BOOLEAN
    BY DEF IInv, TypeOK
  <2>3. mpc' \in {"running", "flagged", "joining", "joined"}
    BY DEF IInv, TypeOK
  <2> QED  BY <2>1, <2>2, <2>3 DEF IInv, TypeOK, Slots
<1>2. RingOK' /\ SemOK' /\ CountOK'
  BY DEF IInv, TypeOK, RingOK, SemOK, CountOK, LastAt, Used, Queued, Distance,
         Slots
<1> QED  BY <1>1, <1>2 DEF IInv

LEMMA StutterIInv == IInv /\ UNCHANGED vars => IInv'
  BY DEF IInv, TypeOK, RingOK, SemOK, CountOK, LastAt, Used, Queued, Distance,
         Slots, vars, ring, stats, vthread

\* every step keeps it,
LEMMA NextIInv == IInv /\ [Next]_vars => IInv'
<1> SUFFICES ASSUME IInv, [Next]_vars  PROVE IInv'
  OBVIOUS
<1>1. CASE GraphicsThread
  BY <1>1, RepeatLastIInv, LockFrameIInv, UnlockFrameIInv DEF GraphicsThread
<1>2. CASE VideoThread
  BY <1>2, VideoThreadIInv, InputsIInv, FinishFrameIInv DEF VideoThread
<1>3. CASE (\E p \in Inputs : Connect(p)) \/ (\E k \in 1..Len(inputs) : Disconnect(k))
  BY <1>3, InputsIInv
<1>4. CASE StopOutput
  BY <1>4, StopOutputIInv
<1>5. CASE UNCHANGED vars
  BY <1>5, StutterIInv
<1> QED  BY <1>1, <1>2, <1>3, <1>4, <1>5 DEF Next

\* so it always holds.
LEMMA InvariantIInv == Spec => []IInv
<1>1. Init => IInv
  BY InitIInv
<1>2. IInv /\ [Next]_vars => IInv'
  BY NextIInv
<1> QED  BY <1>1, <1>2, PTL DEF Spec

-----------------------------------------------------------------------------
(* What follows from it.                                                   *)

\* Every variable keeps its type; above all the number of free slots stays
\* between none and all, though neither thread tests it before changing it.
THEOREM TypeCorrect == Spec => []TypeOK
<1>1. IInv => TypeOK
  BY DEF IInv
<1> QED  BY <1>1, InvariantIInv, PTL

\* The graphics thread never copies into a slot the video thread reads or has
\* still to read, although both do so outside data_mutex.
THEOREM CopyIsSafe == Spec => []NoTornFrame
<1>1. IInv => NoTornFrame
  BY CacheSizeAssumption
     DEF IInv, TypeOK, RingOK, LastAt, NoTornFrame, Queued, Used, Distance, Slots
<1> QED  BY <1>1, InvariantIInv, PTL

\* The video thread always finds a frame where it looks for one.
THEOREM AlwaysAFrame == Spec => []NeverServesEmptySlot
<1>1. IInv => NeverServesEmptySlot
  <2> SUFFICES ASSUME IInv  PROVE NeverServesEmptySlot
    OBVIOUS
  <2>1. vpc \in {"loop", "input", "again"} /\ ~stop => Used > 0
    BY CacheSizeAssumption DEF IInv, TypeOK, SemOK, Used
  <2>2. vpc = "input" => slot = first_added /\ slot \in Queued
    BY CacheSizeAssumption
       DEF IInv, TypeOK, SemOK, Queued, Used, Distance, Slots
  <2> QED  BY <2>1, <2>2 DEF IInv, CountOK, NeverServesEmptySlot
<1> QED  BY <1>1, InvariantIInv, PTL

-----------------------------------------------------------------------------
(* The timeline.                                                           *)

\* The first interval after those the frame in slot s still stands for.
End(s) == cache[s].timestamp + cache[s].count

\* The timeline is unbroken, no frame in it reaches beyond the horizon, and the
\* one being copied is its continuation up to the clock.
TimeOK ==
    /\ Unbroken
    /\ \A s \in Queued : End(s) <= Horizon
    /\ gpc = "locked" => End(last_added) = video_time
                          /\ cache[last_added].count \in 1..MaxCount

\* A step that touches neither the ring, the clock nor what was shown.
LEMMA SameTimeOK ==
    ASSUME IInv, TimeOK, UNCHANGED <<ring, gpc, video_time, shown>>,
           (vpc = "input") = (vpc' = "input")
    PROVE  TimeOK'
  BY DEF TimeOK, Unbroken, Queued, Used, Distance, Horizon, End, NextSlot, ring,
         Slots

\* The facts of the invariants, in the form the steps use them.
LEMMA QueuedFacts ==
    ASSUME IInv
    PROVE  /\ CacheSize \in Nat \ {0} /\ Used \in 0..CacheSize
           /\ first_added \in Slots /\ last_added \in Slots
           /\ shown \in Int /\ video_time \in Int /\ Horizon \in Int
           /\ \A s \in Slots : /\ cache[s].timestamp \in Int
                               /\ cache[s].count \in Int
                               /\ cache[s] \in Frame
                               /\ End(s) \in Int
                               /\ NextSlot(s) \in Slots
                               /\ Distance(s) \in 0 .. CacheSize - 1
<1>1. \A s \in Slots : cache[s] \in Frame
  BY DEF IInv, TypeOK
<1>2. \A s \in Slots : cache[s].timestamp \in Int /\ cache[s].count \in Int
  BY <1>1 DEF Frame
<1>3. \A s \in Slots : NextSlot(s) \in Slots
  BY NextSlotType
<1>4. \A s \in Slots : Distance(s) \in 0 .. CacheSize - 1
  BY CacheSizeAssumption DEF Distance, Slots, IInv, TypeOK
<1> QED
  BY <1>1, <1>2, <1>3, <1>4, CacheSizeAssumption
     DEF IInv, TypeOK, Used, Horizon, End

\* Repeating the newest frame moves its end along with the clock.
LEMMA RepeatLastTimeOK ==
    ASSUME IInv, TimeOK, NEW count \in 1..MaxCount, RepeatLast(count)
    PROVE  TimeOK'
<1> DEFINE L == last_added
<1>1. /\ count \in Nat /\ gpc = "idle" /\ available_frames = 0 /\ Used = CacheSize
      /\ cache' = [cache EXCEPT ![L] = Repeat(cache[L], count)]
      /\ UNCHANGED <<available_frames, first_added, last_added, gpc, vpc, shown>>
      /\ video_time' = video_time + count
  BY MaxCountAssumption, CacheSizeAssumption DEF RepeatLast, vthread, Used
<1>2. /\ \A s \in Slots \ {L} : cache'[s] = cache[s]
      /\ cache'[L].timestamp = cache[L].timestamp
      /\ cache'[L].count = cache[L].count + count
  BY <1>1, QueuedFacts, RepeatType DEF IInv, TypeOK
<1>3. /\ \A s \in Slots : cache'[s].timestamp = cache[s].timestamp
      /\ \A s \in Slots \ {L} : End(s)' = End(s)
      /\ End(L)' = End(L) + count
  <2>1. L \in Slots /\ cache[L].timestamp \in Int /\ cache[L].count \in Int
    BY QueuedFacts
  <2> QED  BY <1>1, <1>2, <2>1 DEF End
<1>4. /\ Horizon' = Horizon + count /\ Horizon = video_time
      /\ Queued' = Queued /\ Used' = Used
      /\ \A s \in Slots : Distance(s)' = Distance(s)
  BY <1>1 DEF Horizon, Queued, Used, Distance
<1>5. \A s \in Slots : Distance(s) + 1 = Used <=> s = L
  <2>1. L = first_added + CacheSize - 1 \/ L = first_added - 1
    BY <1>1, CacheSizeAssumption DEF IInv, TypeOK, RingOK, LastAt, Slots
  <2> QED
    BY <1>1, <2>1, CacheSizeAssumption DEF IInv, TypeOK, Distance, Slots
<1>6. Unbroken'
  <2>1. \A s \in Queued :
          End(s) = IF Distance(s) + 1 = Used THEN Horizon
                                             ELSE cache[NextSlot(s)].timestamp
    BY DEF TimeOK, Unbroken, End
  <2>2. \A s \in Queued :
          End(s)' = IF Distance(s) + 1 = Used THEN Horizon'
                                              ELSE cache'[NextSlot(s)].timestamp
    <3> SUFFICES ASSUME NEW s \in Queued
                 PROVE  End(s)' = IF Distance(s) + 1 = Used THEN Horizon'
                                              ELSE cache'[NextSlot(s)].timestamp
      OBVIOUS
    <3>1. s \in Slots /\ NextSlot(s) \in Slots
      BY QueuedFacts DEF Queued
    <3>2. CASE s = L
      <4>1. Distance(s) + 1 = Used
        BY <3>1, <3>2, <1>5
      <4>2. End(s) = Horizon
        BY <4>1, <2>1
      <4>3. End(L) = Horizon
        BY <3>2, <4>2
      <4>4. End(L)' = Horizon'
        BY <4>3, <1>3, <1>4
      <4>5. End(s)' = End(L)'
        BY <3>2, <1>1 DEF End
      <4> QED  BY <4>1, <4>4, <4>5
    <3>3. CASE s # L  BY <3>1, <3>3, <2>1, <1>3, <1>5
    <3> QED  BY <3>2, <3>3
  <2>3. first_added \in Slots /\ Used > 0
    BY CacheSizeAssumption, <1>1 DEF IInv, TypeOK
  <2>4. cache'[first_added].timestamp = cache[first_added].timestamp
    BY <2>3, <1>3
  <2>5. \A s \in Queued' :
          End(s)' = IF Distance(s)' + 1 = Used' THEN Horizon'
                                                ELSE cache'[NextSlot(s)].timestamp
    BY <2>2, <1>4 DEF Queued
  <2> HIDE DEF L
  <2> QED  BY <2>3, <2>4, <2>5, <1>1, <1>4 DEF TimeOK, Unbroken, End, NextSlot
<1>7. \A s \in Queued : End(s)' <= Horizon'
  BY <1>1, <1>3, <1>4, QueuedFacts DEF TimeOK, Queued
<1> QED  BY <1>1, <1>4, <1>6, <1>7 DEF TimeOK

\* Claiming a slot changes no queued frame and moves no horizon.
LEMMA LockFrameTimeOK ==
    ASSUME IInv, TimeOK, NEW count \in 1..MaxCount, LockFrame(count)
    PROVE  TimeOK'
<1> DEFINE L == ClaimedSlot
<1>1. /\ count \in Nat /\ gpc = "idle" /\ gpc' = "locked"
      /\ last_added' = L
      /\ cache' = [cache EXCEPT ![L] =
                     [timestamp |-> video_time, count |-> count, skipped |-> 0]]
      /\ UNCHANGED <<available_frames, first_added, vpc, shown>>
      /\ video_time' = video_time + count
  BY MaxCountAssumption DEF LockFrame, vthread
<1>2. L \in Slots /\ L \notin Queued
  <2>1. L \in Slots
    BY NextSlotType DEF ClaimedSlot, IInv, TypeOK
  <2>2. Used < CacheSize
    BY CacheSizeAssumption DEF LockFrame, IInv, TypeOK, Used
  <2>3. L \notin Queued
    BY <1>1, <2>2, CacheSizeAssumption
       DEF ClaimedSlot, NextSlot, IInv, TypeOK, RingOK, LastAt, Queued, Used,
           Distance, Slots
  <2> QED  BY <2>1, <2>3
<1> HIDE DEF L
<1>3. /\ \A s \in Queued : cache'[s] = cache[s] /\ End(s)' = End(s)
      /\ cache'[L] = [timestamp |-> video_time, count |-> count, skipped |-> 0]
  <2>1. cache \in [Slots -> Frame] /\ Queued \subseteq Slots
    BY DEF IInv, TypeOK, Queued
  <2> QED  BY <1>1, <1>2, <2>1 DEF End
<1>4. Horizon' = Horizon /\ Horizon = video_time
  BY <1>1, <1>3 DEF Horizon
<1>5. Queued' = Queued /\ Used' = Used /\ (\A s \in Slots : Distance(s)' = Distance(s))
  BY <1>1 DEF Queued, Used, Distance
<1>6. Unbroken'
  <2>1. Used > 0 => first_added \in Queued
    BY CacheSizeAssumption DEF IInv, TypeOK, Queued, Used, Distance, Slots
  <2>2. ASSUME NEW s \in Queued, Distance(s) + 1 # Used
        PROVE  NextSlot(s) \in Queued
    BY <2>2, CacheSizeAssumption
       DEF IInv, TypeOK, Queued, Used, Distance, NextSlot, Slots
  <2>3. \A s \in Queued' :
          End(s)' = IF Distance(s)' + 1 = Used' THEN Horizon'
                                                ELSE cache'[NextSlot(s)].timestamp
    <3> SUFFICES ASSUME NEW s \in Queued
                 PROVE  End(s)' = IF Distance(s) + 1 = Used
                                  THEN Horizon' ELSE cache'[NextSlot(s)].timestamp
      BY <1>5 DEF Queued
    <3>1. End(s) = IF Distance(s) + 1 = Used THEN Horizon
                                             ELSE cache[NextSlot(s)].timestamp
      BY DEF TimeOK, Unbroken, End
    <3> QED  BY <3>1, <2>2, <1>3, <1>4
  <2>4. Used' > 0 => cache'[first_added].timestamp = cache[first_added].timestamp
    BY <2>1, <1>3, <1>5
  <2> QED  BY <2>3, <2>4, <1>1, <1>4, <1>5 DEF TimeOK, Unbroken, End, NextSlot
<1>7. \A s \in Queued' : End(s)' <= Horizon'
  BY <1>3, <1>4, <1>5 DEF TimeOK
<1>8. /\ cache'[last_added'].timestamp + cache'[last_added'].count = video_time'
      /\ cache'[last_added'].count \in 1..MaxCount
  BY <1>1, <1>3
<1> QED  BY <1>1, <1>6, <1>7, <1>8 DEF TimeOK, End

\* Publishing a slot moves the horizon to its end.
LEMMA UnlockFrameTimeOK ==
    ASSUME IInv, TimeOK, UnlockFrame
    PROVE  TimeOK'
<1> DEFINE L == last_added
<1>1. /\ gpc = "locked" /\ gpc' = "idle" /\ available_frames' = available_frames - 1
      /\ UNCHANGED <<cache, first_added, last_added, video_time, vpc, shown>>
  BY DEF UnlockFrame, vthread
<1>2. Horizon = cache[L].timestamp /\ Horizon' = video_time /\ End(L) = Horizon'
      /\ Horizon \in Int /\ Horizon' \in Int /\ Horizon <= Horizon'
  <2>1. /\ cache[L].timestamp \in Int /\ cache[L].count \in Int /\ video_time \in Int
        /\ cache[L].count > 0
    BY <1>1, QueuedFacts DEF IInv, CountOK
  <2> QED  BY <1>1, <2>1 DEF Horizon, TimeOK, End
<1>3. Used' = Used + 1 /\ Used \in Nat /\ L \in Slots
  BY <1>1, CacheSizeAssumption DEF Used, IInv, TypeOK
<1>4. \A s \in Slots : Distance(s) = Used <=> s = L
  BY <1>1, CacheSizeAssumption
     DEF IInv, TypeOK, RingOK, LastAt, Used, Distance, Slots
<1>5. /\ \A s \in Slots : Distance(s)' = Distance(s) /\ End(s)' = End(s)
      /\ Queued' = Queued \cup {L}
  <2>1. \A s \in Slots : Distance(s)' = Distance(s) /\ End(s)' = End(s)
    BY <1>1 DEF Distance, End
  <2>2. \A s \in Slots : Distance(s) < Used + 1 <=> Distance(s) < Used \/ s = L
    BY <1>3, <1>4, QueuedFacts
  <2> QED  BY <2>1, <2>2, <1>3 DEF Queued
<1>6. Unbroken'
  <2>1. ASSUME NEW s \in Queued'
        PROVE  End(s)' = IF Distance(s)' + 1 = Used'
                         THEN Horizon' ELSE cache'[NextSlot(s)].timestamp
    <3>0. s \in Slots /\ Distance(s) \in Int /\ Distance(s)' = Distance(s) /\ End(s)' = End(s)
      BY <2>1, <1>5, QueuedFacts DEF Queued
    <3>1. CASE s = L
      BY <3>0, <3>1, <1>2, <1>3, <1>4
    <3>2. CASE s # L
      <4>1. s \in Queued /\ Distance(s) # Used
        BY <3>0, <3>2, <1>4, <1>5
      <4>2. End(s) = IF Distance(s) + 1 = Used THEN Horizon
                                               ELSE cache[NextSlot(s)].timestamp
        BY <4>1 DEF TimeOK, Unbroken, End
      <4>3. Distance(s) + 1 = Used => NextSlot(s) = L
        BY <3>0, <1>1, CacheSizeAssumption
           DEF IInv, TypeOK, RingOK, LastAt, Used, Distance, NextSlot, Slots
      <4> QED  BY <3>0, <4>1, <4>2, <4>3, <1>1, <1>2, <1>3
    <3> QED  BY <3>1, <3>2
  <2>2. cache[first_added].timestamp = IF vpc = "input" THEN shown ELSE shown + 1
    <3>1. CASE Used = 0
      <4>1. first_added = L /\ vpc # "input"
        BY <3>1, <1>1, CacheSizeAssumption DEF IInv, TypeOK, RingOK, LastAt, SemOK, Slots
      <4> QED  BY <3>1, <4>1, <1>2 DEF TimeOK, Unbroken
    <3>2. CASE Used > 0
      BY <3>2 DEF TimeOK, Unbroken
    <3> QED  BY <3>1, <3>2, <1>3
  <2> QED  BY <2>1, <2>2, <1>1, <1>3 DEF Unbroken, End, NextSlot
<1>7. \A s \in Queued' : End(s)' <= Horizon'
  <2> SUFFICES ASSUME NEW s \in Queued' PROVE End(s) <= Horizon'
    BY <1>5 DEF Queued
  <2>1. s \in Slots /\ End(s) \in Int
    BY QueuedFacts DEF Queued
  <2>2. CASE s = L  BY <2>2, <1>2
  <2>3. CASE s # L
    <3>1. End(s) <= Horizon
      BY <2>3, <1>5 DEF TimeOK
    <3> QED  BY <3>1, <2>1, <1>2
  <2> QED  BY <2>2, <2>3
<1> QED  BY <1>1, <1>6, <1>7 DEF TimeOK

\* Taking a frame shows the interval after the one shown last.
LEMMA TakeFrameTimeOK ==
    ASSUME IInv, TimeOK, TakeFrame
    PROVE  TimeOK' /\ Used > 0 /\ shown' = shown + 1
<1>1. /\ vpc = "loop" /\ ~stop /\ vpc' = "input" /\ shown' = cache[first_added].timestamp
      /\ UNCHANGED <<ring, gpc, video_time>>
  BY DEF TakeFrame
<1>2. Used > 0
  BY <1>1, CacheSizeAssumption DEF IInv, TypeOK, SemOK, Used
<1>3. shown' = shown + 1
  BY <1>1, <1>2 DEF TimeOK, Unbroken
<1>4. TimeOK'
  <2>1. Used' = Used /\ Used # 0
    BY <1>1, <1>2 DEF Used, ring
  <2>2. Unbroken'
    BY <1>1, <1>2, <2>1
       DEF TimeOK, Unbroken, Queued, Used, Distance, Horizon, NextSlot, ring, Slots
  <2> QED
    BY <1>1, <2>2 DEF TimeOK, Queued, Used, Distance, Horizon, End, ring, Slots
<1> QED  BY <1>2, <1>3, <1>4

\* The frame being copied is not the one being finished.
LEMMA FinishFrameKeepsCopy ==
    ASSUME IInv, FinishFrame, gpc = "locked"
    PROVE  /\ last_added' = last_added
           /\ cache'[last_added'] = cache[last_added]
<1>1. slot = first_added /\ slot \in Slots /\ Used > 0
  BY DEF FinishFrame, IInv, TypeOK, SemOK
<1>2. /\ last_added = slot + Used \/ last_added = slot + Used - CacheSize
      /\ Used < CacheSize /\ Used = CacheSize - available_frames
      /\ last_added \in Slots
  BY <1>1, CacheSizeAssumption DEF IInv, TypeOK, RingOK, LastAt, Used
<1>3. last_added # slot
  BY <1>1, <1>2, CacheSizeAssumption DEF IInv, TypeOK, Slots
<1>4. NewestAfterFree = last_added
  BY <1>1, <1>2, CacheSizeAssumption
     DEF NewestAfterFree, NextSlot, Slots, IInv, TypeOK
<1>5. last_added' = last_added
  BY <1>4 DEF FinishFrame
<1> QED  BY <1>2, <1>3, <1>5 DEF FinishFrame, IInv, TypeOK

\* Finishing an interval moves the start of the frame at the front, not its end;
\* the last interval of it hands over to the next frame or to the horizon.
LEMMA FinishFrameTimeOK ==
    ASSUME IInv, TimeOK, FinishFrame
    PROVE  TimeOK'
<1> DEFINE F == first_added
           left == cache[F].count - 1
<1>1. /\ slot = F /\ F \in Slots /\ F \in Queued /\ Used > 0 /\ Used \in Int
      /\ vpc = "input" /\ vpc' # "input" /\ left \in Int
      /\ shown \in Int /\ cache[F].timestamp = shown
  <2>1. slot = F /\ Used > 0 /\ vpc = "input" /\ vpc' # "input"
    BY DEF FinishFrame, IInv, SemOK
  <2>2. F \in Slots /\ Used \in Int /\ left \in Int /\ shown \in Int
    BY QueuedFacts
  <2>3. F \in Queued
    BY <2>1, <2>2 DEF Queued, Distance, Slots
  <2> QED  BY <2>1, <2>2, <2>3 DEF TimeOK, Unbroken
<1>2. /\ \A s \in Slots \ {F} : cache'[s] = cache[s]
      /\ cache'[F].timestamp = shown + 1
      /\ cache'[F].count = left
      /\ UNCHANGED <<gpc, video_time, shown>>
      /\ left = 0 => /\ first_added' = NextSlot(F) /\ last_added' = NewestAfterFree
                     /\ available_frames' = available_frames + 1
      /\ left # 0 => UNCHANGED <<first_added, last_added, available_frames>>
  <2> DEFINE f == [timestamp |-> cache[slot].timestamp + 1,
                   count |-> cache[slot].count - 1,
                   skipped |-> IF cache[slot].count - 1 # 0 /\ cache[slot].skipped > 0
                               THEN cache[slot].skipped - 1
                               ELSE cache[slot].skipped]
  <2>1. cache' = [cache EXCEPT ![slot] = f]
    BY DEF FinishFrame
  <2>2. cache'[F] = f /\ \A s \in Slots \ {F} : cache'[s] = cache[s]
    BY <1>1, <2>1 DEF IInv, TypeOK
  <2>3. f.timestamp = shown + 1 /\ f.count = left
    BY <1>1
  <2> HIDE DEF f
  <2>4. /\ UNCHANGED <<gpc, video_time, shown>>
        /\ left = 0 => /\ first_added' = NextSlot(F) /\ last_added' = NewestAfterFree
                       /\ available_frames' = available_frames + 1
        /\ left # 0 => UNCHANGED <<first_added, last_added, available_frames>>
    BY <1>1 DEF FinishFrame
  <2> QED  BY <2>2, <2>3, <2>4
<1>3. \A s \in Slots : End(s)' = End(s)
  <2>1. cache'[F].timestamp + cache'[F].count = cache[F].timestamp + cache[F].count
    BY <1>1, <1>2, QueuedFacts
  <2> QED  BY <1>2, <2>1 DEF End
<1>4. gpc = "locked" => /\ last_added' = last_added
                       /\ cache'[last_added'] = cache[last_added]
  BY FinishFrameKeepsCopy
<1>5. Horizon' = Horizon /\ Horizon \in Int
  BY <1>2, <1>4, QueuedFacts DEF Horizon
<1>6. gpc' = "locked" => /\ cache'[last_added'] = cache[last_added]
                        /\ cache'[last_added'].timestamp + cache'[last_added'].count = video_time'
                        /\ cache'[last_added'].count \in 1..MaxCount
  BY <1>2, <1>4, QueuedFacts DEF TimeOK, End
<1>7. \A s \in Queued :
        End(s) = IF Distance(s) + 1 = Used THEN Horizon
                                           ELSE cache[NextSlot(s)].timestamp
  BY DEF TimeOK, Unbroken, End
<1>8. CASE left # 0
  <2>1. Queued' = Queued /\ Used' = Used /\ \A s \in Slots : Distance(s)' = Distance(s)
    BY <1>2, <1>8 DEF Queued, Used, Distance
  <2>2. ASSUME NEW s \in Queued, Distance(s) + 1 # Used
        PROVE  NextSlot(s) \in Slots \ {F}
    BY <2>2, <1>1, CacheSizeAssumption
       DEF IInv, TypeOK, Queued, Used, Distance, NextSlot, Slots
  <2>3. \A s \in Queued :
          End(s)' = IF Distance(s) + 1 = Used THEN Horizon'
                                              ELSE cache'[NextSlot(s)].timestamp
    BY <1>2, <1>3, <1>5, <1>7, <2>2 DEF Queued
  <2>4. Unbroken'
    BY <1>1, <1>2, <1>8, <2>1, <2>3 DEF Unbroken, End, NextSlot, Queued
  <2>5. \A s \in Queued' : End(s)' <= Horizon'
    BY <1>3, <1>5, <2>1 DEF TimeOK, Queued
  <2> QED  BY <1>6, <2>4, <2>5 DEF TimeOK, End
<1>9. CASE left = 0
  <2>1. /\ first_added' = NextSlot(F) /\ Used' = Used - 1
        /\ NextSlot(F) \in Slots /\ End(F) = shown + 1
    BY <1>1, <1>2, <1>9, NextSlotType, CacheSizeAssumption
       DEF IInv, TypeOK, Used, End
  <2>2. \A s \in Slots : Distance(s)' = IF s = F THEN CacheSize - 1
                                               ELSE Distance(s) - 1
    BY <1>1, <2>1, CacheSizeAssumption DEF Distance, NextSlot, Slots
  <2>3. Queued' = Queued \ {F}
    <3>1. Used <= CacheSize
      BY CacheSizeAssumption DEF IInv, TypeOK, Used
    <3> QED  BY <1>1, <2>1, <2>2, <3>1, QueuedFacts DEF Queued
  <2>4. ASSUME NEW s \in Queued, Distance(s) + 1 # Used
        PROVE  NextSlot(s) \in Slots \ {F}
    BY <2>4, <1>1, CacheSizeAssumption
       DEF IInv, TypeOK, Queued, Used, Distance, NextSlot, Slots
  <2>5. ASSUME NEW s \in Queued'
        PROVE  End(s)' = IF Distance(s)' + 1 = Used'
                         THEN Horizon' ELSE cache'[NextSlot(s)].timestamp
    <3>1. s \in Queued /\ s \in Slots \ {F} /\ Distance(s) \in Int
      BY <2>3, <2>5, QueuedFacts DEF Queued
    <3>2. Distance(s)' + 1 = Used' <=> Distance(s) + 1 = Used
      BY <3>1, <2>1, <2>2, <1>1
    <3> QED  BY <3>1, <3>2, <2>4, <1>2, <1>3, <1>5, <1>7
  <2>6. Distance(F) = 0
    BY <1>1 DEF Distance, Slots
  <2>7. Used' = 0 => shown' + 1 = Horizon'
    BY <1>1, <1>2, <1>5, <1>7, <2>1, <2>6
  <2>8. Used' > 0 => cache'[first_added'].timestamp = shown' + 1
    BY <1>1, <1>2, <1>7, <2>1, <2>4, <2>6
  <2>9. Unbroken'
    BY <1>1, <2>5, <2>7, <2>8 DEF Unbroken, End, NextSlot
  <2>10. \A s \in Queued' : End(s)' <= Horizon'
    BY <1>3, <1>5, <2>3 DEF TimeOK, Queued
  <2> QED  BY <1>6, <2>9, <2>10 DEF TimeOK, End
<1> QED  BY <1>8, <1>9

\* The clock is right at first,
LEMMA InitTimeOK == Init => TimeOK
  BY CacheSizeAssumption
     DEF Init, TimeOK, Unbroken, Used, Queued, Distance, Horizon, End, Slots

\* and after every step.
LEMMA NextTimeOK == IInv /\ TimeOK /\ [Next]_vars => TimeOK'
<1> SUFFICES ASSUME IInv, TimeOK, [Next]_vars  PROVE TimeOK'
  OBVIOUS
<1>1. CASE GraphicsThread
  BY <1>1, RepeatLastTimeOK, LockFrameTimeOK, UnlockFrameTimeOK DEF GraphicsThread
<1>2. CASE TakeFrame \/ FinishFrame
  BY <1>2, TakeFrameTimeOK, FinishFrameTimeOK
<1>3. CASE \/ SemWait \/ TestStop \/ LeaveLoop \/ ServeInput \/ CountFrame
           \/ (\E p \in Inputs : Connect(p))
           \/ (\E k \in 1..Len(inputs) : Disconnect(k))
           \/ StopOutput \/ UNCHANGED vars
  <2>1. UNCHANGED <<ring, gpc, video_time, shown>>
    BY <1>3 DEF SemWait, TestStop, LeaveLoop, ServeInput, CountFrame, Connect,
                Disconnect, StopOutput, vars, vthread
  <2>2. (vpc = "input") = (vpc' = "input")
    BY <1>3 DEF SemWait, TestStop, LeaveLoop, ServeInput, CountFrame, Connect,
                Disconnect, StopOutput, vars, vthread
  <2> QED  BY <2>1, <2>2, SameTimeOK
<1> QED  BY <1>1, <1>2, <1>3 DEF Next, VideoThread

\* The frames that wait for the video thread are one unbroken timeline from the
\* interval shown last to the clock.
THEOREM TimelineUnbroken == Spec => []Unbroken
<1>1. Init => TimeOK
  BY InitTimeOK
<1>2. IInv /\ TimeOK /\ [Next]_vars => TimeOK'
  BY NextTimeOK
<1>3. TimeOK => Unbroken
  BY DEF TimeOK
<1> QED  BY <1>1, <1>2, <1>3, InvariantIInv, PTL DEF Spec

-----------------------------------------------------------------------------
(* Skips.                                                                  *)

\* Every lost interval is reported once, and a frame that is still being copied
\* has none to report.
SkipOK ==
    /\ SkipsReportedOnce
    /\ gpc = "locked" => cache[last_added].skipped = 0

\* The skips each slot has to report.
Skips == [s \in Slots |-> cache[s].skipped]

LEMMA SkipFacts ==
    ASSUME IInv
    PROVE  /\ IsFiniteSet(Slots) /\ IsFiniteSet(Queued) /\ Queued \subseteq Slots
           /\ \A s \in Slots : Skips[s] = cache[s].skipped /\ Skips[s] \in Int
           /\ PendingSkips = SumFunctionOnSet(Skips, Queued) /\ PendingSkips \in Int
           /\ skipped_frames \in Int /\ duplicated \in Int
<1>1. IsFiniteSet(Slots)
  <2>1. CacheSize - 1 \in Int
    BY CacheSizeAssumption
  <2> QED  BY <2>1, FS_Interval DEF Slots
<1>2. Queued \subseteq Slots
  BY DEF Queued
<1>3. IsFiniteSet(Queued)
  BY <1>1, <1>2, FS_Subset
<1>4. \A s \in Slots : Skips[s] = cache[s].skipped /\ Skips[s] \in Int
  <2>1. \A f \in Frame : f.skipped \in Int
    BY DEF Frame
  <2> QED  BY <2>1, QueuedFacts DEF Skips
<1>5. PendingSkips = SumFunctionOnSet(Skips, Queued)
  BY DEF PendingSkips, Skips
<1>6. PendingSkips \in Int
  <2>1. \A s \in Queued : Skips[s] \in Int
    BY <1>2, <1>4
  <2> HIDE DEF Skips
  <2> QED  BY <1>3, <1>5, <2>1, SumType, Zenon
<1> QED  BY <1>1, <1>2, <1>3, <1>4, <1>5, <1>6 DEF IInv, TypeOK

\* The slots in use after a step of the ring.
LEMMA RepeatedSlot ==
    ASSUME IInv, NEW count \in 1..MaxCount, RepeatLast(count)
    PROVE  Queued' = Queued /\ last_added \in Queued
<1> USE CacheSizeAssumption DEF RepeatLast
<1>1. Queued' = Queued
  BY DEF Queued, Used, Distance, Slots
<1>2. last_added \in Queued
  BY DEF IInv, TypeOK, Queued, Used, Distance, Slots
<1> QED  BY <1>1, <1>2

LEMMA ClaimedIsFree ==
    ASSUME IInv, NEW count \in 1..MaxCount, LockFrame(count)
    PROVE  ClaimedSlot \in Slots /\ ClaimedSlot \notin Queued
<1>1. ClaimedSlot \in Slots
  BY NextSlotType DEF ClaimedSlot, IInv, TypeOK
<1>2. Used < CacheSize /\ gpc = "idle"
  BY CacheSizeAssumption DEF LockFrame, IInv, TypeOK, Used
<1>3. ClaimedSlot \notin Queued
  BY <1>2, CacheSizeAssumption
     DEF ClaimedSlot, NextSlot, IInv, TypeOK, RingOK, LastAt, Queued, Used, Distance, Slots
<1> QED  BY <1>1, <1>3

LEMMA PublishedSlot ==
    ASSUME IInv, UnlockFrame
    PROVE  /\ Queued' = Queued \cup {last_added}
           /\ last_added \in Slots /\ last_added \notin Queued
<1>1. /\ gpc = "locked" /\ available_frames' = available_frames - 1
      /\ UNCHANGED first_added
  BY DEF UnlockFrame
<1>2. Used' = Used + 1 /\ Used \in Nat /\ last_added \in Slots
  BY <1>1, CacheSizeAssumption DEF Used, IInv, TypeOK
<1>3. \A s \in Slots : Distance(s) = Used <=> s = last_added
  BY <1>1, CacheSizeAssumption
     DEF IInv, TypeOK, RingOK, LastAt, Used, Distance, Slots
<1>4. \A s \in Slots : Distance(s)' = Distance(s) /\ Distance(s) \in Int
  BY <1>1, QueuedFacts DEF Distance
<1>5. \A s \in Slots : Distance(s) < Used + 1 <=> Distance(s) < Used \/ s = last_added
  BY <1>2, <1>3, <1>4
<1> QED  BY <1>2, <1>3, <1>4, <1>5 DEF Queued

LEMMA FinishedSlot ==
    ASSUME IInv, FinishFrame
    PROVE  /\ slot \in Queued /\ slot \in Slots
           /\ Queued' = IF cache[slot].count = 1 THEN Queued \ {slot} ELSE Queued
<1>1. /\ slot = first_added /\ slot \in Slots /\ Used > 0 /\ Used \in Int
      /\ Used <= CacheSize /\ cache[slot].count \in Int
  BY QueuedFacts DEF FinishFrame, IInv, TypeOK, SemOK
<1>2. slot \in Queued
  BY <1>1 DEF Queued, Distance, Slots
<1>3. CASE cache[slot].count = 1
  <2>1. first_added' = NextSlot(first_added) /\ available_frames' = available_frames + 1
    BY <1>3 DEF FinishFrame
  <2>2. Used' = Used - 1
    BY <2>1, CacheSizeAssumption DEF IInv, TypeOK, Used
  <2>3. \A s \in Slots : Distance(s)' = IF s = slot THEN CacheSize - 1 ELSE Distance(s) - 1
    BY <1>1, <2>1, CacheSizeAssumption DEF Distance, NextSlot, Slots
  <2>4. Queued' = Queued \ {slot}
    BY <1>1, <2>2, <2>3, QueuedFacts DEF Queued
  <2> QED  BY <1>1, <1>2, <1>3, <2>4
<1>4. CASE cache[slot].count # 1
  <2>1. UNCHANGED <<first_added, available_frames>>
    BY <1>1, <1>4 DEF FinishFrame
  <2>2. Queued' = Queued
    BY <2>1 DEF Queued, Used, Distance
  <2> QED  BY <1>1, <1>2, <1>4, <2>2
<1> QED  BY <1>3, <1>4

\* The counts are right at first,
LEMMA InitSkipOK == Init => SkipOK
<1> SUFFICES ASSUME Init  PROVE SkipOK
  OBVIOUS
<1>1. Queued = {}
  BY CacheSizeAssumption DEF Init, Queued, Used, Distance, Slots
<1>2. PendingSkips = 0
  BY <1>1, SumOverNothing DEF PendingSkips
<1> QED  BY <1>1, <1>2 DEF Init, SkipOK, SkipsReportedOnce

\* A step that touches neither the frames, nor the slots in use, nor the counters.
LEMMA SameSkipOK ==
    ASSUME SkipOK, Queued' = Queued,
           UNCHANGED <<cache, last_added, gpc, skipped_frames, duplicated>>
    PROVE  SkipOK'
<1>1. PendingSkips' = PendingSkips
  BY DEF PendingSkips
<1> QED  BY <1>1 DEF SkipOK, SkipsReportedOnce

\* Repeating a frame notes as many skips as intervals are lost.
LEMMA RepeatLastSkipOK ==
    ASSUME IInv, SkipOK, NEW count \in 1..MaxCount, RepeatLast(count)
    PROVE  SkipOK'
<1> DEFINE L == last_added
<1>1. /\ count \in Nat /\ gpc' = "idle" /\ L \in Queued /\ Queued' = Queued
      /\ cache' = [cache EXCEPT ![L] = Repeat(cache[L], count)]
      /\ skipped_frames' = skipped_frames /\ duplicated' = duplicated + count
  <2>1. L \in Queued /\ Queued' = Queued
    BY RepeatedSlot
  <2>2. count \in Nat
    BY MaxCountAssumption
  <2> QED  BY <2>1, <2>2 DEF RepeatLast
<1>2. /\ IsFiniteSet(Queued) /\ Queued \subseteq Slots
      /\ \A s \in Slots : Skips[s] = cache[s].skipped /\ Skips[s] \in Int
      /\ PendingSkips = SumFunctionOnSet(Skips, Queued) /\ PendingSkips \in Int
      /\ skipped_frames \in Int /\ duplicated \in Int
  BY SkipFacts
<1>3. /\ \A s \in Slots \ {L} : cache'[s] = cache[s]
      /\ cache'[L].skipped = cache[L].skipped + count
      /\ cache'[L].count = cache[L].count + count
      /\ cache[L].count \in Int
  <2>1. L \in Slots /\ cache \in [Slots -> Frame]
    BY DEF IInv, TypeOK
  <2>2. /\ Repeat(cache[L], count).skipped = cache[L].skipped + count
        /\ Repeat(cache[L], count).count = cache[L].count + count
    BY DEF Repeat
  <2> QED  BY <1>1, <2>1, <2>2, QueuedFacts
<1>4. /\ PendingSkips' = SumFunctionOnSet(Skips', Queued)
      /\ \A s \in Slots : Skips'[s] = cache'[s].skipped
  BY <1>1 DEF PendingSkips, Skips, Slots
<1>5. /\ \A s \in Queued : Skips[s] \in Int
      /\ Skips'[L] \in Int /\ Skips'[L] = Skips[L] + count /\ Skips[L] \in Int
      /\ \A s \in Queued \ {L} : Skips'[s] = Skips[s]
  BY <1>1, <1>2, <1>3, <1>4
<1> HIDE DEF Skips
<1>6. SumFunctionOnSet(Skips', Queued)
            = SumFunctionOnSet(Skips, Queued) + Skips'[L] - Skips[L]
  <2> DEFINE g == Skips'
  <2>1. /\ IsFiniteSet(Queued) /\ L \in Queued
        /\ \A s \in Queued : Skips[s] \in Int
        /\ g[L] \in Int
        /\ \A s \in Queued \ {L} : g[s] = Skips[s]
    BY <1>1, <1>2, <1>5
  <2> HIDE DEF g
  <2>2. SumFunctionOnSet(g, Queued) = SumFunctionOnSet(Skips, Queued) + g[L] - Skips[L]
    BY <2>1, SumChanged, Zenon
  <2> QED  BY <2>2 DEF g
<1>7. PendingSkips' = PendingSkips + count
  BY <1>1, <1>2, <1>4, <1>5, <1>6
<1>8. \A s \in Queued' : 0 <= cache'[s].skipped /\ cache'[s].skipped < cache'[s].count
  <2>1. \A s \in Queued : 0 <= cache[s].skipped /\ cache[s].skipped < cache[s].count
    BY DEF SkipOK, SkipsReportedOnce
  <2>2. cache[L].skipped \in Int
    BY <1>1, <1>2
  <2>3. 0 <= cache'[L].skipped /\ cache'[L].skipped < cache'[L].count
    BY <1>1, <1>3, <2>1, <2>2
  <2> QED  BY <1>1, <1>2, <1>3, <2>1, <2>3
<1> QED  BY <1>1, <1>2, <1>7, <1>8 DEF SkipOK, SkipsReportedOnce

\* A slot that is claimed is not in use, and has nothing to report.
LEMMA LockFrameSkipOK ==
    ASSUME IInv, SkipOK, NEW count \in 1..MaxCount, LockFrame(count)
    PROVE  SkipOK'
<1> DEFINE f == [timestamp |-> video_time, count |-> count, skipped |-> 0]
<1>1. /\ ClaimedSlot \in Slots /\ ClaimedSlot \notin Queued
      /\ last_added' = ClaimedSlot /\ cache' = [cache EXCEPT ![ClaimedSlot] = f]
      /\ UNCHANGED <<skipped_frames, duplicated, available_frames, first_added>>
  BY ClaimedIsFree DEF LockFrame, stats
<1>2. Queued' = Queued /\ Queued \subseteq Slots /\ IsFiniteSet(Queued)
  BY <1>1, SkipFacts DEF Queued, Used, Distance
<1>3. cache'[ClaimedSlot].skipped = 0 /\ \A s \in Queued : cache'[s] = cache[s]
  <2>1. cache \in [Slots -> Frame] /\ f.skipped = 0
    BY DEF IInv, TypeOK
  <2> QED  BY <1>1, <1>2, <2>1
<1>4. PendingSkips' = PendingSkips
  <2>1. /\ \A s \in Queued : Skips'[s] = Skips[s]
        /\ PendingSkips' = SumFunctionOnSet(Skips', Queued)
        /\ PendingSkips = SumFunctionOnSet(Skips, Queued)
    BY <1>2, <1>3 DEF PendingSkips, Skips, Slots
  <2> HIDE DEF Skips
  <2> QED  BY <1>2, <2>1, SumAgree
<1> QED  BY <1>1, <1>2, <1>3, <1>4 DEF SkipOK, SkipsReportedOnce

\* A frame joins those in use with nothing to report.
LEMMA UnlockFrameSkipOK ==
    ASSUME IInv, SkipOK, UnlockFrame
    PROVE  SkipOK'
<1> DEFINE L == last_added
<1>1. /\ Queued' = Queued \cup {L} /\ L \in Slots /\ L \notin Queued
      /\ gpc = "locked" /\ gpc' = "idle"
      /\ UNCHANGED <<cache, skipped_frames, duplicated>>
  BY PublishedSlot DEF UnlockFrame, stats
<1>2. /\ IsFiniteSet(Queued) /\ Queued \subseteq Slots
      /\ \A s \in Slots : Skips[s] = cache[s].skipped /\ Skips[s] \in Int
      /\ PendingSkips = SumFunctionOnSet(Skips, Queued) /\ PendingSkips \in Int
  BY SkipFacts
<1>3. cache[L].skipped = 0 /\ cache[L].count > 0
  BY <1>1 DEF SkipOK, IInv, CountOK
<1>4. PendingSkips' = PendingSkips
  <2>1. PendingSkips' = SumFunctionOnSet(Skips, Queued \cup {L})
    BY <1>1 DEF PendingSkips, Skips, Slots
  <2>2. \A s \in Queued \cup {L} : Skips[s] \in Int
    BY <1>1, <1>2
  <2>3. Skips[L] = 0
    BY <1>1, <1>2, <1>3
  <2> HIDE DEF Skips
  <2>4. SumFunctionOnSet(Skips, Queued \cup {L}) = Skips[L] + SumFunctionOnSet(Skips, Queued)
    BY <1>1, <1>2, <2>2, SumWith, Zenon
  <2> QED  BY <1>2, <2>1, <2>3, <2>4
<1> QED  BY <1>1, <1>3, <1>4 DEF SkipOK, SkipsReportedOnce

\* A frame reports one skip with each interval while it has some, and has none when
\* its slot is freed.
LEMMA FinishFrameSkipOK ==
    ASSUME IInv, SkipOK, FinishFrame
    PROVE  SkipOK'
<1> DEFINE left == cache[slot].count - 1
           dup  == cache[slot].skipped > 0
           f    == [timestamp |-> cache[slot].timestamp + 1,
                    count |-> left,
                    skipped |-> IF left # 0 /\ dup THEN cache[slot].skipped - 1
                                                   ELSE cache[slot].skipped]
<1>1. /\ slot \in Queued /\ slot \in Slots
      /\ Queued' = IF cache[slot].count = 1 THEN Queued \ {slot} ELSE Queued
      /\ cache' = [cache EXCEPT ![slot] = f]
      /\ skipped_frames' = IF left # 0 THEN skipped_frames + (IF dup THEN 1 ELSE 0)
                                       ELSE skipped_frames
      /\ UNCHANGED <<duplicated, gpc>>
  BY FinishedSlot DEF FinishFrame
<1>2. /\ IsFiniteSet(Queued) /\ Queued \subseteq Slots
      /\ \A s \in Slots : Skips[s] = cache[s].skipped /\ Skips[s] \in Int
      /\ PendingSkips = SumFunctionOnSet(Skips, Queued) /\ PendingSkips \in Int
      /\ skipped_frames \in Int /\ duplicated \in Int
  BY SkipFacts
<1>3. /\ \A s \in Slots \ {slot} : cache'[s] = cache[s]
      /\ cache'[slot].count = left
      /\ cache'[slot].skipped = IF left # 0 /\ dup THEN cache[slot].skipped - 1
                                                   ELSE cache[slot].skipped
  <2>1. cache'[slot] = f /\ \A s \in Slots \ {slot} : cache'[s] = cache[s]
    BY <1>1 DEF IInv, TypeOK
  <2> QED  BY <2>1
<1>4. /\ cache[slot].count \in Int /\ cache[slot].skipped \in Int
      /\ 0 <= cache[slot].skipped /\ cache[slot].skipped < cache[slot].count
  BY <1>1, <1>2, QueuedFacts DEF SkipOK, SkipsReportedOnce
<1>5. gpc' = "locked" => cache'[last_added'].skipped = 0
  BY <1>1, FinishFrameKeepsCopy DEF SkipOK
<1>6. /\ PendingSkips' = SumFunctionOnSet(Skips', Queued')
      /\ \A s \in Slots : Skips'[s] = cache'[s].skipped
  BY DEF PendingSkips, Skips, Slots
<1>7. \A s \in Queued : 0 <= cache[s].skipped /\ cache[s].skipped < cache[s].count
  BY DEF SkipOK, SkipsReportedOnce
<1>8. skipped_frames + PendingSkips = duplicated
  BY DEF SkipOK, SkipsReportedOnce
<1> HIDE DEF Skips, f
<1>9. CASE left = 0
  <2>1. Queued' = Queued \ {slot} /\ skipped_frames' = skipped_frames
        /\ cache[slot].skipped = 0
    BY <1>1, <1>4, <1>9
  <2>2. \A s \in Queued' : cache'[s] = cache[s]
    BY <1>2, <1>3, <2>1
  <2>3. PendingSkips' = SumFunctionOnSet(Skips, Queued \ {slot})
    <3>1. IsFiniteSet(Queued \ {slot})
      BY <1>2, FS_Subset
    <3>2. \A s \in Queued \ {slot} : Skips'[s] = Skips[s]
      BY <1>2, <1>6, <2>1, <2>2
    <3> QED  BY <1>6, <2>1, <3>1, <3>2, SumAgree
  <2>4. SumFunctionOnSet(Skips, Queued)
            = Skips[slot] + SumFunctionOnSet(Skips, Queued \ {slot})
    <3>1. \A s \in Queued : Skips[s] \in Int
      BY <1>2
    <3> QED  BY <1>1, <1>2, <3>1, SumWithout, Zenon
  <2>5. SumFunctionOnSet(Skips, Queued \ {slot}) \in Int
    <3>1. IsFiniteSet(Queued \ {slot}) /\ \A s \in Queued \ {slot} : Skips[s] \in Int
      BY <1>2, FS_Subset
    <3> QED  BY <3>1, SumType, Zenon
  <2>6. PendingSkips' = PendingSkips
    BY <1>1, <1>2, <2>1, <2>3, <2>4, <2>5
  <2> QED  BY <1>1, <1>5, <1>7, <1>8, <2>1, <2>2, <2>6 DEF SkipOK, SkipsReportedOnce
<1>10. CASE left # 0
  <2>1. Queued' = Queued /\ skipped_frames' = skipped_frames + (IF dup THEN 1 ELSE 0)
    BY <1>1, <1>4, <1>10
  <2>2. cache'[slot].skipped = cache[slot].skipped - (IF dup THEN 1 ELSE 0)
    BY <1>3, <1>4, <1>10
  <2>3. /\ \A s \in Queued : Skips[s] \in Int
        /\ Skips'[slot] \in Int /\ Skips'[slot] = Skips[slot] - (IF dup THEN 1 ELSE 0)
        /\ Skips[slot] \in Int
        /\ \A s \in Queued \ {slot} : Skips'[s] = Skips[s]
    BY <1>1, <1>2, <1>3, <1>4, <1>6, <2>2
  <2>4. SumFunctionOnSet(Skips', Queued)
            = SumFunctionOnSet(Skips, Queued) + Skips'[slot] - Skips[slot]
    <3> DEFINE g == Skips'
    <3>1. /\ IsFiniteSet(Queued) /\ slot \in Queued
          /\ \A s \in Queued : Skips[s] \in Int
          /\ g[slot] \in Int
          /\ \A s \in Queued \ {slot} : g[s] = Skips[s]
      BY <1>1, <1>2, <2>3
    <3> HIDE DEF g
    <3>2. SumFunctionOnSet(g, Queued)
            = SumFunctionOnSet(Skips, Queued) + g[slot] - Skips[slot]
      BY <3>1, SumChanged, Zenon
    <3> QED  BY <3>2 DEF g
  <2>5. skipped_frames' + PendingSkips' = duplicated'
    BY <1>1, <1>2, <1>6, <1>8, <2>1, <2>3, <2>4
  <2>6. 0 <= cache'[slot].skipped /\ cache'[slot].skipped < cache'[slot].count
    BY <1>3, <1>4, <1>10
  <2>7. \A s \in Queued' : 0 <= cache'[s].skipped /\ cache'[s].skipped < cache'[s].count
    BY <1>2, <1>3, <1>7, <2>1, <2>6
  <2> QED  BY <1>5, <2>5, <2>7 DEF SkipOK, SkipsReportedOnce
<1> QED  BY <1>9, <1>10

\* and after every step.
LEMMA NextSkipOK == IInv /\ SkipOK /\ [Next]_vars => SkipOK'
<1> SUFFICES ASSUME IInv, SkipOK, [Next]_vars  PROVE SkipOK'
  OBVIOUS
<1>1. CASE GraphicsThread
  BY <1>1, RepeatLastSkipOK, LockFrameSkipOK, UnlockFrameSkipOK DEF GraphicsThread
<1>2. CASE FinishFrame
  BY <1>2, FinishFrameSkipOK
<1>3. ASSUME NEW p \in Inputs, Connect(p)
      PROVE  SkipOK'
  <2>1. UNCHANGED <<ring, gpc>>
    BY <1>3 DEF Connect
  <2>2. Queued' = Queued
    BY <2>1 DEF ring, Queued, Used, Distance
  <2>3. CASE UNCHANGED stats
    BY <2>1, <2>2, <2>3, SameSkipOK DEF ring, stats
  <2>4. CASE skipped_frames' = 0 /\ duplicated' = duplicated - skipped_frames
    <3>1. PendingSkips' = PendingSkips
      BY <2>1, <2>2 DEF ring, PendingSkips
    <3>2. skipped_frames + PendingSkips = duplicated
      BY DEF SkipOK, SkipsReportedOnce
    <3>3. skipped_frames' + PendingSkips' = duplicated'
      BY <2>4, <3>1, <3>2, SkipFacts
    <3> QED  BY <2>1, <2>2, <3>3 DEF ring, SkipOK, SkipsReportedOnce
  <2> QED  BY <1>3, <2>3, <2>4 DEF Connect
<1>4. CASE \/ SemWait \/ TestStop \/ LeaveLoop \/ TakeFrame \/ ServeInput \/ CountFrame
           \/ (\E k \in 1..Len(inputs) : Disconnect(k))
           \/ StopOutput \/ UNCHANGED vars
  <2>1. UNCHANGED <<ring, gpc, skipped_frames, duplicated>>
    BY <1>4 DEF SemWait, TestStop, LeaveLoop, TakeFrame, ServeInput, CountFrame,
                Disconnect, StopOutput, vars, stats
  <2>2. Queued' = Queued
    BY <2>1 DEF ring, Queued, Used, Distance
  <2> QED  BY <2>1, <2>2, SameSkipOK DEF ring
<1> QED  BY <1>1, <1>2, <1>3, <1>4 DEF Next, VideoThread

\* Every interval lost to a full cache is counted once in skipped_frames, and no slot
\* is freed with skips it did not report (video_output_lock_frame notes them,
\* video_output_cur_frame reports them), whatever inputs connect in between and reset
\* the counter.
THEOREM SkipsCountedOnce == Spec => []SkipsReportedOnce
<1>1. SkipOK => SkipsReportedOnce
  BY DEF SkipOK
<1> QED  BY <1>1, InitSkipOK, NextSkipOK, InvariantIInv, PTL DEF Spec

-----------------------------------------------------------------------------
(* Cadence.  A callback that takes its own input out of the array makes the *)
(* loop pass over the input after it, which then is one frame late for good *)
(* (the loop index is not adjusted): Cadence is proved for inputs that are  *)
(* disconnected by other threads, or that have no other after them.         *)

\* A number has one quotient and one remainder.
LEMMA Remainder ==
    ASSUME NEW d \in Nat \ {0}, NEW x \in Int, NEW q \in Int, NEW r \in 0 .. d - 1,
           x = d * q + r
    PROVE  x % d = r
<1> DEFINE p == x \div d
           s == x % d
<1>1. p \in Int /\ s \in 0 .. d - 1 /\ x = d * p + s
  OBVIOUS
<1> HIDE DEF p, s
<1>2. \A a, b \in Int : a > b => d * a >= d * b + d
  OBVIOUS
<1>3. \A a \in Int : d * a \in Int
  OBVIOUS
<1>4. ~ (p > q) /\ ~ (q > p)
  <2>1. d * p + s = d * q + r /\ d * p \in Int /\ d * q \in Int
    BY <1>1, <1>3
  <2>2. p > q => d * p >= d * q + d
    BY <1>1, <1>2
  <2>3. q > p => d * q >= d * p + d
    BY <1>1, <1>2
  <2> DEFINE P == d * p
             Q == d * q
  <2>4. /\ P + s = Q + r /\ P \in Int /\ Q \in Int
        /\ p > q => P >= Q + d
        /\ q > p => Q >= P + d
    BY <2>1, <2>2, <2>3
  <2> HIDE DEF P, Q
  <2> QED  BY <1>1, <2>4
<1>5. p = q
  BY <1>1, <1>4
<1>6. s = r
  BY <1>1, <1>3, <1>5
<1> QED  BY <1>6 DEF s

\* The remainder of the number after it.
LEMMA NextRemainder ==
    ASSUME NEW d \in Nat \ {0}, NEW x \in Int
    PROVE  (x + 1) % d = IF (x % d) + 1 = d THEN 0 ELSE (x % d) + 1
<1> DEFINE p == x \div d
           s == x % d
<1>1. p \in Int /\ s \in 0 .. d - 1 /\ x = d * p + s
  OBVIOUS
<1> HIDE DEF p, s
<1>2. d * (p + 1) = d * p + d /\ d * p \in Int
  BY <1>1
<1>3. CASE s + 1 = d
  <2>1. x + 1 = d * (p + 1) + 0
    BY <1>1, <1>2, <1>3
  <2>2. (x + 1) % d = 0
    BY <1>1, <2>1, Remainder
  <2> QED  BY <1>3, <2>2 DEF s
<1>4. CASE s + 1 # d
  <2>1. x + 1 = d * p + (s + 1) /\ s + 1 \in 0 .. d - 1
    BY <1>1, <1>2, <1>4
  <2>2. (x + 1) % d = s + 1
    BY <1>1, <2>1, Remainder
  <2> QED  BY <1>4, <2>2 DEF s
<1> QED  BY <1>3, <1>4

\* No callback takes out an input in front of another.
NoneOvertaken == ~ CallbackMayStop \/ \A p, q \in Inputs : p = q

\* No input is connected twice.
Distinct ==
    \A k, j \in 1 .. Len(inputs) : inputs[k].param = inputs[j].param => k = j

\* The counter of an input, n intervals after it connected.
Due(p, n) == n % Divisor[p]

\* The last interval input k was served or passed over on.
LastServed(k) == IF vpc = "input" /\ k >= index THEN shown - 1 ELSE shown

CadenceOK ==
    /\ Distinct
    /\ \A k \in 1 .. Len(inputs) :
            inputs[k].counter
                = Due(inputs[k].param, LastServed(k) - joined[inputs[k].param])

LEMMA InputFacts ==
    ASSUME IInv
    PROVE  /\ inputs \in Seq([param : Inputs, counter : Nat])
           /\ DOMAIN inputs = 1 .. Len(inputs) /\ Len(inputs) \in Nat
           /\ \A k \in 1 .. Len(inputs) : /\ inputs[k] \in [param : Inputs, counter : Nat]
                                          /\ inputs[k].param \in Inputs
                                          /\ inputs[k].counter \in Nat
           /\ joined \in [Inputs -> Int] /\ shown \in Int /\ index \in Nat \ {0}
<1>1. inputs \in Seq([param : Inputs, counter : Nat])
  BY DEF IInv, TypeOK
<1>2. DOMAIN inputs = 1 .. Len(inputs) /\ Len(inputs) \in Nat
  BY <1>1, LenProperties
<1>3. \A k \in 1 .. Len(inputs) : inputs[k] \in [param : Inputs, counter : Nat]
  BY <1>1, ElementOfSeq
<1> QED  BY <1>1, <1>2, <1>3 DEF IInv, TypeOK

\* The array without one element.
LEMMA WithoutFacts ==
    ASSUME IInv, NEW k \in 1 .. Len(inputs), inputs' = WithoutInput(k)
    PROVE  /\ Len(inputs') = Len(inputs) - 1
           /\ \A j \in 1 .. Len(inputs') :
                inputs'[j] = IF j < k THEN inputs[j] ELSE inputs[j + 1]
<1>1. Len(inputs) - 1 \in Nat
  BY InputFacts
<1>2. inputs' \in Seq([param : Inputs, counter : Nat])
  BY WithoutInputType, InputFacts
<1>3. DOMAIN inputs' = 1 .. Len(inputs) - 1
  BY DEF WithoutInput
<1>4. Len(inputs') = Len(inputs) - 1
  BY <1>1, <1>2, <1>3, LenProperties
<1> QED  BY <1>4 DEF WithoutInput

\* An input that is disconnected leaves the others as they were.
LEMMA WithoutCadence ==
    ASSUME IInv, CadenceOK, NEW k \in 1 .. Len(inputs), inputs' = WithoutInput(k),
           UNCHANGED <<joined, shown>>, vpc' # "input",
           \A j \in 1 .. Len(inputs) : LastServed(j) = shown
    PROVE  CadenceOK'
<1>1. /\ Len(inputs') = Len(inputs) - 1 /\ Len(inputs) \in Nat
      /\ \A j \in 1 .. Len(inputs') :
            inputs'[j] = IF j < k THEN inputs[j] ELSE inputs[j + 1]
  BY WithoutFacts, InputFacts
<1>2. Distinct'
  <2> SUFFICES ASSUME NEW i \in 1 .. Len(inputs'), NEW j \in 1 .. Len(inputs'),
                      inputs'[i].param = inputs'[j].param
               PROVE  i = j
    BY DEF Distinct
  <2> DEFINE old(x) == IF x < k THEN x ELSE x + 1
  <2>1. /\ old(i) \in 1 .. Len(inputs) /\ old(j) \in 1 .. Len(inputs)
        /\ inputs'[i] = inputs[old(i)] /\ inputs'[j] = inputs[old(j)]
        /\ old(i) = old(j) => i = j
    BY <1>1
  <2> QED  BY <2>1 DEF CadenceOK, Distinct
<1>3. ASSUME NEW j \in 1 .. Len(inputs')
      PROVE  inputs'[j].counter = Due(inputs'[j].param, shown - joined[inputs'[j].param])
  <2> DEFINE old == IF j < k THEN j ELSE j + 1
  <2>1. old \in 1 .. Len(inputs) /\ inputs'[j] = inputs[old]
    BY <1>1
  <2>2. inputs[old].counter = Due(inputs[old].param, shown - joined[inputs[old].param])
    BY <2>1 DEF CadenceOK
  <2> HIDE DEF old
  <2> QED  BY <2>1, <2>2
<1>4. \A j \in 1 .. Len(inputs') : LastServed(j)' = shown
  BY DEF LastServed
<1> QED  BY <1>2, <1>3, <1>4 DEF CadenceOK, Due

\* The input at the loop index is served and the loop goes on.
LEMMA ServeCadence ==
    ASSUME IInv, CadenceOK, NoneOvertaken, ServeInput
    PROVE  CadenceOK'
<1>1. /\ vpc = "input" /\ vpc' = "input" /\ index <= Len(inputs)
      /\ index' = index + 1 /\ UNCHANGED <<joined, shown>>
  BY DEF ServeInput
<1>2. /\ inputs \in Seq([param : Inputs, counter : Nat])
      /\ DOMAIN inputs = 1 .. Len(inputs) /\ Len(inputs) \in Nat
      /\ \A k \in 1 .. Len(inputs) : /\ inputs[k] \in [param : Inputs, counter : Nat]
                                     /\ inputs[k].param \in Inputs
                                     /\ inputs[k].counter \in Nat
      /\ joined \in [Inputs -> Int] /\ shown \in Int /\ index \in Nat \ {0}
  BY InputFacts
<1>3. index \in 1 .. Len(inputs)
  BY <1>1, <1>2
<1>4. CASE inputs' = [inputs EXCEPT ![index].counter = NextCounter(inputs[index].param, @)]
  <2> DEFINE p == inputs[index].param
             c == inputs[index].counter
             e == [inputs[index] EXCEPT !.counter = NextCounter(p, c)]
  <2>1. inputs' = [inputs EXCEPT ![index] = e]
    BY <1>4
  <2>2. e.param = p /\ e.counter = NextCounter(p, c)
    BY <1>2, <1>3
  <2> HIDE DEF e
  <2>3. /\ Len(inputs') = Len(inputs) /\ inputs'[index] = e
        /\ \A j \in 1 .. Len(inputs) : j # index => inputs'[j] = inputs[j]
    BY <1>2, <1>3, <2>1
  <2>4. Distinct'
    <3>1. \A j \in 1 .. Len(inputs) : inputs'[j].param = inputs[j].param
      BY <2>2, <2>3
    <3> QED  BY <2>3, <3>1 DEF CadenceOK, Distinct
  <2>5. NextCounter(p, c) = Due(p, shown - joined[p])
    <3>1. c = Due(p, shown - 1 - joined[p])
      BY <1>1, <1>2, <1>3 DEF CadenceOK, LastServed
    <3>2. p \in Inputs /\ Divisor[p] \in Nat \ {0} /\ joined[p] \in Int
      BY <1>2, <1>3, DivisorAssumption
    <3> DEFINE x == shown - 1 - joined[p]
    <3>3. x \in Int /\ x + 1 = shown - joined[p]
      BY <1>2, <3>2
    <3>4. c = x % Divisor[p]
      BY <3>1 DEF Due
    <3> HIDE DEF x, c
    <3>5. (x + 1) % Divisor[p] = IF c + 1 = Divisor[p] THEN 0 ELSE c + 1
      BY <3>2, <3>3, <3>4, NextRemainder
    <3> QED  BY <3>3, <3>5 DEF Due, NextCounter
  <2>6. ASSUME NEW j \in 1 .. Len(inputs')
        PROVE  inputs'[j].counter
                    = Due(inputs'[j].param, LastServed(j)' - joined[inputs'[j].param])
    <3>2. CASE j = index
      <4>1. LastServed(j)' = shown
        BY <1>1, <1>2, <3>2 DEF LastServed
      <4> QED  BY <2>2, <2>3, <2>5, <3>2, <4>1
    <3>3. CASE j # index
      <4>1. LastServed(j)' = LastServed(j)
        BY <1>1, <1>2, <2>3, <3>3 DEF LastServed
      <4>2. inputs[j].counter
                = Due(inputs[j].param, LastServed(j) - joined[inputs[j].param])
        BY <2>3 DEF CadenceOK
      <4> QED  BY <2>3, <3>3, <4>1, <4>2
    <3> QED  BY <3>2, <3>3
  <2> QED  BY <1>1, <2>4, <2>6 DEF CadenceOK, Due
<1>5. CASE CallbackMayStop /\ inputs' = WithoutInput(index)
  <2>1. \A p, q \in Inputs : p = q
    BY <1>5 DEF NoneOvertaken
  <2>2. Len(inputs) = 1
    <3>1. 1 \in 1 .. Len(inputs) /\ Len(inputs) \in 1 .. Len(inputs)
      BY <1>2, <1>3
    <3>2. inputs[1].param = inputs[Len(inputs)].param
      BY <1>2, <2>1, <3>1
    <3> QED  BY <3>1, <3>2 DEF CadenceOK, Distinct
  <2>3. 1 .. Len(inputs') = {}
    BY <1>3, <1>5, <2>2, WithoutFacts
  <2> QED  BY <2>3 DEF CadenceOK, Distinct
<1> QED  BY <1>4, <1>5 DEF ServeInput

\* A new input is in step from the interval after the one shown last.
LEMMA ConnectCadence ==
    ASSUME IInv, CadenceOK, NEW p \in Inputs, Connect(p)
    PROVE  CadenceOK'
<1> DEFINE new == [param |-> p, counter |-> 0]
           n   == Len(inputs)
<1>1. /\ vpc # "input" /\ p \notin Connected /\ inputs' = Append(inputs, new)
      /\ joined' = [joined EXCEPT ![p] = shown] /\ UNCHANGED <<vpc, shown>>
  BY DEF Connect, InputMutexFree, vthread
<1>2. /\ inputs \in Seq([param : Inputs, counter : Nat]) /\ n \in Nat
      /\ DOMAIN inputs = 1 .. n
      /\ \A k \in 1 .. n : inputs[k].param \in Inputs
      /\ joined \in [Inputs -> Int] /\ shown \in Int
  BY InputFacts
<1>3. /\ Len(inputs') = n + 1 /\ inputs'[n + 1] = new
      /\ \A k \in 1 .. n : inputs'[k] = inputs[k]
  <2>1. new \in [param : Inputs, counter : Nat]
    OBVIOUS
  <2> HIDE DEF new
  <2> QED  BY <1>1, <1>2, <2>1, AppendProperties
<1>4. \A k \in 1 .. n : inputs[k].param # p
  BY <1>1, <1>2 DEF Connected
<1>5. \A k \in 1 .. n + 1 : k \in 1 .. n \/ k = n + 1
  BY <1>2
<1>6. Distinct'
  <2>1. new.param = p
    OBVIOUS
  <2> HIDE DEF new
  <2>2. \A k, j \in 1 .. n : inputs[k].param = inputs[j].param => k = j
    BY DEF CadenceOK, Distinct
  <2>3. \A k, j \in 1 .. n + 1 : inputs'[k].param = inputs'[j].param => k = j
    BY <1>3, <1>4, <1>5, <2>1, <2>2
  <2> QED  BY <1>3, <2>3 DEF Distinct
<1>7. ASSUME NEW k \in 1 .. n + 1
      PROVE  inputs'[k].counter
                = Due(inputs'[k].param, LastServed(k)' - joined'[inputs'[k].param])
  <2>1. LastServed(k)' = shown /\ LastServed(k) = shown
    BY <1>1 DEF LastServed
  <2>2. CASE k = n + 1
    <3>1. inputs'[k].counter = 0 /\ inputs'[k].param = p /\ joined'[p] = shown
      BY <1>1, <1>2, <1>3, <2>2
    <3>2. Divisor[p] \in Nat \ {0} /\ shown - shown = 0
      BY <1>2, DivisorAssumption
    <3>3. \A d \in Nat \ {0} : 0 % d = 0
      OBVIOUS
    <3> QED  BY <2>1, <3>1, <3>2, <3>3 DEF Due
  <2>3. CASE k \in 1 .. n
    <3>1. inputs'[k] = inputs[k] /\ joined'[inputs[k].param] = joined[inputs[k].param]
      BY <1>1, <1>2, <1>3, <1>4, <2>3
    <3>2. inputs[k].counter = Due(inputs[k].param, shown - joined[inputs[k].param])
      BY <2>1, <2>3 DEF CadenceOK
    <3> QED  BY <2>1, <3>1, <3>2
  <2> QED  BY <1>5, <2>2, <2>3
<1> QED  BY <1>3, <1>6, <1>7 DEF CadenceOK, Due

\* A frame is taken: every input has one more interval to be served or passed over.
LEMMA TakeFrameCadence ==
    ASSUME IInv, TimeOK, CadenceOK, TakeFrame
    PROVE  CadenceOK'
<1>1. /\ vpc = "loop" /\ vpc' = "input" /\ index' = 1 /\ shown' = shown + 1
      /\ UNCHANGED <<inputs, joined>>
  BY TakeFrameTimeOK DEF TakeFrame
<1>2. \A k \in 1 .. Len(inputs) : LastServed(k)' = LastServed(k)
  BY <1>1, InputFacts DEF LastServed
<1> QED  BY <1>1, <1>2 DEF CadenceOK, Distinct, Due

\* A step that touches neither the inputs nor how far they are served.
LEMMA SameCadence ==
    ASSUME IInv, CadenceOK, UNCHANGED <<inputs, joined, shown>>,
           \A k \in 1 .. Len(inputs) : LastServed(k)' = LastServed(k)
    PROVE  CadenceOK'
  BY DEF CadenceOK, Distinct, Due

\* Every step keeps the cadence.
LEMMA NextCadenceOK ==
    IInv /\ TimeOK /\ CadenceOK /\ NoneOvertaken /\ [Next]_vars => CadenceOK'
<1> SUFFICES ASSUME IInv, TimeOK, CadenceOK, NoneOvertaken, [Next]_vars  PROVE CadenceOK'
  OBVIOUS
<1>1. CASE TakeFrame
  BY <1>1, TakeFrameCadence
<1>2. CASE ServeInput
  BY <1>2, ServeCadence
<1>3. CASE FinishFrame
  <2>1. /\ vpc = "input" /\ vpc' # "input" /\ index > Len(inputs)
        /\ UNCHANGED <<inputs, joined, shown>>
    BY <1>3 DEF FinishFrame
  <2>2. \A k \in 1 .. Len(inputs) : LastServed(k)' = LastServed(k)
    BY <2>1, InputFacts DEF LastServed
  <2> QED  BY <2>1, <2>2, SameCadence
<1>4. ASSUME NEW p \in Inputs, Connect(p)  PROVE CadenceOK'
  BY <1>4, ConnectCadence
<1>5. ASSUME NEW k \in 1 .. Len(inputs), Disconnect(k)  PROVE CadenceOK'
  <2>1. /\ inputs' = WithoutInput(k) /\ vpc # "input" /\ UNCHANGED <<joined, shown, vpc>>
    BY <1>5 DEF Disconnect, InputMutexFree, vthread
  <2>2. \A j \in 1 .. Len(inputs) : LastServed(j) = shown
    BY <2>1 DEF LastServed
  <2> QED  BY <2>1, <2>2, WithoutCadence
<1>6. CASE \/ GraphicsThread \/ SemWait \/ TestStop \/ LeaveLoop \/ CountFrame
           \/ StopOutput \/ UNCHANGED vars
  <2>1. /\ UNCHANGED <<inputs, joined, shown, index>>
        /\ (vpc = "input") = (vpc' = "input")
    BY <1>6 DEF GraphicsThread, RepeatLast, LockFrame, UnlockFrame, SemWait, TestStop,
                LeaveLoop, CountFrame, StopOutput, vars, vthread
  <2>2. \A k \in 1 .. Len(inputs) : LastServed(k)' = LastServed(k)
    BY <2>1 DEF LastServed
  <2> QED  BY <2>1, <2>2, SameCadence
<1> QED  BY <1>1, <1>2, <1>3, <1>4, <1>5, <1>6 DEF Next, VideoThread

\* Every input is served on every Divisor-th interval counted from the one after it
\* connected, whatever inputs come and go (video_output_cur_frame, frame_rate_divisor),
\* unless a callback disconnects its own input while another is connected.
THEOREM ServedInCadence == ASSUME NoneOvertaken PROVE Spec => []Cadence
<1>1. Init => CadenceOK
  <2> SUFFICES ASSUME Init  PROVE CadenceOK
    OBVIOUS
  <2>1. 1 .. Len(inputs) = {}
    BY DEF Init
  <2> QED  BY <2>1 DEF CadenceOK, Distinct
<1>2. IInv /\ TimeOK /\ CadenceOK /\ [Next]_vars => CadenceOK'
  BY NextCadenceOK
<1>3. IInv /\ CadenceOK => Cadence
  <2> SUFFICES ASSUME IInv, CadenceOK, InputMutexFree, NEW k \in DOMAIN inputs
               PROVE  inputs[k].counter
                        = (shown - joined[inputs[k].param]) % Divisor[inputs[k].param]
    BY DEF Cadence
  <2>1. k \in 1 .. Len(inputs)
    BY InputFacts
  <2> QED  BY <2>1 DEF CadenceOK, LastServed, Due, InputMutexFree
<1> QED  BY <1>1, <1>2, <1>3, InitTimeOK, NextTimeOK, InvariantIInv, PTL DEF Spec

-----------------------------------------------------------------------------
(* The cache implements the frame feed.                                    *)

\* Every step hands in one frame, shows one interval or is invisible.
LEMMA StepImplementsFeed ==
    ASSUME IInv, TimeOK, [Next]_vars
    PROVE  [Feed!FeedNext]_Feed!feedVars
<1> USE DEF Feed!FeedNext, Feed!feedVars, Feed!HandIn, Feed!Show, Feed!Close
<1>1. ASSUME NEW count \in 1..MaxCount, RepeatLast(count)
      PROVE  Feed!HandIn(count)
  BY <1>1 DEF RepeatLast, Horizon, vthread
<1>2. ASSUME NEW count \in 1..MaxCount, LockFrame(count)
      PROVE  UNCHANGED Feed!feedVars
  <2>1. ClaimedSlot \in Slots /\ cache \in [Slots -> Frame]
    BY NextSlotType DEF ClaimedSlot, IInv, TypeOK
  <2>2. cache'[last_added'].timestamp = video_time
    BY <1>2, <2>1 DEF LockFrame
  <2> QED  BY <1>2, <2>2 DEF LockFrame, Horizon, vthread
<1>3. ASSUME UnlockFrame
      PROVE  Feed!HandIn(cache[last_added].count)
  <2>1. gpc = "locked" /\ gpc' = "idle" /\ UNCHANGED <<cache, video_time, shown, stop>>
    BY <1>3 DEF UnlockFrame, vthread
  <2>2. Horizon = cache[last_added].timestamp /\ Horizon' = video_time
    BY <2>1 DEF Horizon
  <2> QED  BY <2>1, <2>2 DEF TimeOK, End
<1>4. ASSUME TakeFrame
      PROVE  Feed!Show
  <2>1. Used > 0 /\ shown' = shown + 1 /\ Horizon' = Horizon /\ UNCHANGED stop
    BY <1>4, TakeFrameTimeOK DEF TakeFrame, Horizon, ring
  <2>2. first_added \in Queued /\ cache[first_added].timestamp = shown + 1
    BY <1>4, <2>1, QueuedFacts
       DEF TakeFrame, TimeOK, Unbroken, Queued, Distance, Slots
  <2>3. cache[first_added].timestamp < Horizon
    <3>1. End(first_added) <= Horizon /\ cache[first_added].count > 0
      BY <2>2 DEF TimeOK, IInv, CountOK
    <3> QED  BY <3>1, QueuedFacts DEF End
  <2> QED  BY <2>1, <2>2, <2>3
<1>5. ASSUME FinishFrame
      PROVE  UNCHANGED Feed!feedVars
  <2>1. gpc = "locked" => cache'[last_added'].timestamp = cache[last_added].timestamp
    BY <1>5, FinishFrameKeepsCopy
  <2> QED  BY <1>5, <2>1 DEF FinishFrame, Horizon
<1>6. ASSUME \/ SemWait \/ TestStop \/ LeaveLoop \/ ServeInput \/ CountFrame
             \/ (\E p \in Inputs : Connect(p))
             \/ (\E k \in 1..Len(inputs) : Disconnect(k))
             \/ UNCHANGED vars
      PROVE  UNCHANGED Feed!feedVars
  BY <1>6 DEF SemWait, TestStop, LeaveLoop, ServeInput, CountFrame, Connect,
              Disconnect, Horizon, vars, ring, vthread
<1>7. ASSUME StopOutput
      PROVE  Feed!Close \/ UNCHANGED Feed!feedVars
  BY <1>7 DEF StopOutput, Stop, Horizon, ring, vthread
<1>8. ASSUME UnlockFrame
      PROVE  cache[last_added].count \in 1..MaxCount
  BY <1>8 DEF UnlockFrame, TimeOK
<1>9. CASE GraphicsThread
  BY <1>9, <1>1, <1>2, <1>3, <1>8 DEF GraphicsThread
<1>10. CASE VideoThread
  BY <1>10, <1>4, <1>5, <1>6 DEF VideoThread
<1> QED  BY <1>6, <1>7, <1>9, <1>10 DEF Next

\* Safety of the refinement: the inputs are shown every interval handed in, once
\* and in order, whatever the cache repeats, reuses or skips.
THEOREM CacheImplementsFeed == Spec => Feed!FeedSafety
<1>1. Init => Feed!FeedInit
  BY DEF Init, Feed!FeedInit, Horizon
<1>2. Init => TimeOK
  BY InitTimeOK
<1>3. IInv /\ TimeOK /\ [Next]_vars => TimeOK'
  BY NextTimeOK
<1>4. IInv /\ TimeOK /\ [Next]_vars => [Feed!FeedNext]_Feed!feedVars
  BY StepImplementsFeed
<1> QED  BY <1>1, <1>2, <1>3, <1>4, InvariantIInv, PTL DEF Spec, Feed!FeedSafety
=============================================================================
