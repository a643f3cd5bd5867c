--------------------------- MODULE GpuEncode_proofs ---------------------------
(* Proofs about texture encoding, for every set of encoders, number of         *)
(* textures and lag of the graphics thread.                                    *)
EXTENDS GpuEncode, SumTheorems, SequenceTheorems, TLAPS

-----------------------------------------------------------------------------
(* Who uses an encoder.                                                      *)

UserStates == {"off", "starting", "on", "stopping", "wait", "waitfree", "raise",
               "post", "join"}

ListType ==
    /\ gpu_encoders \in Seq(Encoders)
    /\ encoders \in Seq(Encoders)
    /\ index \in Nat \ {0}
    /\ upc \in [Encoders -> UserStates]

\* Every encoder is in the list at most once, from its start to its stop.
Listed ==
    /\ \A i \in DOMAIN gpu_encoders :
            upc[gpu_encoders[i]] \in {"starting", "on", "stopping"}
    /\ \A i, j \in DOMAIN gpu_encoders : gpu_encoders[i] = gpu_encoders[j] => i = j

\* From before it copies the list until it is done with a frame, the encode
\* thread keeps the event reset that stops wait for.
EventReset == epc \in {"pop", "encode", "pushed"} => ~gpu_encode_inactive

\* The encoders of the copy are not stopped while they are used.
CopyInUse == epc = "encode" => \A i \in DOMAIN encoders : upc[encoders[i]] # "off"

UseInv == ListType /\ Listed /\ EventReset /\ CopyInUse

\* What is left of a list without one element.
LEMMA WithoutOne ==
    ASSUME NEW S, NEW s \in Seq(S), NEW k \in 1..Len(s)
    PROVE  /\ RemoveAt(s, k) \in Seq(S)
           /\ Len(RemoveAt(s, k)) = Len(s) - 1
           /\ \A i \in 1..Len(s) - 1 :
                RemoveAt(s, k)[i] = IF i < k THEN s[i] ELSE s[i + 1]
<1> DEFINE front == SubSeq(s, 1, k - 1)
           back  == SubSeq(s, k + 1, Len(s))
<1>1. Len(s) \in Nat /\ k \in Nat
  BY LenProperties
<1>2. /\ front \in Seq(S) /\ Len(front) = k - 1
      /\ \A i \in 1..k - 1 : front[i] = s[i]
  BY <1>1, SubSeqProperties, LenProperties
<1>3. /\ back \in Seq(S) /\ Len(back) = Len(s) - k
      /\ \A i \in 1..Len(s) - k : back[i] = s[k + i]
  BY <1>1, SubSeqProperties, LenProperties
<1>4. RemoveAt(s, k) = front \o back
  BY DEF RemoveAt
<1> HIDE DEF front, back
<1>5. /\ front \o back \in Seq(S)
      /\ Len(front \o back) = Len(front) + Len(back)
      /\ \A i \in 1..Len(front) + Len(back) :
            (front \o back)[i] = IF i <= Len(front) THEN front[i]
                                                    ELSE back[i - Len(front)]
  BY <1>2, <1>3, ConcatProperties
<1>6. ASSUME NEW i \in 1..Len(s) - 1
      PROVE  (front \o back)[i] = IF i < k THEN s[i] ELSE s[i + 1]
  <2>1. CASE i < k
    BY <1>1, <1>2, <1>3, <1>5, <2>1
  <2>2. CASE i >= k
    <3>1. i - (k - 1) \in 1..Len(s) - k
      BY <1>1, <2>2
    <3>2. back[i - (k - 1)] = s[k + (i - (k - 1))]
      BY <1>3, <3>1
    <3>3. k + (i - (k - 1)) = i + 1
      BY <1>1
    <3>4. (front \o back)[i] = back[i - (k - 1)]
      BY <1>1, <1>2, <1>3, <1>5, <2>2
    <3> QED  BY <1>1, <2>2, <3>2, <3>3, <3>4
  <2>3. i < k \/ i >= k
    BY <1>1
  <2> QED  BY <2>1, <2>2, <2>3, Zenon
<1> QED  BY <1>1, <1>2, <1>3, <1>4, <1>5, <1>6

\* The use of the threads is right at first,
LEMMA UseInit == Init => UseInv
  BY EmptySeq DEF Init, UseInv, ListType, Listed, EventReset, CopyInUse, UserStates

\* Appending an encoder that is not used yet.
LEMMA UseStart ==
    ASSUME UseInv, NEW e \in Encoders, Start(e)
    PROVE  UseInv'
<1> USE DEF UseInv
<1>1. /\ gpu_encoders' = Append(gpu_encoders, e)
      /\ upc[e] = "off" /\ upc' = [upc EXCEPT ![e] = "starting"]
      /\ UNCHANGED <<encoders, index>>
  BY DEF Start, work
<1>2. /\ gpu_encoders' \in Seq(Encoders)
      /\ Len(gpu_encoders') = Len(gpu_encoders) + 1
      /\ \A i \in 1..Len(gpu_encoders) : gpu_encoders'[i] = gpu_encoders[i]
      /\ gpu_encoders'[Len(gpu_encoders) + 1] = e
      /\ Len(gpu_encoders) \in Nat
  BY <1>1, AppendProperties, LenProperties DEF ListType
<1>3. DOMAIN gpu_encoders = 1..Len(gpu_encoders)
      /\ DOMAIN gpu_encoders' = 1..Len(gpu_encoders) + 1
  BY <1>2, LenProperties DEF ListType
<1>4. ListType'
  BY <1>1, <1>2 DEF ListType, UserStates
<1>5. \A i \in DOMAIN gpu_encoders : gpu_encoders[i] \in Encoders /\ gpu_encoders[i] # e
  BY <1>1, ElementOfSeq, <1>3 DEF ListType, Listed
<1>6. Listed'
  BY <1>1, <1>2, <1>3, <1>5 DEF Listed, ListType
<1>7. EventReset' /\ CopyInUse'
  <2>1. CASE gpu_encoders = <<>>
    BY <2>1 DEF Start, InitGpuEncoding, EventReset, CopyInUse
  <2>2. CASE gpu_encoders # <<>>
    <3>1. UNCHANGED <<epc, gpu_encode_inactive>>
      BY <2>2 DEF Start
    <3>2. \A i \in DOMAIN encoders : encoders[i] \in Encoders
      BY ElementOfSeq, LenProperties DEF ListType
    <3> QED  BY <1>1, <3>1, <3>2 DEF EventReset, CopyInUse, ListType
  <2> QED  BY <2>1, <2>2
<1> QED  BY <1>4, <1>6, <1>7

\* Taking an encoder that stops out of the list.
LEMMA UseErase ==
    ASSUME UseInv, NEW e \in Encoders, Erase(e)
    PROVE  UseInv'
<1> USE DEF UseInv
<1>1. PICK k \in DOMAIN gpu_encoders :
        gpu_encoders[k] = e /\ gpu_encoders' = RemoveAt(gpu_encoders, k)
  BY DEF Erase
<1>2. \E u \in {"wait", "waitfree"} : upc' = [upc EXCEPT ![e] = u]
  BY DEF Erase
<1>3. UNCHANGED <<encoders, index, epc, gpu_encode_inactive>>
  BY DEF Erase, thread, work
<1>4. DOMAIN gpu_encoders = 1..Len(gpu_encoders) /\ Len(gpu_encoders) \in Nat
  BY LenProperties DEF ListType
<1>5. /\ gpu_encoders' \in Seq(Encoders)
      /\ Len(gpu_encoders') = Len(gpu_encoders) - 1
      /\ \A i \in 1..Len(gpu_encoders) - 1 :
            gpu_encoders'[i] = IF i < k THEN gpu_encoders[i] ELSE gpu_encoders[i + 1]
  BY <1>1, <1>4, WithoutOne DEF ListType
<1>6. DOMAIN gpu_encoders' = 1..Len(gpu_encoders) - 1
  BY <1>5, LenProperties
<1>7. ListType'
  BY <1>2, <1>3, <1>5 DEF ListType, UserStates
<1>8. ASSUME NEW i \in DOMAIN gpu_encoders'
      PROVE  \E j \in DOMAIN gpu_encoders :
                /\ gpu_encoders'[i] = gpu_encoders[j] /\ j # k
                /\ j = IF i < k THEN i ELSE i + 1
  BY <1>4, <1>5, <1>6
<1>9. \A j \in DOMAIN gpu_encoders : gpu_encoders[j] \in Encoders
  BY <1>4, ElementOfSeq DEF ListType
<1>10. Listed'
  BY <1>1, <1>2, <1>4, <1>6, <1>8, <1>9 DEF Listed, ListType
<1>11. \A i \in DOMAIN encoders : encoders[i] \in Encoders
  BY ElementOfSeq, LenProperties DEF ListType
<1>12. EventReset' /\ CopyInUse'
  BY <1>2, <1>3, <1>11 DEF EventReset, CopyInUse, ListType
<1> QED  BY <1>7, <1>10, <1>12

\* A step that leaves the list and the copy alone and moves one encoder on.
LEMMA UseMove ==
    ASSUME UseInv, NEW e \in Encoders, NEW u \in UserStates,
           upc' = [upc EXCEPT ![e] = u],
           UNCHANGED <<gpu_encoders, encoders, index>>,
           u \in {"starting", "on", "stopping"} \/ upc[e] \notin {"starting", "on", "stopping"},
           u = "off" => epc' # "encode",
           EventReset', epc' = "encode" => epc = "encode"
    PROVE  UseInv'
<1> USE DEF UseInv
<1>1. ListType'
  BY DEF ListType
<1>2. \A i \in DOMAIN gpu_encoders : gpu_encoders[i] \in Encoders
  BY ElementOfSeq, LenProperties DEF ListType
<1>3. \A i \in DOMAIN encoders : encoders[i] \in Encoders
  BY ElementOfSeq, LenProperties DEF ListType
<1>4. Listed'
  BY <1>2 DEF Listed, ListType
<1>5. CopyInUse'
  BY <1>3 DEF CopyInUse, ListType
<1> QED  BY <1>1, <1>4, <1>5

LEMMA UseUsers ==
    ASSUME UseInv, NEW e \in Encoders,
           \/ Activate(e) \/ Deactivate(e) \/ WaitInactive(e)
           \/ RaiseStop(e) \/ PostStop(e) \/ FreeGpuEncoding(e)
    PROVE  UseInv'
<1> USE DEF UseInv, UserStates
<1>1. CASE Activate(e)
  BY <1>1, UseMove DEF Activate, thread, work, EventReset
<1>2. CASE Deactivate(e)
  BY <1>2, UseMove DEF Deactivate, thread, work, EventReset
<1>3. CASE WaitInactive(e)
  BY <1>3, UseMove DEF WaitInactive, control, thread, work, EventReset
<1>4. CASE RaiseStop(e)
  BY <1>4, UseMove DEF RaiseStop, thread, work, EventReset
<1>5. CASE PostStop(e)
  BY <1>5, UseMove DEF PostStop, control, thread, work, EventReset
<1>6. CASE FreeGpuEncoding(e)
  BY <1>6, UseMove DEF FreeGpuEncoding, control, work, EventReset
<1> QED  BY <1>1, <1>2, <1>3, <1>4, <1>5, <1>6

\* The encode thread.
LEMMA UseThread ==
    ASSUME UseInv, EncodeThread
    PROVE  UseInv'
<1> USE DEF UseInv
<1>1. CASE SemWait
  BY <1>1 DEF SemWait, control, work, users, ListType, Listed, EventReset, CopyInUse
<1>2. CASE Woken
  BY <1>2 DEF Woken, control, work, users, ListType, Listed, EventReset, CopyInUse
<1>3. CASE PopFrame
  <2>1. /\ encoders' = gpu_encoders /\ index' = 1
        /\ UNCHANGED <<gpu_encoders, upc, gpu_encode_inactive>>
        /\ epc = "pop"
    BY <1>3 DEF PopFrame, control, users
  <2> QED  BY <2>1 DEF ListType, Listed, EventReset, CopyInUse
<1>4. CASE PushFrame
  BY <1>4 DEF PushFrame, control, work, users, ListType, Listed, EventReset, CopyInUse
<1>5. CASE SignalInactive
  BY <1>5, EmptySeq DEF SignalInactive, control, users, ListType, Listed, EventReset,
        CopyInUse
<1>6. ASSUME NEW e \in Encoders, Skip(e) \/ Encode(e)
      PROVE  UseInv'
  <2>1. /\ index' = index + 1
        /\ UNCHANGED <<gpu_encoders, encoders, upc, epc, gpu_encode_inactive>>
    BY <1>6 DEF Skip, Encode, EncoderAt, control, users
  <2> QED  BY <2>1 DEF ListType, Listed, EventReset, CopyInUse
<1> QED  BY <1>1, <1>2, <1>3, <1>4, <1>5, <1>6 DEF EncodeThread

\* and after every step.
LEMMA UseStep == UseInv /\ [Next]_vars => UseInv'
<1> SUFFICES ASSUME UseInv, [Next]_vars PROVE UseInv'
  OBVIOUS
<1> USE DEF UseInv
<1>1. CASE Tick \/ GraphicsThread
  BY <1>1 DEF Tick, GraphicsThread, OutputGpuEncoders, QueueFrame, VideoSleep, control,
        thread, work, users, ListType, Listed, EventReset, CopyInUse
<1>2. CASE EncodeThread
  BY <1>2, UseThread
<1>3. ASSUME NEW e \in Encoders, Start(e)  PROVE UseInv'
  BY <1>3, UseStart
<1>4. ASSUME NEW e \in Encoders, Activate(e) \/ Deactivate(e)  PROVE UseInv'
  BY <1>4, UseUsers
<1>5. ASSUME NEW e \in Encoders, StopSteps(e)  PROVE UseInv'
  BY <1>5, UseErase, UseUsers DEF StopSteps
<1>6. ASSUME NEW e \in Encoders, Pause(e) \/ Unpause(e)  PROVE UseInv'
  BY <1>6 DEF Pause, Unpause, control, thread, work, users, ListType, Listed,
        EventReset, CopyInUse
<1>7. CASE UNCHANGED vars
  BY <1>7 DEF vars, control, thread, work, users, ListType, Listed, EventReset, CopyInUse
<1> QED  BY <1>1, <1>2, <1>3, <1>4, <1>5, <1>6, <1>7 DEF Next

\* Once stop_gpu_encode has returned the encode thread does not use the encoder
\* (obs.c, stop_gpu_encode; the event gpu_encode_inactive).
THEOREM StoppedIsUnused == Spec => []NotUsedAfterStop
<1>1. UseInv => NotUsedAfterStop
  <2>1. UseInv => DOMAIN encoders = 1..Len(encoders) /\ Len(encoders) \in Nat
    BY LenProperties DEF UseInv, ListType
  <2> QED  BY <2>1 DEF UseInv, ListType, CopyInUse, NotUsedAfterStop
<1> QED  BY <1>1, UseInit, UseStep, PTL DEF Spec

-----------------------------------------------------------------------------
(* The queues.  The encode thread takes a frame for each post it waited for     *)
(* without looking whether there is one.  That there is depends on the number   *)
(* of intervals in the queue (CountInv below); the steps here assume it.        *)

\* Without encoders, and with nobody about to free it, there is no thread.
ThreadOwned ==
    gpu_encoders = <<>> /\ (\A e \in Encoders :
                                upc[e] \notin {"waitfree", "raise", "post", "join"})
        => epc = "none"

\* The key that the next encoder takes is that of the one before.
KeyHandedOn == epc = "encode" => next_key = lock_key

QueueInv == TypeOK /\ ThreadOwned /\ KeyHandedOn /\ KeysAgree

\* TypeOK by the part of the system that a step writes.
GraphicsType ==
    /\ now \in Nat /\ video_time \in 1..now /\ now - video_time <= MaxLag
    /\ gpc \in {"active", "queue", "sleep"}
    /\ gpu_was_active \in BOOLEAN
    /\ vframe_info_buffer_gpu \in Seq(InfoType)
    /\ IF gpc = "queue" THEN vframe_info \in InfoType ELSE vframe_info = NoInfo

QueuesType ==
    /\ gpu_encoder_queue \in Seq(FrameType)
    /\ gpu_encoder_avail_queue \in Seq(TextureType)
    /\ semaphore \in Nat

ControlType ==
    /\ gpu_encoder_active \in Int
    /\ gpu_encoders \in Seq(Encoders)
    /\ gpu_encode_stop \in BOOLEAN
    /\ gpu_encode_inactive \in BOOLEAN

ThreadType ==
    /\ epc \in {"none", "wait", "woken", "pop", "encode", "pushed", "exited"}
    /\ wait_frames \in 0..FramesToWait
    /\ IF epc = "encode" THEN tf \in FrameType ELSE tf = NoFrame
    /\ encoders \in Seq(Encoders) /\ index \in 1..Len(encoders) + 1
    /\ lock_key \in Nat /\ next_key \in Nat /\ lock_count \in Nat
    /\ served \in Nat

UsersType ==
    /\ upc \in [Encoders -> UserStates]
    /\ starts \in [Encoders -> 0..MaxStarts]
    /\ pauses \in [Encoders -> Nat]

LEMMA TypeParts ==
    TypeOK <=> /\ GraphicsType /\ QueuesType /\ ControlType /\ ThreadType
               /\ UsersType /\ pause \in [Encoders -> PauseType]
<1>1. \A a, b, c : {a, b, c} \subseteq Nat <=> a \in Nat /\ b \in Nat /\ c \in Nat
  OBVIOUS
<1> QED  BY <1>1, Zenon DEF TypeOK, GraphicsType, QueuesType, ControlType, ThreadType,
            UsersType, UserStates

\* The same of the state after a step.
LEMMA TypePartsNext ==
    TypeOK' <=> /\ GraphicsType' /\ QueuesType' /\ ControlType' /\ ThreadType'
                /\ UsersType' /\ pause' \in [Encoders -> PauseType]
<1>1. \A a, b, c : {a, b, c} \subseteq Nat <=> a \in Nat /\ b \in Nat /\ c \in Nat
  OBVIOUS
<1> QED  BY <1>1, Zenon DEF TypeOK, GraphicsType, QueuesType, ControlType, ThreadType,
            UsersType, UserStates

LEMMA Bounds == NumTextures \in Nat /\ FramesToWait \in Nat /\ MaxLag \in Nat
                /\ MaxStarts \in Nat
  BY GpuAssumption

\* A frame that stands for one interval more.
LEMMA FrameLonger ==
    ASSUME NEW x \in FrameType
    PROVE  /\ [x EXCEPT !.count = @ + 1] \in FrameType
           /\ [x EXCEPT !.count = @ + 1].count = x.count + 1
  BY DEF FrameType

\* What PushFrame makes of a frame.
LEMMA FrameServed ==
    ASSUME NEW x \in FrameType, NEW k \in Nat
    PROVE  LET d == [[x EXCEPT !.lock_key = k] EXCEPT !.count = @ - 1]
               n == [d EXCEPT !.timestamp = @ + 1]
           IN  /\ d.count = x.count - 1 /\ n.count = x.count - 1
               /\ d.count # 0 => n \in FrameType
<1> DEFINE y == [x EXCEPT !.lock_key = k]
           d == [y EXCEPT !.count = @ - 1]
           n == [d EXCEPT !.timestamp = @ + 1]
<1>1. y \in FrameType /\ y.count = x.count
  BY DEF FrameType
<1>2. x.count \in Nat \ {0} /\ y.timestamp \in Nat
  BY <1>1 DEF FrameType
<1> HIDE DEF y
<1>3. d.count = x.count - 1
  BY <1>1 DEF FrameType
<1>4. d.count # 0 => d \in FrameType
  BY <1>1, <1>2 DEF FrameType
<1>5. n.count = d.count
  BY <1>1 DEF FrameType
<1> HIDE DEF d
<1>6. d \in FrameType => n \in FrameType
  BY DEF FrameType
<1> QED  BY <1>3, <1>4, <1>5, <1>6 DEF y, d

\* Whatever key its texture is left with.
LEMMA FrameReleased ==
    ASSUME NEW x \in FrameType, NEW k
    PROVE  [x EXCEPT !.shared_key = k].count = x.count
  BY DEF FrameType

LEMMA InfoLeft ==
    ASSUME NEW x \in InfoType, NEW k
    PROVE  [x EXCEPT !.count = k].count = k
  BY DEF InfoType
Keyed(q) == \A i \in DOMAIN q : q[i].shared_key = q[i].lock_key

LEMMA KeyedAppend ==
    ASSUME NEW S, NEW q \in Seq(S), NEW f \in S, Keyed(q), f.shared_key = f.lock_key
    PROVE  Append(q, f) \in Seq(S) /\ Keyed(Append(q, f))
  BY AppendProperties, LenProperties DEF Keyed

LEMMA KeyedTail ==
    ASSUME NEW S, NEW q \in Seq(S), q # <<>>, Keyed(q)
    PROVE  /\ Tail(q) \in Seq(S) /\ Keyed(Tail(q))
           /\ Head(q) \in S /\ Head(q).shared_key = Head(q).lock_key
  BY HeadTailProperties, LenProperties, ElementOfSeq, EmptySeq DEF Keyed

LEMMA KeyedConcat ==
    ASSUME NEW S, NEW p \in Seq(S), NEW q \in Seq(S), Keyed(p), Keyed(q)
    PROVE  p \o q \in Seq(S) /\ Keyed(p \o q)
<1>1. /\ p \o q \in Seq(S) /\ Len(p \o q) = Len(p) + Len(q)
      /\ \A i \in 1..Len(p) + Len(q) :
            (p \o q)[i] = IF i <= Len(p) THEN p[i] ELSE q[i - Len(p)]
      /\ Len(p) \in Nat /\ Len(q) \in Nat
      /\ DOMAIN p = 1..Len(p) /\ DOMAIN q = 1..Len(q)
  BY ConcatProperties, LenProperties
<1>2. DOMAIN (p \o q) = 1..Len(p) + Len(q)
  BY <1>1, LenProperties
<1>3. ASSUME NEW i \in 1..Len(p) + Len(q)
      PROVE  (p \o q)[i].shared_key = (p \o q)[i].lock_key
  <2>1. CASE i <= Len(p)
    BY <1>1, <2>1 DEF Keyed
  <2>2. CASE ~(i <= Len(p))
    <3>1. i - Len(p) \in DOMAIN q
      BY <1>1, <2>2
    <3>2. (p \o q)[i] = q[i - Len(p)]
      BY <1>1, <2>2
    <3> QED  BY <3>1, <3>2 DEF Keyed
  <2> QED  BY <2>1, <2>2
<1> QED  BY <1>1, <1>2, <1>3 DEF Keyed

\* The newest frame is lengthened.
LEMMA KeyedLonger ==
    ASSUME NEW q \in Seq(FrameType), q # <<>>, Keyed(q)
    PROVE  /\ [q EXCEPT ![Len(q)].count = @ + 1] \in Seq(FrameType)
           /\ Keyed([q EXCEPT ![Len(q)].count = @ + 1])
           /\ [q EXCEPT ![Len(q)].count = @ + 1] # <<>>
<1>1. Len(q) \in 1..Len(q) /\ Len(q) \in Nat /\ DOMAIN q = 1..Len(q)
  BY LenProperties, EmptySeq
<1>2. q[Len(q)] \in FrameType
  BY <1>1, ElementOfSeq
<1> DEFINE longer == [q[Len(q)] EXCEPT !.count = @ + 1]
           r      == [q EXCEPT ![Len(q)] = longer]
<1>3. longer \in FrameType /\ longer.shared_key = longer.lock_key
  BY <1>1, <1>2 DEF FrameType, Keyed
<1>4. [q EXCEPT ![Len(q)].count = @ + 1] = r
  OBVIOUS
<1> HIDE DEF longer
<1>5. r \in Seq(FrameType) /\ Len(r) = Len(q)
  BY <1>1, <1>3, ExceptSeq
<1>6. Keyed(r)
  BY <1>1, <1>3 DEF Keyed
<1>7. r # <<>>
  BY <1>1, <1>5, EmptySeq
<1> QED  BY <1>4, <1>5, <1>6, <1>7

\* The queues are right at first,
LEMMA QueueInit == Init => QueueInv
<1> SUFFICES ASSUME Init PROVE QueueInv
  OBVIOUS
<1>1. GraphicsType
  <2>1. now = 1 /\ video_time = 1 /\ now - video_time <= MaxLag
    BY Bounds DEF Init
  <2>2. vframe_info_buffer_gpu \in Seq(InfoType) /\ vframe_info = NoInfo
    BY EmptySeq DEF Init
  <2>3. gpc = "active" /\ gpu_was_active = FALSE
    BY DEF Init
  <2>4. 1 \in Nat /\ 1 \in 1..1
    OBVIOUS
  <2> QED  BY <2>1, <2>2, <2>3, <2>4 DEF GraphicsType
<1>2. QueuesType /\ ControlType
  <2>1. /\ gpu_encoder_queue = <<>> /\ gpu_encoder_avail_queue = <<>> /\ semaphore = 0
        /\ gpu_encoder_active = 0 /\ gpu_encoders = <<>>
        /\ gpu_encode_stop = FALSE /\ gpu_encode_inactive = FALSE
    BY DEF Init
  <2>2. <<>> \in Seq(FrameType) /\ <<>> \in Seq(TextureType) /\ <<>> \in Seq(Encoders)
    BY EmptySeq
  <2>3. QueuesType
    BY <2>1, <2>2, 0 \in Nat DEF QueuesType
  <2>4. gpu_encode_stop \in BOOLEAN /\ gpu_encode_inactive \in BOOLEAN
    BY <2>1
  <2>5. gpu_encoder_active \in Int /\ gpu_encoders \in Seq(Encoders)
    BY <2>1, <2>2
  <2>6. ControlType
    BY <2>4, <2>5 DEF ControlType
  <2> QED  BY <2>3, <2>6
<1>3. ThreadType
  BY Bounds, EmptySeq DEF Init, ThreadType
<1>4. UsersType /\ pause \in [Encoders -> PauseType]
  BY Bounds DEF Init, UsersType, UserStates, NoPause, PauseType
<1>5. TypeOK
  BY <1>1, <1>2, <1>3, <1>4, TypeParts
<1>6. KeysAgree
  BY EmptySeq DEF Init, KeysAgree
<1> QED  BY <1>5, <1>6 DEF Init, QueueInv, ThreadOwned, KeyHandedOn

\* A step of the graphics thread that leaves the queues alone.
LEMMA QueueStill ==
    ASSUME QueueInv, GraphicsType',
           UNCHANGED <<queues, control, gpu_encode_inactive, thread, users, pause,
                       served>>
    PROVE  QueueInv'
<1> USE DEF QueueInv
<1>1. QueuesType' /\ ControlType' /\ UsersType' /\ pause' \in [Encoders -> PauseType]
  BY TypeParts DEF queues, control, users, QueuesType, ControlType, UsersType
<1>2. ThreadType'
  BY TypeParts DEF thread, work, ThreadType
<1>3. TypeOK'
  BY <1>1, <1>2, TypePartsNext
<1> QED  BY <1>3 DEF queues, control, thread, work, users, ThreadOwned, KeyHandedOn, KeysAgree

\* The graphics thread.
LEMMA QueueGraphics ==
    ASSUME QueueInv, Tick \/ GraphicsThread
    PROVE  QueueInv'
<1> USE DEF QueueInv
<1>0. GraphicsType /\ QueuesType /\ ControlType /\ ThreadType /\ UsersType
  BY TypeParts
<1>1. CASE Tick
  <2>1. GraphicsType'
    BY <1>0, <1>1, Bounds DEF Tick, GraphicsType
  <2> QED  BY <1>1, <2>1, QueueStill DEF Tick
<1>2. CASE OutputGpuEncoders
  <2> DEFINE active == gpu_encoder_active > 0
             infos  == IF active /\ ~gpu_was_active THEN <<>>
                                                    ELSE vframe_info_buffer_gpu
             ready  == active /\ infos # <<>>
  <2>1. infos \in Seq(InfoType)
    BY <1>0, EmptySeq DEF GraphicsType
  <2>2. ready => Head(infos) \in InfoType /\ Tail(infos) \in Seq(InfoType)
    BY <2>1, HeadTailProperties
  <2>3. /\ gpu_was_active' = active
        /\ vframe_info' = IF ready THEN Head(infos) ELSE NoInfo
        /\ vframe_info_buffer_gpu' = IF ready THEN Tail(infos) ELSE infos
        /\ gpc' = IF ready THEN "queue" ELSE "sleep"
        /\ UNCHANGED <<now, video_time, queues, control, gpu_encode_inactive,
                       thread, users, pause, served>>
    BY <1>2 DEF OutputGpuEncoders
  <2>4. ready \in BOOLEAN /\ active \in BOOLEAN
    OBVIOUS
  <2> HIDE DEF infos, ready, active
  <2>5. GraphicsType'
    <3>1. CASE ready
      BY <1>0, <2>1, <2>2, <2>3, <2>4, <3>1 DEF GraphicsType
    <3>2. CASE ~ready
      BY <1>0, <2>1, <2>2, <2>3, <2>4, <3>2 DEF GraphicsType
    <3> QED  BY <3>1, <3>2
  <2> QED  BY <2>3, <2>5, QueueStill
<1>3. CASE QueueFrame
  <2> DEFINE stopping == gpu_encoder_avail_queue = <<>> /\ gpu_encoder_queue = <<>>
             left == IF stopping THEN 0 ELSE vframe_info.count - 1
  <2>1. /\ gpc = "queue"
        /\ vframe_info' = IF left = 0 THEN NoInfo
                          ELSE [vframe_info EXCEPT !.count = left]
        /\ gpc' = IF left = 0 THEN "sleep" ELSE "queue"
        /\ UNCHANGED <<now, video_time, gpu_was_active, vframe_info_buffer_gpu,
                       control, gpu_encode_inactive, thread, users, pause, served>>
    BY <1>3 DEF QueueFrame
  <2>2. vframe_info \in InfoType
    BY <1>0, <2>1 DEF GraphicsType
  <2>3. left # 0 => left \in 1..MaxLag
    BY <2>2, Bounds DEF InfoType
  <2>4. /\ gpu_encoder_queue' \in Seq(FrameType) /\ Keyed(gpu_encoder_queue')
        /\ gpu_encoder_avail_queue' \in Seq(TextureType)
        /\ Keyed(gpu_encoder_avail_queue')
        /\ semaphore' \in Nat
    <3> DEFINE q == gpu_encoder_queue
               a == gpu_encoder_avail_queue
    <3>1. /\ q \in Seq(FrameType) /\ Keyed(q) /\ a \in Seq(TextureType) /\ Keyed(a)
          /\ semaphore \in Nat
      BY <1>0 DEF QueuesType, KeysAgree, Keyed
    <3>2. CASE UNCHANGED queues
      BY <3>1, <3>2 DEF queues
    <3>3. CASE Duplicate /\ ~stopping /\ AddInterval /\ Post /\ UNCHANGED a
      <4>1. q # <<>>
        BY <3>3 DEF Duplicate
      <4>2. q' = [q EXCEPT ![Len(q)].count = @ + 1]
        BY <3>3 DEF AddInterval
      <4>3. q' \in Seq(FrameType) /\ Keyed(q')
        BY <3>1, <4>1, <4>2, KeyedLonger
      <4>4. a' = a /\ semaphore' = semaphore + 1
        BY <3>3 DEF Post
      <4> QED  BY <3>1, <4>3, <4>4
    <3>4. CASE ~Duplicate /\ NewFrame /\ a' = Tail(a) /\ Post
      <4>1. a # <<>>
        BY <3>4 DEF Duplicate
      <4>2. /\ Tail(a) \in Seq(TextureType) /\ Keyed(Tail(a))
            /\ Head(a) \in TextureType
        BY <3>1, <4>1, KeyedTail
      <4> DEFINE key == Head(a).lock_key + 1
                 f   == [timestamp |-> vframe_info.timestamp, count |-> 1,
                         lock_key |-> key, shared_key |-> key]
      <4>3. key \in Nat /\ vframe_info.timestamp \in Nat
        BY <2>2, <4>2 DEF TextureType, InfoType
      <4>4. q' = Append(q, f) /\ semaphore' = semaphore + 1
        BY <3>4 DEF NewFrame, Post
      <4> HIDE DEF key
      <4>5. f \in FrameType /\ f.shared_key = f.lock_key
        BY <4>3 DEF FrameType
      <4> HIDE DEF f
      <4>6. q' \in Seq(FrameType) /\ Keyed(q')
        BY <3>1, <4>4, <4>5, KeyedAppend
      <4> QED  BY <3>1, <3>4, <4>2, <4>4, <4>6
    <3> QED  BY <1>3, <3>2, <3>3, <3>4 DEF QueueFrame
  <2> HIDE DEF left, stopping
  <2>5. GraphicsType'
    <3>1. CASE left = 0
      BY <1>0, <2>1, <3>1 DEF GraphicsType
    <3>2. CASE left # 0
      <4>1. vframe_info' \in InfoType
        BY <2>1, <2>2, <2>3, <3>2 DEF InfoType
      <4> QED  BY <1>0, <2>1, <3>2, <4>1 DEF GraphicsType
    <3> QED  BY <3>1, <3>2
  <2>6. QueuesType' /\ ControlType' /\ UsersType' /\ pause' \in [Encoders -> PauseType]
    BY <1>0, <2>1, <2>4, TypeParts DEF control, users, QueuesType, ControlType, UsersType
  <2>7. ThreadType'
    BY <1>0, <2>1 DEF thread, work, ThreadType
  <2>8. TypeOK'
    BY <2>5, <2>6, <2>7, TypePartsNext
  <2>9. KeysAgree'
    BY <2>1, <2>4 DEF KeysAgree, Keyed, thread, work
  <2> QED  BY <2>1, <2>8, <2>9 DEF control, thread, work, users, ThreadOwned, KeyHandedOn
<1>4. CASE VideoSleep
  <2>1. /\ gpc = "sleep" /\ now > video_time
        /\ vframe_info_buffer_gpu' =
              IF gpu_was_active
              THEN Append(vframe_info_buffer_gpu,
                          [timestamp |-> video_time, count |-> now - video_time])
              ELSE vframe_info_buffer_gpu
        /\ video_time' = now /\ gpc' = "active"
        /\ UNCHANGED <<now, gpu_was_active, vframe_info, queues, control,
                       gpu_encode_inactive, thread, users, pause, served>>
    BY <1>4 DEF VideoSleep
  <2>2. [timestamp |-> video_time, count |-> now - video_time] \in InfoType
    BY <1>0, <2>1, Bounds DEF GraphicsType, InfoType
  <2>3. vframe_info_buffer_gpu' \in Seq(InfoType)
    BY <1>0, <2>1, <2>2, AppendProperties DEF GraphicsType
  <2>4. /\ now' \in Nat /\ video_time' \in 1..now' /\ now' - video_time' <= MaxLag
    BY <1>0, <2>1, Bounds DEF GraphicsType
  <2>5. GraphicsType'
    BY <1>0, <2>1, <2>3, <2>4 DEF GraphicsType
  <2> QED  BY <2>1, <2>5, QueueStill
<1> QED  BY <1>1, <1>2, <1>3, <1>4 DEF GraphicsThread

\* The encode thread, given that it finds a frame when it takes one.
LEMMA QueueThread ==
    ASSUME QueueInv, PopsOnlyQueued, EncodeThread
    PROVE  QueueInv'
<1> USE DEF QueueInv
<1>0. /\ GraphicsType /\ QueuesType /\ ControlType /\ ThreadType /\ UsersType
      /\ pause \in [Encoders -> PauseType]
  BY TypeParts
<1>1. UNCHANGED <<graphics, control, users>>
  BY DEF EncodeThread, SemWait, Woken, PopFrame, PushFrame, SignalInactive, Skip, Encode
<1>2. GraphicsType' /\ UsersType' /\ (gpu_encode_inactive' \in BOOLEAN => ControlType')
  BY <1>0, <1>1 DEF graphics, control, users, GraphicsType, UsersType, ControlType
<1>3. epc # "none"
  BY DEF EncodeThread, SemWait, Woken, PopFrame, PushFrame, SignalInactive, Skip, Encode,
     EncoderAt
<1>4. ThreadOwned'
  BY <1>1, <1>3 DEF control, users, ThreadOwned
<1>5. CASE SemWait
  <2>1. QueuesType' /\ ThreadType' /\ pause' = pause /\ gpu_encode_inactive' \in BOOLEAN
    BY <1>0, <1>5 DEF SemWait, work, QueuesType, ThreadType, ControlType
  <2>2. KeyHandedOn' /\ KeysAgree'
    BY <1>5 DEF SemWait, work, KeyHandedOn, KeysAgree
  <2> QED  BY <1>0, <1>2, <1>4, <2>1, <2>2, TypePartsNext
<1>6. CASE Woken
  <2>1. gpu_encode_inactive' \in BOOLEAN /\ wait_frames' \in 0..FramesToWait
    <3>1. wait_frames \in 0..FramesToWait /\ gpu_encode_inactive \in BOOLEAN
      BY <1>0 DEF ThreadType, ControlType
    <3>2. \/ UNCHANGED <<wait_frames, gpu_encode_inactive>>
          \/ /\ wait_frames > 0 /\ wait_frames' = wait_frames - 1
             /\ UNCHANGED gpu_encode_inactive
          \/ gpu_encode_inactive' = FALSE /\ UNCHANGED wait_frames
      BY <1>6 DEF Woken
    <3>3. wait_frames > 0 => wait_frames - 1 \in 0..FramesToWait
      BY <3>1, Bounds
    <3>4. UNCHANGED wait_frames \/ wait_frames' \in 0..FramesToWait
      BY <3>2, <3>3
    <3>5. UNCHANGED gpu_encode_inactive \/ gpu_encode_inactive' = FALSE
      BY <3>2
    <3> QED  BY <3>1, <3>4, <3>5
  <2>2. /\ epc = "woken" /\ epc' \in {"exited", "wait", "pop"}
        /\ UNCHANGED <<queues, tf, work, pause, served>>
    BY <1>6 DEF Woken
  <2>3. QueuesType' /\ ThreadType'
    BY <1>0, <2>1, <2>2 DEF queues, work, QueuesType, ThreadType
  <2>4. KeyHandedOn' /\ KeysAgree'
    BY <2>2 DEF queues, work, KeyHandedOn, KeysAgree
  <2> QED  BY <1>0, <1>2, <1>4, <2>1, <2>2, <2>3, <2>4, TypePartsNext
<1>7. CASE PopFrame
  <2>1. /\ epc = "pop" /\ epc' = "encode"
        /\ tf' = Head(gpu_encoder_queue) /\ gpu_encoder_queue' = Tail(gpu_encoder_queue)
        /\ encoders' = gpu_encoders /\ index' = 1 /\ lock_count' = 0
        /\ lock_key' = tf'.lock_key /\ next_key' = tf'.lock_key
        /\ UNCHANGED <<gpu_encoder_avail_queue, semaphore, gpu_encode_inactive,
                       wait_frames, pause, served>>
    BY <1>7 DEF PopFrame
  <2>2. gpu_encoder_queue \in Seq(FrameType) /\ Keyed(gpu_encoder_queue)
    BY <1>0 DEF QueuesType, KeysAgree, Keyed
  <2>3. /\ tf' \in FrameType /\ tf'.shared_key = tf'.lock_key
        /\ gpu_encoder_queue' \in Seq(FrameType) /\ Keyed(gpu_encoder_queue')
    BY <2>1, <2>2, KeyedTail DEF PopsOnlyQueued
  <2>4. tf'.lock_key \in Nat
    BY <2>3 DEF FrameType
  <2>5. Len(encoders') \in Nat /\ encoders' \in Seq(Encoders)
    BY <1>0, <2>1, LenProperties DEF ControlType
  <2>6. index' \in 1..Len(encoders') + 1
    BY <2>1, <2>5
  <2>7. ThreadType'
    BY <1>0, <2>1, <2>3, <2>4, <2>5, <2>6 DEF ThreadType
  <2>8. QueuesType' /\ gpu_encode_inactive' \in BOOLEAN /\ pause' = pause
    BY <1>0, <2>1, <2>3 DEF QueuesType, ControlType
  <2>9. KeyHandedOn' /\ KeysAgree'
    BY <2>1, <2>3 DEF KeyHandedOn, KeysAgree, Keyed
  <2> QED  BY <1>0, <1>2, <1>4, <2>7, <2>8, <2>9, TypePartsNext
<1>8. CASE PushFrame
  <2> DEFINE keyed == [tf EXCEPT !.lock_key = next_key]
             done  == [keyed EXCEPT !.count = @ - 1]
             next == [done EXCEPT !.timestamp = @ + 1]
             q == gpu_encoder_queue
             a == gpu_encoder_avail_queue
  <2>1. /\ epc = "encode" /\ epc' = "pushed" /\ tf' = NoFrame
        /\ IF done.count # 0 THEN q' = <<next>> \o q /\ UNCHANGED a
                             ELSE a' = Append(a, done) /\ UNCHANGED q
        /\ served' = served + 1
        /\ UNCHANGED <<semaphore, gpu_encode_inactive, wait_frames, work, pause>>
    BY <1>8 DEF PushFrame
  <2>2. /\ tf \in FrameType /\ tf.shared_key = next_key /\ next_key \in Nat
    BY <1>0, <2>1 DEF ThreadType, KeysAgree, KeyHandedOn
  <2> DEFINE d == [timestamp |-> tf.timestamp, count |-> tf.count - 1,
                   lock_key |-> next_key, shared_key |-> next_key]
             n == [timestamp |-> tf.timestamp + 1, count |-> tf.count - 1,
                   lock_key |-> next_key, shared_key |-> next_key]
  <2>3. /\ tf.timestamp \in Nat /\ tf.count \in Nat \ {0} /\ tf.lock_key \in Nat
        /\ tf = [timestamp |-> tf.timestamp, count |-> tf.count,
                 lock_key |-> tf.lock_key, shared_key |-> tf.shared_key]
    BY <2>2 DEF FrameType
  <2>4. done = d
    <3>1. keyed = [timestamp |-> tf.timestamp, count |-> tf.count,
                   lock_key |-> next_key, shared_key |-> next_key]
      BY <2>2, <2>3
    <3> HIDE DEF keyed
    <3> QED  BY <3>1
  <2>5. next = n
    <3>1. next = [d EXCEPT !.timestamp = @ + 1]
      BY <2>4
    <3> QED  BY <3>1
  <2> HIDE DEF done, next
  <2>6. /\ d.shared_key = d.lock_key /\ d.count = tf.count - 1
        /\ d.count = 0 => d \in TextureType
        /\ d.count # 0 => n \in FrameType /\ n.shared_key = n.lock_key
    BY <2>2, <2>3 DEF FrameType, TextureType
  <2> HIDE DEF d, n
  <2>7. /\ q \in Seq(FrameType) /\ Keyed(q) /\ a \in Seq(TextureType) /\ Keyed(a)
    BY <1>0 DEF QueuesType, KeysAgree, Keyed
  <2>8. /\ q' \in Seq(FrameType) /\ Keyed(q')
        /\ a' \in Seq(TextureType) /\ Keyed(a')
    <3>1. CASE d.count # 0
      <4>1. n \in FrameType /\ n.shared_key = n.lock_key
        BY <2>6, <3>1
      <4>2. <<n>> \in Seq(FrameType) /\ Keyed(<<n>>)
        BY <4>1 DEF Keyed
      <4>3. q' = <<n>> \o q /\ a' = a
        BY <2>1, <2>4, <2>5, <3>1
      <4> QED  BY <2>7, <4>2, <4>3, KeyedConcat
    <3>2. CASE d.count = 0
      <4>1. a' = Append(a, d) /\ q' = q
        BY <2>1, <2>4, <3>2
      <4> QED  BY <2>6, <2>7, <3>2, <4>1, KeyedAppend
    <3> QED  BY <3>1, <3>2
  <2>9. ThreadType'
    BY <1>0, <2>1 DEF work, ThreadType
  <2>10. QueuesType' /\ gpu_encode_inactive' \in BOOLEAN /\ pause' = pause
    BY <1>0, <2>1, <2>8 DEF QueuesType, ControlType
  <2>11. KeyHandedOn' /\ KeysAgree'
    BY <2>1, <2>8 DEF KeyHandedOn, KeysAgree, Keyed
  <2> QED  BY <1>0, <1>2, <1>4, <2>9, <2>10, <2>11, TypePartsNext
<1>9. CASE SignalInactive
  <2>1. /\ epc = "pushed" /\ epc' = "wait" /\ encoders' = <<>> /\ index' = 1
        /\ gpu_encode_inactive' = TRUE
        /\ UNCHANGED <<queues, wait_frames, tf, lock_key, next_key, lock_count, pause,
                       served>>
    BY <1>9 DEF SignalInactive
  <2>2. encoders' \in Seq(Encoders) /\ Len(encoders') = 0
    BY <2>1, EmptySeq
  <2>3. ThreadType' /\ QueuesType' /\ gpu_encode_inactive' \in BOOLEAN /\ pause' = pause
    BY <1>0, <2>1, <2>2 DEF queues, QueuesType, ThreadType
  <2>4. KeyHandedOn' /\ KeysAgree'
    BY <2>1 DEF queues, KeyHandedOn, KeysAgree
  <2> QED  BY <1>0, <1>2, <1>4, <2>3, <2>4, TypePartsNext
<1>10. ASSUME NEW e \in Encoders, epc = "encode", PauseCheck(e)
       PROVE  pause' \in [Encoders -> PauseType]
  <2>1. tf.timestamp \in Nat
    BY <1>0, <1>10 DEF ThreadType, FrameType
  <2> DEFINE p == [ts_start      |-> IF Unpauses(e) THEN 0 ELSE pause[e].ts_start,
                   ts_end        |-> IF Unpauses(e) THEN 0 ELSE pause[e].ts_end,
                   last_video_ts |-> tf.timestamp]
  <2>2. pause[e].ts_start \in Nat /\ pause[e].ts_end \in Nat
    BY <1>0 DEF PauseType
  <2>3. Unpauses(e) \in BOOLEAN
    BY DEF Unpauses
  <2>4. pause' = [pause EXCEPT ![e] = p]
    BY <1>10 DEF PauseCheck
  <2> HIDE DEF Unpauses
  <2>5. p \in PauseType
    BY <2>1, <2>2, <2>3 DEF PauseType
  <2> HIDE DEF p
  <2> QED  BY <1>0, <2>4, <2>5
<1>11. ASSUME epc = "encode", index \in DOMAIN encoders, index' = index + 1,
              encoders' = encoders
       PROVE  index' \in 1..Len(encoders') + 1
  <2>1. encoders \in Seq(Encoders)
    BY <1>0 DEF ThreadType
  <2>2. DOMAIN encoders = 1..Len(encoders) /\ Len(encoders) \in Nat
    BY <2>1, LenProperties
  <2> QED  BY <1>11, <2>2
<1>12. ASSUME NEW e \in Encoders, Skip(e)
       PROVE  QueueInv'
  <2>1. /\ epc = "encode" /\ index \in DOMAIN encoders /\ index' = index + 1
        /\ UNCHANGED <<queues, gpu_encode_inactive, epc, wait_frames, tf, encoders,
                       lock_key, next_key, lock_count, served>>
        /\ UNCHANGED pause \/ PauseCheck(e)
    BY <1>12 DEF Skip, EncoderAt
  <2>2. index' \in 1..Len(encoders') + 1
    BY <1>11, <2>1
  <2>3. pause' \in [Encoders -> PauseType]
    BY <1>0, <1>10, <2>1
  <2>4. ThreadType' /\ QueuesType' /\ gpu_encode_inactive' \in BOOLEAN
    BY <1>0, <2>1, <2>2 DEF queues, ThreadType, QueuesType, ControlType
  <2>5. KeyHandedOn' /\ KeysAgree'
    BY <2>1 DEF queues, KeyHandedOn, KeysAgree
  <2> QED  BY <1>0, <1>2, <1>4, <2>3, <2>4, <2>5, TypePartsNext
<1>13. ASSUME NEW e \in Encoders, Encode(e)
       PROVE  QueueInv'
  <2>1. /\ epc = "encode" /\ index \in DOMAIN encoders /\ index' = index + 1
        /\ PauseCheck(e)
        /\ tf' = [tf EXCEPT !.shared_key = NextKey]
        /\ next_key' = NextKey /\ lock_key' = NextKey
        /\ lock_count' = lock_count + 1
        /\ UNCHANGED <<queues, gpu_encode_inactive, epc, wait_frames, encoders, served>>
    BY <1>13 DEF Encode, EncoderAt
  <2>2. index' \in 1..Len(encoders') + 1
    BY <1>11, <2>1
  <2>3. NextKey \in Nat
    BY <1>0 DEF NextKey, ThreadType
  <2> HIDE DEF NextKey
  <2>4. tf' \in FrameType /\ tf'.shared_key = NextKey
    BY <1>0, <2>1, <2>3 DEF ThreadType, FrameType
  <2>5. pause' \in [Encoders -> PauseType]
    BY <1>10, <2>1
  <2>6. ThreadType'
    BY <1>0, <2>1, <2>2, <2>3, <2>4 DEF ThreadType
  <2>7. QueuesType' /\ gpu_encode_inactive' \in BOOLEAN
    BY <1>0, <2>1 DEF queues, QueuesType, ControlType
  <2>8. KeyHandedOn' /\ KeysAgree'
    BY <2>1, <2>4 DEF queues, KeyHandedOn, KeysAgree
  <2> QED  BY <1>0, <1>2, <1>4, <2>5, <2>6, <2>7, <2>8, TypePartsNext
<1> QED  BY <1>5, <1>6, <1>7, <1>8, <1>9, <1>12, <1>13 DEF EncodeThread

\* The threads that start, stop and pause an encoder.  A step of theirs that leaves
\* the frame of the encode thread alone, with what the queues become.
LEMMA QueueUsed ==
    ASSUME QueueInv, QueuesType', ControlType', ThreadType', UsersType', ThreadOwned',
           pause' \in [Encoders -> PauseType],
           Keyed(gpu_encoder_queue'), Keyed(gpu_encoder_avail_queue'),
           epc' = "encode" => epc = "encode",
           UNCHANGED <<graphics, tf, lock_key, next_key>>
    PROVE  QueueInv'
<1> USE DEF QueueInv
<1>1. GraphicsType'
  BY TypeParts DEF graphics, GraphicsType
<1>2. TypeOK'
  BY <1>1, TypePartsNext
<1>3. KeyHandedOn' /\ KeysAgree'
  BY DEF KeyHandedOn, KeysAgree, Keyed
<1> QED  BY <1>2, <1>3

LEMMA QueueKeyed == KeysAgree => Keyed(gpu_encoder_queue) /\ Keyed(gpu_encoder_avail_queue)
  BY DEF KeysAgree, Keyed

\* An encoder that moves on: nothing of the frames changes.
LEMMA QueueMove ==
    ASSUME QueueInv, NEW e \in Encoders, NEW u \in UserStates,
           upc' = [upc EXCEPT ![e] = u],
           UNCHANGED <<graphics, gpu_encoder_queue, gpu_encoder_avail_queue, thread,
                       gpu_encode_inactive, starts, pauses, pause, served>>,
           semaphore' \in Nat, ControlType', ThreadOwned'
    PROVE  QueueInv'
<1> USE DEF QueueInv
<1>1. QueuesType /\ ThreadType /\ UsersType /\ pause \in [Encoders -> PauseType]
  BY TypeParts
<1>2. QueuesType' /\ pause' \in [Encoders -> PauseType]
  BY <1>1 DEF QueuesType
<1>3. ThreadType'
  BY <1>1 DEF thread, work, ThreadType
<1>4. UsersType'
  BY <1>1 DEF UsersType
<1>5. Keyed(gpu_encoder_queue') /\ Keyed(gpu_encoder_avail_queue')
  BY QueueKeyed DEF Keyed
<1>6. UNCHANGED <<epc, tf, lock_key, next_key>>
  BY DEF thread, work
<1> QED  BY <1>2, <1>3, <1>4, <1>5, <1>6, QueueUsed

LEMMA QueueStart ==
    ASSUME QueueInv, NEW e \in Encoders, Start(e)
    PROVE  QueueInv'
<1> USE DEF QueueInv
<1>0. /\ QueuesType /\ ControlType /\ ThreadType /\ UsersType
      /\ pause \in [Encoders -> PauseType]
  BY TypeParts
<1>1. /\ gpu_encoders' = Append(gpu_encoders, e)
      /\ pause' = [pause EXCEPT ![e] = NoPause]
      /\ starts' = [starts EXCEPT ![e] = @ + 1] /\ starts[e] < MaxStarts
      /\ upc' = [upc EXCEPT ![e] = "starting"]
      /\ \A f \in Encoders : upc[f] \in {"off", "on"}
      /\ UNCHANGED <<graphics, gpu_encoder_queue, gpu_encoder_active, tf, work, pauses>>
  BY DEF Start
<1>2. gpu_encoders' \in Seq(Encoders) /\ gpu_encoders' # <<>>
  BY <1>0, <1>1, AppendProperties, EmptySeq, LenProperties DEF ControlType
<1>3. pause' \in [Encoders -> PauseType]
  BY <1>0, <1>1 DEF NoPause, PauseType
<1>4. UsersType'
  <2>1. starts[e] + 1 \in 0..MaxStarts
    BY <1>0, <1>1, Bounds DEF UsersType
  <2> QED  BY <1>0, <1>1, <2>1 DEF UsersType, UserStates
<1>5. ThreadOwned'
  BY <1>2 DEF ThreadOwned
<1>6. Keyed(gpu_encoder_queue) /\ Keyed(gpu_encoder_avail_queue)
  BY QueueKeyed
<1>7. CASE gpu_encoders = <<>>
  <2>1. /\ gpu_encode_stop' = FALSE /\ semaphore' = 0 /\ gpu_encode_inactive' = TRUE
        /\ gpu_encoder_avail_queue' = gpu_encoder_avail_queue \o
                                        [i \in 1..NumTextures |-> NoFrame]
        /\ epc' = "wait" /\ wait_frames' = FramesToWait /\ served' = 0
    BY <1>7 DEF Start, InitGpuEncoding
  <2>2. epc = "none"
    BY <1>1, <1>7 DEF ThreadOwned
  <2>3. tf = NoFrame
    BY <1>0, <2>2 DEF ThreadType
  <2> DEFINE new == [i \in 1..NumTextures |-> NoFrame]
  <2>4. NoFrame \in TextureType
    BY DEF NoFrame, TextureType
  <2>5. new \in Seq(TextureType)
    BY <2>4, Bounds, IsASeq
  <2>6. Keyed(new)
    BY DEF Keyed, NoFrame
  <2> HIDE DEF new
  <2>7. /\ gpu_encoder_avail_queue' \in Seq(TextureType)
        /\ Keyed(gpu_encoder_avail_queue')
    <3>1. gpu_encoder_avail_queue' = gpu_encoder_avail_queue \o new
      BY <2>1 DEF new
    <3> QED  BY <1>0, <1>6, <2>5, <2>6, <3>1, KeyedConcat DEF QueuesType
  <2>8. QueuesType' /\ Keyed(gpu_encoder_queue')
    BY <1>0, <1>1, <1>6, <2>1, <2>7 DEF QueuesType
  <2>9. ControlType'
    BY <1>0, <1>1, <1>2, <2>1 DEF ControlType
  <2>10. wait_frames' \in 0..FramesToWait
    BY <2>1, Bounds
  <2>11. ThreadType'
    BY <1>0, <1>1, <2>1, <2>3, <2>10 DEF work, ThreadType
  <2> QED  BY <1>1, <1>3, <1>4, <1>5, <2>1, <2>7, <2>8, <2>9, <2>11, QueueUsed DEF work
<1>8. CASE gpu_encoders # <<>>
  <2>1. UNCHANGED <<gpu_encode_stop, gpu_encoder_avail_queue, semaphore,
                    gpu_encode_inactive, epc, wait_frames, served>>
    BY <1>8 DEF Start
  <2>2. QueuesType' /\ Keyed(gpu_encoder_queue') /\ Keyed(gpu_encoder_avail_queue')
    BY <1>0, <1>1, <1>6, <2>1 DEF QueuesType
  <2>3. ControlType'
    BY <1>0, <1>1, <1>2, <2>1 DEF ControlType
  <2>4. ThreadType'
    BY <1>0, <1>1, <2>1 DEF work, ThreadType
  <2> QED  BY <1>1, <1>3, <1>4, <1>5, <2>1, <2>2, <2>3, <2>4, QueueUsed DEF work
<1> QED  BY <1>7, <1>8

LEMMA QueueStop ==
    ASSUME QueueInv, NEW e \in Encoders, StopSteps(e)
    PROVE  QueueInv'
<1> USE DEF QueueInv
<1>0. QueuesType /\ ControlType /\ ThreadType /\ UsersType
  BY TypeParts
<1>1. CASE Erase(e)
  <2>1. PICK k \in DOMAIN gpu_encoders : gpu_encoders' = RemoveAt(gpu_encoders, k)
    BY <1>1 DEF Erase
  <2>2. /\ upc' = [upc EXCEPT ![e] = IF gpu_encoders' = <<>> THEN "waitfree" ELSE "wait"]
        /\ UNCHANGED <<graphics, queues, gpu_encoder_active, gpu_encode_stop,
                       gpu_encode_inactive, thread, starts, pauses, pause, served>>
    BY <1>1 DEF Erase
  <2>3. gpu_encoders \in Seq(Encoders) /\ DOMAIN gpu_encoders = 1..Len(gpu_encoders)
    BY <1>0, LenProperties DEF ControlType
  <2>4. gpu_encoders' \in Seq(Encoders)
    BY <2>1, <2>3, WithoutOne
  <2>5. ControlType' /\ semaphore' \in Nat
    BY <1>0, <2>2, <2>4 DEF queues, ControlType, QueuesType
  <2>6. CASE gpu_encoders' = <<>>
    <3>1. upc' = [upc EXCEPT ![e] = "waitfree"]
      BY <2>2, <2>6
    <3>2. upc'[e] = "waitfree"
      BY <1>0, <3>1 DEF UsersType
    <3>3. ThreadOwned'
      BY <3>2 DEF ThreadOwned
    <3> QED  BY <2>2, <2>5, <3>1, <3>3, QueueMove DEF queues, UserStates
  <2>7. CASE gpu_encoders' # <<>>
    <3>1. upc' = [upc EXCEPT ![e] = "wait"]
      BY <2>2, <2>7
    <3>2. ThreadOwned'
      BY <2>7 DEF ThreadOwned
    <3> QED  BY <2>2, <2>5, <3>1, <3>2, QueueMove DEF queues, UserStates
  <2> QED  BY <2>6, <2>7
<1>2. CASE WaitInactive(e)
  <2> DEFINE u == IF upc[e] = "wait" THEN "off" ELSE "raise"
  <2>1. /\ upc[e] \in {"wait", "waitfree"} /\ upc' = [upc EXCEPT ![e] = u]
        /\ UNCHANGED <<graphics, queues, control, gpu_encode_inactive, thread,
                       starts, pauses, pause, served>>
    BY <1>2 DEF WaitInactive
  <2>2. ThreadOwned'
    BY <1>0, <2>1 DEF ThreadOwned, control, thread, UsersType
  <2>3. ControlType' /\ semaphore' \in Nat
    BY <1>0, <2>1 DEF queues, control, ControlType, QueuesType
  <2>4. u \in UserStates
    BY DEF UserStates
  <2> HIDE DEF u
  <2> QED  BY <2>1, <2>2, <2>3, <2>4, QueueMove DEF queues
<1>3. CASE RaiseStop(e)
  <2>1. /\ upc' = [upc EXCEPT ![e] = "post"] /\ gpu_encode_stop' = TRUE
        /\ UNCHANGED <<graphics, queues, gpu_encoder_active, gpu_encoders,
                       gpu_encode_inactive, thread, starts, pauses, pause, served>>
    BY <1>3 DEF RaiseStop
  <2>2. upc'[e] = "post"
    BY <1>0, <2>1 DEF UsersType
  <2>3. ThreadOwned' /\ ControlType' /\ semaphore' \in Nat
    BY <1>0, <2>1, <2>2 DEF ThreadOwned, queues, ControlType, QueuesType
  <2> QED  BY <2>1, <2>3, QueueMove DEF queues, UserStates
<1>4. CASE PostStop(e)
  <2>1. /\ upc' = [upc EXCEPT ![e] = "join"] /\ semaphore' = semaphore + 1
        /\ UNCHANGED <<graphics, gpu_encoder_queue, gpu_encoder_avail_queue, control,
                       gpu_encode_inactive, thread, starts, pauses, pause, served>>
    BY <1>4 DEF PostStop
  <2>2. upc'[e] = "join"
    BY <1>0, <2>1 DEF UsersType
  <2>3. ThreadOwned' /\ ControlType' /\ semaphore' \in Nat
    BY <1>0, <2>1, <2>2 DEF ThreadOwned, control, ControlType, QueuesType
  <2> QED  BY <2>1, <2>3, QueueMove DEF UserStates
<1>5. CASE FreeGpuEncoding(e)
  <2>1. /\ epc = "exited" /\ epc' = "none"
        /\ gpu_encoder_queue' = <<>> /\ gpu_encoder_avail_queue' = <<>>
        /\ semaphore' = 0 /\ gpu_encode_inactive' = FALSE
        /\ upc' = [upc EXCEPT ![e] = "off"]
        /\ UNCHANGED <<graphics, control, wait_frames, tf, work, starts, pauses, pause,
                       served>>
    BY <1>5 DEF FreeGpuEncoding
  <2>2. QueuesType' /\ Keyed(gpu_encoder_queue') /\ Keyed(gpu_encoder_avail_queue')
    BY <2>1, EmptySeq DEF QueuesType, Keyed
  <2>3. ControlType' /\ ThreadOwned'
    BY <1>0, <2>1 DEF control, ControlType, ThreadOwned
  <2>4. UsersType' /\ pause' \in [Encoders -> PauseType]
    BY <1>0, <2>1, TypeParts DEF UsersType, UserStates
  <2>5. ThreadType'
    BY <1>0, <2>1 DEF work, ThreadType
  <2> QED  BY <2>1, <2>2, <2>3, <2>4, <2>5, QueueUsed DEF work
<1> QED  BY <1>1, <1>2, <1>3, <1>4, <1>5 DEF StopSteps

LEMMA QueueOthers ==
    ASSUME QueueInv, NEW e \in Encoders,
           Activate(e) \/ Deactivate(e) \/ Pause(e) \/ Unpause(e)
    PROVE  QueueInv'
<1> USE DEF QueueInv
<1>0. /\ GraphicsType /\ QueuesType /\ ControlType /\ ThreadType /\ UsersType
      /\ pause \in [Encoders -> PauseType]
  BY TypeParts
<1>1. CASE Activate(e) \/ Deactivate(e)
  <2>1. PICK u \in {"on", "stopping"} : upc' = [upc EXCEPT ![e] = u]
    BY <1>1 DEF Activate, Deactivate
  <2>2. /\ upc[e] \in {"starting", "on"}
        /\ gpu_encoder_active' \in {gpu_encoder_active + 1, gpu_encoder_active - 1}
        /\ UNCHANGED <<graphics, queues, gpu_encoders, gpu_encode_stop,
                       gpu_encode_inactive, thread, starts, pauses, pause, served>>
    BY <1>1 DEF Activate, Deactivate
  <2>3. ControlType' /\ semaphore' \in Nat
    BY <1>0, <2>2 DEF queues, ControlType, QueuesType
  <2>4. ThreadOwned'
    BY <1>0, <2>1, <2>2 DEF ThreadOwned, thread, UsersType
  <2> QED  BY <2>1, <2>2, <2>3, <2>4, QueueMove DEF queues, UserStates
<1>2. CASE Pause(e) \/ Unpause(e)
  <2>1. now + 2 \in Nat
    BY <1>0 DEF GraphicsType
  <2>2. /\ \/ pause' = [pause EXCEPT ![e].ts_start = now + 2]
           \/ pause' = [pause EXCEPT ![e].ts_end = now + 2]
        /\ pauses' = pauses \/ pauses' = [pauses EXCEPT ![e] = @ + 1]
        /\ UNCHANGED <<graphics, queues, control, gpu_encode_inactive, thread, upc,
                       starts, served>>
    BY <1>2 DEF Pause, Unpause, Closest, users
  <2>3. pause' \in [Encoders -> PauseType]
    BY <1>0, <2>1, <2>2 DEF PauseType
  <2>4. UsersType'
    BY <1>0, <2>2 DEF UsersType
  <2>5. QueuesType' /\ ControlType' /\ ThreadOwned'
    BY <1>0, <2>2 DEF queues, control, thread, QueuesType, ControlType, ThreadOwned
  <2>6. ThreadType'
    BY <1>0, <2>2 DEF thread, work, ThreadType
  <2>7. Keyed(gpu_encoder_queue') /\ Keyed(gpu_encoder_avail_queue')
    BY <2>2, QueueKeyed DEF queues, Keyed
  <2> QED  BY <2>2, <2>3, <2>4, <2>5, <2>6, <2>7, QueueUsed DEF thread, work
<1> QED  BY <1>1, <1>2

-----------------------------------------------------------------------------
(* How many intervals a queue stands for.                                       *)

\* The intervals of a queue are a sum over its positions,
LEMMA IntervalsIsSum ==
    ASSUME NEW S, NEW q \in Seq(S), \A x \in S : x.count \in Nat
    PROVE  LET f == [i \in 1..Len(q) |-> q[i].count]
           IN  /\ Intervals(q) = SumFunctionOnSet(f, 1..Len(q))
               /\ \A i \in 1..Len(q) : f[i] = q[i].count /\ f[i] \in Nat
               /\ IsFiniteSet(1..Len(q)) /\ Len(q) \in Nat
<1>1. DOMAIN q = 1..Len(q) /\ Len(q) \in Nat
  BY LenProperties
<1>2. \A i \in 1..Len(q) : q[i] \in S
  BY ElementOfSeq
<1>3. IsFiniteSet(1..Len(q))
  BY <1>1, FS_Interval
<1> QED  BY <1>1, <1>2, <1>3 DEF Intervals, SumFunction

\* a natural number,
LEMMA IntervalsType ==
    ASSUME NEW S, NEW q \in Seq(S), \A x \in S : x.count \in Nat
    PROVE  Intervals(q) \in Nat
<1> DEFINE f == [i \in 1..Len(q) |-> q[i].count]
<1>1. /\ Intervals(q) = SumFunctionOnSet(f, 1..Len(q))
      /\ \A i \in 1..Len(q) : f[i] \in Nat
      /\ IsFiniteSet(1..Len(q))
  BY IntervalsIsSum
<1> HIDE DEF f
<1> QED  BY <1>1, SumType

\* none when it is empty,
LEMMA IntervalsEmpty == Intervals(<<>>) = 0
<1>1. DOMAIN [i \in DOMAIN <<>> |-> <<>>[i].count] = {}
  BY EmptySeq
<1> QED  BY <1>1, SumOverNothing DEF Intervals, SumFunction

\* with one frame more,
LEMMA IntervalsAppend ==
    ASSUME NEW S, NEW q \in Seq(S), \A x \in S : x.count \in Nat, NEW x \in S
    PROVE  Intervals(Append(q, x)) = Intervals(q) + x.count
<1> DEFINE r == Append(q, x)
           n == Len(q)
           f == [i \in 1..Len(q) |-> q[i].count]
           g == [i \in 1..Len(r) |-> r[i].count]
<1>1. /\ r \in Seq(S) /\ Len(r) = n + 1 /\ n \in Nat
      /\ \A i \in 1..n : r[i] = q[i]
      /\ r[n + 1] = x
  BY AppendProperties, LenProperties
<1> HIDE DEF r
<1>2. /\ Intervals(q) = SumFunctionOnSet(f, 1..n)
      /\ \A i \in 1..n : f[i] = q[i].count /\ f[i] \in Nat
      /\ IsFiniteSet(1..n)
  BY IntervalsIsSum
<1>3. /\ Intervals(r) = SumFunctionOnSet(g, 1..Len(r))
      /\ \A i \in 1..Len(r) : g[i] = r[i].count /\ g[i] \in Nat
  BY <1>1, IntervalsIsSum
<1> HIDE DEF f, g, n
<1>4. 1..Len(r) = (1..n) \cup {n + 1} /\ n + 1 \notin 1..n
  BY <1>1
<1>5. \A i \in (1..n) \cup {n + 1} : g[i] = r[i].count /\ g[i] \in Nat
  BY <1>3, <1>4, Zenon
<1>6. SumFunctionOnSet(g, (1..n) \cup {n + 1}) = g[n + 1] + SumFunctionOnSet(g, 1..n)
  <2>1. Nat \subseteq Int
    OBVIOUS
  <2>2. \A i \in (1..n) \cup {n + 1} : g[i] \in Int
    BY <1>5, <2>1, Zenon
  <2> QED  BY <1>2, <1>4, <2>2, SumWith, Zenon
<1>7. SumFunctionOnSet(g, 1..n) = SumFunctionOnSet(f, 1..n)
  <2>1. \A i \in 1..n : g[i] = f[i]
    BY <1>1, <1>2, <1>5
  <2> QED  BY <1>2, <2>1, SumAgree
<1>8. g[n + 1] = x.count
  BY <1>1, <1>5
<1>9. x.count \in Nat /\ Intervals(q) \in Nat
  BY IntervalsType
<1>10. Intervals(r) = x.count + Intervals(q)
  BY <1>2, <1>3, <1>4, <1>6, <1>7, <1>8, Zenon
<1>11. \A a, b \in Nat : a + b = b + a
  OBVIOUS
<1> QED  BY <1>9, <1>10, <1>11, Zenon DEF r

\* without the first,
LEMMA IntervalsTail ==
    ASSUME NEW S, NEW q \in Seq(S), \A x \in S : x.count \in Nat, q # <<>>
    PROVE  Intervals(q) = Head(q).count + Intervals(Tail(q))
<1> DEFINE r == Tail(q)
           n == Len(r)
           f == [i \in 1..Len(q) |-> q[i].count]
           g == [i \in 1..Len(r) |-> r[i].count]
<1>1. /\ r \in Seq(S) /\ n = Len(q) - 1 /\ n \in Nat /\ Len(q) = n + 1
      /\ \A i \in 1..n : r[i] = q[i + 1]
      /\ Head(q) = q[1]
  BY HeadTailProperties, LenProperties, EmptySeq
<1>2. /\ Intervals(q) = SumFunctionOnSet(f, 1..n + 1)
      /\ \A i \in 1..n + 1 : f[i] = q[i].count /\ f[i] \in Nat
  BY <1>1, IntervalsIsSum
<1>3. /\ Intervals(r) = SumFunctionOnSet(g, 1..n)
      /\ \A i \in 1..n : g[i] = r[i].count /\ g[i] \in Nat
  BY <1>1, IntervalsIsSum
<1> HIDE DEF f, g, n
<1>4. \A i \in 1..n : i + 1 \in 1..n + 1 /\ g[i] = f[i + 1]
  BY <1>1, <1>2, <1>3
<1>5. SumFunctionOnSet(f, 1..n + 1) = f[1] + SumFunctionOnSet(g, 1..n)
  <2>1. \A i \in 1..n + 1 : f[i] \in Int
    BY <1>2
  <2> QED  BY <1>1, <1>4, <2>1, SumShifted
<1>6. f[1] = Head(q).count
  <2>1. 1 \in 1..n + 1
    BY <1>1
  <2> QED  BY <1>1, <1>2, <2>1
<1> QED  BY <1>2, <1>3, <1>5, <1>6

\* and by the first and the rest.
LEMMA IntervalsCons ==
    ASSUME NEW S, NEW q \in Seq(S), \A x \in S : x.count \in Nat, NEW x \in S
    PROVE  Intervals(<<x>> \o q) = x.count + Intervals(q)
<1> DEFINE r == <<x>> \o q
<1>1. <<x>> \in Seq(S) /\ Len(<<x>>) = 1 /\ <<x>>[1] = x
  OBVIOUS
<1>2. /\ r \in Seq(S) /\ Len(r) = 1 + Len(q) /\ Len(q) \in Nat
      /\ \A i \in 1..1 + Len(q) : r[i] = IF i <= 1 THEN <<x>>[i] ELSE q[i - 1]
  BY <1>1, ConcatProperties, LenProperties
<1> HIDE DEF r
<1>3. r # <<>> /\ r[1] = x
  BY <1>1, <1>2, EmptySeq
<1>4. /\ Head(r) = r[1] /\ Tail(r) \in Seq(S) /\ Len(Tail(r)) = Len(r) - 1
      /\ \A i \in 1..Len(Tail(r)) : Tail(r)[i] = r[i + 1]
  BY <1>2, <1>3, HeadTailProperties
<1>5. ASSUME NEW i \in 1..Len(q)  PROVE Tail(r)[i] = q[i]
  <2>1. i + 1 \in 1..1 + Len(q) /\ ~ (i + 1 <= 1) /\ (i + 1) - 1 = i
    BY <1>2
  <2>2. i \in 1..Len(Tail(r))
    BY <1>2, <1>4
  <2> QED  BY <1>2, <1>4, <2>1, <2>2
<1>6. Tail(r) = q
  <2>1. Len(Tail(r)) = Len(q)
    BY <1>2, <1>4
  <2> QED  BY <1>4, <1>5, <2>1, SeqEqual
<1>7. Intervals(r) = Head(r).count + Intervals(Tail(r))
  BY <1>2, <1>3, IntervalsTail
<1> QED  BY <1>3, <1>4, <1>6, <1>7 DEF r

\* The newest frame stands for one interval more.
LEMMA IntervalsLonger ==
    ASSUME NEW q \in Seq(FrameType), q # <<>>
    PROVE  Intervals([q EXCEPT ![Len(q)].count = @ + 1]) = Intervals(q) + 1
<1> DEFINE n == Len(q)
           longer == [q[n] EXCEPT !.count = @ + 1]
           r == [q EXCEPT ![n] = longer]
           f == [i \in 1..Len(q) |-> q[i].count]
           g == [i \in 1..Len(r) |-> r[i].count]
<1>0. \A x \in FrameType : x.count \in Nat
  BY DEF FrameType
<1>1. n \in 1..n /\ n \in Nat /\ DOMAIN q = 1..n
  BY LenProperties, EmptySeq
<1>2. q[n] \in FrameType
  BY <1>1, ElementOfSeq
<1>3. longer \in FrameType /\ longer.count = q[n].count + 1
  BY <1>2, FrameLonger
<1>4. [q EXCEPT ![Len(q)].count = @ + 1] = r
  OBVIOUS
<1> HIDE DEF longer
<1>5. r \in Seq(FrameType) /\ Len(r) = n
  BY <1>1, <1>3, ExceptSeq
<1>6. r[n] = longer /\ \A i \in 1..n : i # n => r[i] = q[i]
  BY <1>1
<1> HIDE DEF r
<1>7. /\ Intervals(q) = SumFunctionOnSet(f, 1..n)
      /\ \A i \in 1..n : f[i] = q[i].count /\ f[i] \in Nat
      /\ IsFiniteSet(1..n)
  BY <1>0, IntervalsIsSum
<1>8. /\ Intervals(r) = SumFunctionOnSet(g, 1..n)
      /\ \A i \in 1..n : g[i] = r[i].count /\ g[i] \in Nat
  BY <1>0, <1>5, IntervalsIsSum
<1> HIDE DEF f, g, n
<1>9. /\ \A i \in 1..n : f[i] \in Int
      /\ \A i \in (1..n) \ {n} : g[i] = f[i]
      /\ g[n] = f[n] + 1 /\ g[n] \in Int /\ f[n] \in Int
  BY <1>1, <1>3, <1>6, <1>7, <1>8
<1>10. SumFunctionOnSet(g, 1..n) = SumFunctionOnSet(f, 1..n) + g[n] - f[n]
  <2>1. /\ IsFiniteSet(1..n) /\ n \in 1..n
        /\ \A i \in 1..n : f[i] \in Int
        /\ g[n] \in Int
        /\ \A i \in (1..n) \ {n} : g[i] = f[i]
    BY <1>1, <1>7, <1>9
  <2> QED  BY <2>1, SumChanged, Zenon
<1>11. SumFunctionOnSet(f, 1..n) \in Nat
  BY <1>0, <1>7, IntervalsType
<1>12. \A a, b, c \in Int : a + (b + 1) - b = a + 1
  OBVIOUS
<1>13. SumFunctionOnSet(g, 1..n) = SumFunctionOnSet(f, 1..n) + 1
  BY <1>9, <1>10, <1>11, <1>12
<1> QED  BY <1>4, <1>7, <1>8, <1>13, Zenon

-----------------------------------------------------------------------------
(* One post for one interval.                                                   *)

\* Intervals of the frame the encode thread holds.
InHand == IF epc = "encode" THEN tf.count ELSE 0

\* A post the encode thread has waited for and not served yet.
Taken == IF epc \in {"woken", "pop", "encode"} THEN 1 ELSE 0

\* While the thread is not told to stop there is one post for each interval
\* queued or in hand, but for the first ones it lets go by.
PostsMatch ==
    ~ gpu_encode_stop /\ epc # "none" =>
        Intervals(gpu_encoder_queue) + InHand
            = semaphore + Taken + (FramesToWait - wait_frames)

\* Without a thread nothing is queued.
NoThreadNoFrames ==
    epc = "none" => gpu_encoder_queue = <<>> /\ gpu_encoder_avail_queue = <<>>

\* The thread exits, and the semaphore is posted to let it, once it is told to.
StopFirst ==
    /\ epc = "exited" => gpu_encode_stop
    /\ (\E e \in Encoders : upc[e] \in {"post", "join"}) => gpu_encode_stop

\* The thread is stopped and freed when no encoder is left, and not before.
Alive ==
    gpu_encoders # <<>> =>
        /\ epc # "none" /\ ~ gpu_encode_stop
        /\ \A e \in Encoders : upc[e] \notin {"waitfree", "raise", "post", "join"}

\* No texture gets lost: all are free, queued or in the hands of the thread.
TexturesKept ==
    epc # "none" =>
        Len(gpu_encoder_queue) + Len(gpu_encoder_avail_queue)
            + (IF epc = "encode" THEN 1 ELSE 0) = NumTextures

CountInv ==
    /\ PostsMatch /\ PopsOnlyQueued
    /\ NoThreadNoFrames /\ StopFirst /\ Alive /\ TexturesKept

\* The count is right at first,
LEMMA CountInit == Init => CountInv
  BY EmptySeq
     DEF Init, CountInv, PostsMatch, PopsOnlyQueued, NoThreadNoFrames, StopFirst, Alive,
         TexturesKept

\* What the queues hold, in numbers.
LEMMA QueueNumbers ==
    ASSUME TypeOK
    PROVE  /\ \A x \in FrameType : x.count \in Nat
           /\ gpu_encoder_queue \in Seq(FrameType)
           /\ gpu_encoder_avail_queue \in Seq(TextureType)
           /\ Intervals(gpu_encoder_queue) \in Nat
           /\ Len(gpu_encoder_queue) \in Nat /\ Len(gpu_encoder_avail_queue) \in Nat
           /\ semaphore \in Nat /\ wait_frames \in 0..FramesToWait
           /\ InHand \in Nat
<1>1. \A x \in FrameType : x.count \in Nat
  BY DEF FrameType
<1>2. QueuesType /\ ThreadType
  BY TypeParts
<1>3. gpu_encoder_queue \in Seq(FrameType) /\ gpu_encoder_avail_queue \in Seq(TextureType)
  BY <1>2 DEF QueuesType
<1>4. Intervals(gpu_encoder_queue) \in Nat
  BY <1>1, <1>3, IntervalsType
<1>5. Len(gpu_encoder_queue) \in Nat /\ Len(gpu_encoder_avail_queue) \in Nat
  BY <1>3, LenProperties
<1>6. InHand \in Nat
  BY <1>1, <1>2 DEF ThreadType, InHand
<1> QED  BY <1>1, <1>2, <1>3, <1>4, <1>5, <1>6 DEF QueuesType, ThreadType

LEMMA LongerType ==
    ASSUME NEW q \in Seq(FrameType), q # <<>>
    PROVE  LET r == [q EXCEPT ![Len(q)].count = @ + 1]
           IN  r \in Seq(FrameType) /\ r # <<>>
<1>1. Len(q) \in 1..Len(q) /\ Len(q) \in Nat /\ DOMAIN q = 1..Len(q)
  BY LenProperties, EmptySeq
<1>2. q[Len(q)] \in FrameType
  BY <1>1, ElementOfSeq
<1> DEFINE longer == [q[Len(q)] EXCEPT !.count = @ + 1]
           r      == [q EXCEPT ![Len(q)] = longer]
<1>3. longer \in FrameType
  BY <1>2, FrameLonger
<1>4. [q EXCEPT ![Len(q)].count = @ + 1] = r
  OBVIOUS
<1> HIDE DEF longer
<1>5. r \in Seq(FrameType) /\ Len(r) = Len(q)
  BY <1>1, <1>3, ExceptSeq
<1>6. r # <<>>
  BY <1>1, <1>5, EmptySeq
<1> QED  BY <1>4, <1>5, <1>6

\* A step that posts for an interval it queues, or leaves both alone.
LEMMA CountQueued ==
    ASSUME TypeOK, CountInv, NEW n \in {0, 1}, n = 1 => epc # "none",
           Intervals(gpu_encoder_queue') = Intervals(gpu_encoder_queue) + n,
           semaphore' = semaphore + n,
           gpu_encoder_queue # <<>> => gpu_encoder_queue' # <<>>,
           n = 0 => UNCHANGED <<gpu_encoder_queue, gpu_encoder_avail_queue>>,
           Len(gpu_encoder_queue') + Len(gpu_encoder_avail_queue')
                = Len(gpu_encoder_queue) + Len(gpu_encoder_avail_queue),
           UNCHANGED <<gpu_encoders, gpu_encode_stop, epc, tf, wait_frames, upc>>
    PROVE  CountInv'
<1> USE DEF CountInv
<1>1. /\ Intervals(gpu_encoder_queue) \in Nat /\ semaphore \in Nat
      /\ wait_frames \in 0..FramesToWait /\ InHand \in Nat
  BY QueueNumbers
<1>2. InHand' = InHand /\ Taken' = Taken /\ Taken \in {0, 1}
  BY DEF InHand, Taken
<1>3. PostsMatch'
  BY <1>1, <1>2, Bounds DEF PostsMatch
<1>4. NoThreadNoFrames' /\ PopsOnlyQueued' /\ StopFirst' /\ Alive'
  BY DEF NoThreadNoFrames, PopsOnlyQueued, StopFirst, Alive
<1>5. TexturesKept'
  BY DEF TexturesKept
<1> QED  BY <1>3, <1>4, <1>5

LEMMA CountGraphics ==
    ASSUME QueueInv, CountInv, Tick \/ GraphicsThread
    PROVE  CountInv'
<1>0. TypeOK
  BY DEF QueueInv
<1> DEFINE q == gpu_encoder_queue
           a == gpu_encoder_avail_queue
<1>1. /\ \A x \in FrameType : x.count \in Nat
      /\ q \in Seq(FrameType) /\ a \in Seq(TextureType)
      /\ Intervals(q) \in Nat /\ semaphore \in Nat
      /\ Len(q) \in Nat /\ Len(a) \in Nat
  BY <1>0, QueueNumbers
<1>2. CASE UNCHANGED <<queues, control, thread, users>>
  <2>1. UNCHANGED <<q, a, semaphore, gpu_encoders, gpu_encode_stop, epc, tf, wait_frames, upc>>
    BY <1>2 DEF queues, control, thread, users
  <2>2. semaphore' = semaphore + 0 /\ Intervals(q') = Intervals(q) + 0
    BY <1>1, <2>1
  <2> QED  BY <1>0, <2>1, <2>2, CountQueued
<1>3. CASE QueueFrame /\ ~ UNCHANGED queues
  <2>1. /\ UNCHANGED <<control, thread, users>>
        /\ \/ Duplicate /\ q # <<>> /\ AddInterval /\ UNCHANGED a
           \/ ~ Duplicate /\ NewFrame /\ a' = Tail(a)
        /\ semaphore' = semaphore + 1
    BY <1>3 DEF QueueFrame, Duplicate, Post
  <2>2. UNCHANGED <<gpu_encoders, gpu_encode_stop, epc, tf, wait_frames, upc>>
    BY <2>1 DEF control, thread, users
  <2>3. CASE Duplicate /\ q # <<>> /\ AddInterval /\ UNCHANGED a
    <3>1. q' = [q EXCEPT ![Len(q)].count = @ + 1]
      BY <2>3 DEF AddInterval
    <3>2. Intervals(q') = Intervals(q) + 1
      BY <1>1, <2>3, <3>1, IntervalsLonger
    <3>3. Len(q') = Len(q) /\ q' # <<>>
      <4>1. DOMAIN q' = DOMAIN q
        BY <3>1
      <4>2. q' \in Seq(FrameType) /\ q' # <<>>
        BY <1>1, <2>3, <3>1, LongerType
      <4> QED  BY <1>1, <4>1, <4>2, LenProperties
    <3>4. epc # "none"
      BY <2>3 DEF CountInv, NoThreadNoFrames
    <3> QED  BY <1>0, <2>1, <2>2, <2>3, <3>2, <3>3, <3>4, CountQueued
  <2>4. CASE ~ Duplicate /\ NewFrame /\ a' = Tail(a)
    <3>1. a # <<>>
      BY <2>4 DEF Duplicate
    <3> DEFINE key == Head(a).lock_key + 1
               f   == [timestamp |-> vframe_info.timestamp, count |-> 1,
                       lock_key |-> key, shared_key |-> key]
    <3>2. key \in Nat /\ vframe_info.timestamp \in Nat
      <4>1. Head(a) \in TextureType
        BY <1>1, <3>1, HeadTailProperties
      <4>2. vframe_info \in InfoType
        BY <1>0, <1>3, TypeParts DEF GraphicsType, QueueFrame
      <4> QED  BY <4>1, <4>2 DEF TextureType, InfoType
    <3>3. q' = Append(q, f)
      BY <2>4 DEF NewFrame
    <3> HIDE DEF key
    <3>4. f \in FrameType /\ f.count = 1
      BY <3>2 DEF FrameType
    <3> HIDE DEF f
    <3>5. Intervals(q') = Intervals(q) + 1
      BY <1>1, <3>3, <3>4, IntervalsAppend
    <3>6. Len(q') = Len(q) + 1 /\ q' # <<>>
      BY <1>1, <3>3, <3>4, AppendProperties, LenProperties
    <3>7. Len(a') = Len(a) - 1
      BY <1>1, <2>4, <3>1, HeadTailProperties
    <3>8. epc # "none"
      BY <3>1 DEF CountInv, NoThreadNoFrames
    <3> QED  BY <1>0, <1>1, <2>1, <2>2, <3>5, <3>6, <3>7, <3>8, CountQueued
  <2> QED  BY <2>1, <2>3, <2>4
<1> QED
  BY <1>2, <1>3 DEF Tick, GraphicsThread, OutputGpuEncoders, VideoSleep, QueueFrame

LEMMA CountThread ==
    ASSUME QueueInv, CountInv, EncodeThread
    PROVE  CountInv'
<1> USE Bounds DEF CountInv
<1>0. TypeOK /\ QueuesType /\ ThreadType
  BY TypeParts DEF QueueInv
<1> DEFINE q == gpu_encoder_queue
           a == gpu_encoder_avail_queue
<1>1. /\ \A x \in FrameType : x.count \in Nat
      /\ q \in Seq(FrameType) /\ a \in Seq(TextureType)
      /\ Intervals(q) \in Nat /\ semaphore \in Nat
      /\ Len(q) \in Nat /\ Len(a) \in Nat /\ wait_frames \in 0..FramesToWait
  BY <1>0, QueueNumbers
<1>2. UNCHANGED <<gpu_encoders, gpu_encode_stop, upc>>
  BY DEF EncodeThread, SemWait, Woken, PopFrame, PushFrame, SignalInactive, Skip, Encode,
     control, users
<1>3. epc \notin {"none", "exited"} /\ epc' # "none" /\ (epc' = "exited" => gpu_encode_stop)
  BY DEF EncodeThread, SemWait, Woken, PopFrame, PushFrame, SignalInactive, Skip, Encode,
     EncoderAt
<1>4. NoThreadNoFrames' /\ StopFirst' /\ Alive'
  BY <1>2, <1>3 DEF NoThreadNoFrames, StopFirst, Alive
<1>5. CASE SemWait
  <2>1. /\ epc = "wait" /\ epc' = "woken" /\ semaphore > 0 /\ semaphore' = semaphore - 1
        /\ UNCHANGED <<q, a, wait_frames, tf>>
    BY <1>5 DEF SemWait
  <2>2. PostsMatch'
    BY <1>1, <1>2, <2>1 DEF PostsMatch, InHand, Taken
  <2> QED  BY <1>4, <2>1, <2>2 DEF TexturesKept, PopsOnlyQueued
<1>6. CASE Woken
  <2>1. /\ epc = "woken" /\ UNCHANGED <<q, a, semaphore, tf>>
    BY <1>6 DEF Woken, queues
  <2>2. PostsMatch' /\ PopsOnlyQueued'
    <3>1. CASE gpu_encode_stop
      BY <1>2, <1>6, <3>1 DEF Woken, PostsMatch, PopsOnlyQueued
    <3>2. CASE ~ gpu_encode_stop /\ wait_frames > 0 /\ wait_frames' = wait_frames - 1
               /\ epc' = "wait"
      BY <1>1, <1>2, <2>1, <3>2 DEF PostsMatch, InHand, Taken, PopsOnlyQueued
    <3>3. CASE ~ gpu_encode_stop /\ wait_frames = 0 /\ wait_frames' = wait_frames
               /\ epc' = "pop"
      <4>1. Intervals(q) = semaphore + 1 + (FramesToWait - 0)
        BY <1>1, <2>1, <3>3 DEF PostsMatch, InHand, Taken
      <4>2. Intervals(q) # 0
        BY <1>1, <4>1
      <4>3. q # <<>>
        BY <4>2, IntervalsEmpty
      <4> QED  BY <1>1, <1>2, <2>1, <3>3, <4>3 DEF PostsMatch, InHand, Taken, PopsOnlyQueued
    <3> QED  BY <1>6, <3>1, <3>2, <3>3 DEF Woken
  <2>3. epc' \in {"exited", "wait", "pop"}
    BY <1>6 DEF Woken
  <2> QED  BY <1>4, <2>1, <2>2, <2>3 DEF TexturesKept
<1>7. CASE PopFrame
  <2>1. /\ epc = "pop" /\ epc' = "encode" /\ tf' = Head(q) /\ q' = Tail(q)
        /\ UNCHANGED <<a, semaphore, wait_frames>>
    BY <1>7 DEF PopFrame
  <2>2. q # <<>>
    BY <2>1 DEF PopsOnlyQueued
  <2>3. Tail(q) \in Seq(FrameType) /\ Len(Tail(q)) = Len(q) - 1 /\ Head(q) \in FrameType
    BY <1>1, <2>2, HeadTailProperties
  <2>4. /\ Intervals(q) = Head(q).count + Intervals(Tail(q))
        /\ Intervals(Tail(q)) \in Nat /\ Head(q).count \in Nat
    BY <1>1, <2>2, <2>3, IntervalsTail, IntervalsType
  <2>5. PostsMatch'
    <3>1. Intervals(q') + InHand' = Intervals(q)
      BY <2>1, <2>4 DEF InHand
    <3> QED  BY <1>1, <1>2, <2>1, <3>1 DEF PostsMatch, InHand, Taken
  <2>6. TexturesKept'
    BY <1>1, <2>1, <2>3 DEF TexturesKept
  <2> QED  BY <1>4, <2>1, <2>5, <2>6 DEF PopsOnlyQueued
<1>8. CASE PushFrame
  <2> DEFINE keyed == [tf EXCEPT !.lock_key = next_key]
             done  == [keyed EXCEPT !.count = @ - 1]
             next  == [done EXCEPT !.timestamp = @ + 1]
  <2>1. /\ epc = "encode" /\ epc' = "pushed"
        /\ IF done.count # 0 THEN q' = <<next>> \o q /\ UNCHANGED a
                             ELSE a' = Append(a, done) /\ UNCHANGED q
        /\ UNCHANGED <<semaphore, wait_frames>>
    BY <1>8 DEF PushFrame
  <2>2. tf \in FrameType /\ next_key \in Nat
    BY <1>0, <2>1 DEF ThreadType
  <2>4. done.count = tf.count - 1 /\ next.count = tf.count - 1
        /\ (done.count # 0 => next \in FrameType)
    BY <2>2, FrameServed
  <2>5. tf.count \in Nat
    BY <1>1, <2>2
  <2> HIDE DEF done, next
  <2>6. /\ Intervals(q') = Intervals(q) + (tf.count - 1)
        /\ Len(q') + Len(a') = Len(q) + Len(a) + 1
    <3>1. CASE done.count # 0
      <4>1. next \in FrameType /\ q' = <<next>> \o q /\ a' = a
        BY <2>1, <2>4, <3>1
      <4>2. Intervals(q') = next.count + Intervals(q)
        BY <1>1, <4>1, IntervalsCons
      <4>3. Len(<<next>>) = 1 /\ <<next>> \in Seq(FrameType)
        BY <4>1
      <4>4. Len(q') = 1 + Len(q)
        BY <1>1, <4>1, <4>3, ConcatProperties
      <4> QED  BY <1>1, <2>4, <2>5, <4>1, <4>2, <4>4
    <3>2. CASE done.count = 0
      <4>1. a' = Append(a, done) /\ q' = q /\ tf.count - 1 = 0
        BY <2>1, <2>4, <3>2
      <4>2. Len(a') = Len(a) + 1
        BY <1>1, <4>1
      <4> QED  BY <1>1, <4>1, <4>2
    <3> QED  BY <3>1, <3>2
  <2>7. PostsMatch'
    <3>1. InHand = tf.count /\ InHand' = 0 /\ Taken = 1 /\ Taken' = 0
      BY <2>1 DEF InHand, Taken
    <3>2. Intervals(q') + InHand' = Intervals(q) + InHand - 1 /\ tf.count \in Nat
      BY <1>1, <2>5, <2>6, <3>1
    <3>3. ~ gpu_encode_stop =>
            Intervals(q) + InHand = semaphore + 1 + (FramesToWait - wait_frames)
      BY <2>1, <3>1 DEF PostsMatch
    <3>4. ~ gpu_encode_stop =>
            Intervals(q') + InHand' = semaphore + 0 + (FramesToWait - wait_frames)
      BY <1>1, <3>1, <3>2, <3>3
    <3> QED  BY <1>2, <2>1, <3>1, <3>4 DEF PostsMatch
  <2>8. TexturesKept'
    BY <1>1, <2>1, <2>6 DEF TexturesKept
  <2> QED  BY <1>4, <2>1, <2>7, <2>8 DEF PopsOnlyQueued
<1>9. CASE SignalInactive
  <2>1. epc = "pushed" /\ epc' = "wait" /\ UNCHANGED <<q, a, semaphore, wait_frames, tf>>
    BY <1>9 DEF SignalInactive, queues
  <2>2. PostsMatch'
    BY <1>1, <1>2, <2>1 DEF PostsMatch, InHand, Taken
  <2> QED  BY <1>4, <2>1, <2>2 DEF TexturesKept, PopsOnlyQueued
<1>10. ASSUME NEW e \in Encoders, Skip(e) \/ Encode(e)
       PROVE  CountInv'
  <2>1. /\ epc = "encode" /\ UNCHANGED <<q, a, semaphore, wait_frames, epc>>
        /\ \/ UNCHANGED tf
           \/ tf' = [tf EXCEPT !.shared_key = NextKey]
    BY <1>10 DEF Skip, Encode, EncoderAt, queues
  <2>2. tf'.count = tf.count
    <3>1. tf \in FrameType
      BY <1>0, <2>1 DEF ThreadType
    <3> QED  BY <2>1, <3>1, FrameReleased
  <2>3. PostsMatch'
    BY <1>1, <1>2, <2>1, <2>2 DEF PostsMatch, InHand, Taken
  <2> QED  BY <1>4, <2>1, <2>3 DEF TexturesKept, PopsOnlyQueued
<1> QED  BY <1>5, <1>6, <1>7, <1>8, <1>9, <1>10 DEF EncodeThread

\* An encoder that starts brings up the thread, or finds it running.
LEMMA CountStart ==
    ASSUME QueueInv, CountInv, NEW e \in Encoders, Start(e)
    PROVE  CountInv'
<1> USE Bounds DEF CountInv
<1>0. TypeOK /\ QueuesType /\ ControlType /\ UsersType
  BY TypeParts DEF QueueInv
<1>1. /\ gpu_encoders' = Append(gpu_encoders, e)
      /\ upc' = [upc EXCEPT ![e] = "starting"]
      /\ \A f \in Encoders : upc[f] \in {"off", "on"}
      /\ UNCHANGED <<gpu_encoder_queue, tf>>
  BY DEF Start
<1>2. \A f \in Encoders : upc'[f] \in {"off", "on", "starting"}
  BY <1>0, <1>1 DEF UsersType
<1>3. CASE gpu_encoders = <<>>
  <2>1. /\ gpu_encode_stop' = FALSE /\ semaphore' = 0
        /\ gpu_encoder_avail_queue' = gpu_encoder_avail_queue \o
                                        [i \in 1..NumTextures |-> NoFrame]
        /\ epc' = "wait" /\ wait_frames' = FramesToWait
    BY <1>3 DEF Start, InitGpuEncoding
  <2>2. epc = "none"
    BY <1>1, <1>3 DEF QueueInv, ThreadOwned
  <2>3. gpu_encoder_queue = <<>> /\ gpu_encoder_avail_queue = <<>>
    BY <2>2 DEF NoThreadNoFrames
  <2> DEFINE new == [i \in 1..NumTextures |-> NoFrame]
  <2>4. NoFrame \in TextureType
    BY DEF NoFrame, TextureType
  <2>5. new \in Seq(TextureType) /\ Len(new) = NumTextures
    <3>1. new \in Seq(TextureType)
      BY <2>4, IsASeq
    <3>2. DOMAIN new = 1..NumTextures
      OBVIOUS
    <3> HIDE DEF new
    <3> QED  BY <3>1, <3>2, LenProperties
  <2> HIDE DEF new
  <2>6. gpu_encoder_avail_queue' = <<>> \o new /\ <<>> \in Seq(TextureType) /\ Len(<<>>) = 0
    BY <2>1, <2>3 DEF new
  <2>7. Len(gpu_encoder_avail_queue') = NumTextures /\ Len(gpu_encoder_queue') = 0
    BY <1>1, <2>3, <2>5, <2>6, ConcatProperties, EmptySeq
  <2>8. Intervals(gpu_encoder_queue') = 0
    BY <1>1, <2>3, IntervalsEmpty
  <2> QED
    BY <1>2, <2>1, <2>7, <2>8
       DEF PostsMatch, InHand, Taken, PopsOnlyQueued, NoThreadNoFrames, StopFirst, Alive,
           TexturesKept
<1>4. CASE gpu_encoders # <<>>
  <2>1. UNCHANGED <<gpu_encode_stop, gpu_encoder_avail_queue, semaphore, epc, wait_frames>>
    BY <1>4 DEF Start
  <2> QED
    BY <1>1, <1>2, <1>4, <2>1
       DEF PostsMatch, InHand, Taken, PopsOnlyQueued, NoThreadNoFrames, StopFirst, Alive,
           TexturesKept
<1> QED  BY <1>3, <1>4

LEMMA CountStop ==
    ASSUME QueueInv, CountInv, NEW e \in Encoders, StopSteps(e)
    PROVE  CountInv'
<1> USE DEF CountInv
<1>0. TypeOK /\ QueuesType /\ ControlType /\ UsersType
  BY TypeParts DEF QueueInv
<1>1. CASE Erase(e)
  <2>1. /\ upc[e] = "stopping"
        /\ upc' = [upc EXCEPT ![e] = IF gpu_encoders' = <<>> THEN "waitfree" ELSE "wait"]
        /\ UNCHANGED <<gpu_encoder_queue, gpu_encoder_avail_queue, semaphore,
                       gpu_encode_stop, epc, wait_frames, tf>>
    BY <1>1 DEF Erase, queues, thread
  <2>2. gpu_encoders # <<>>
    BY <1>1, EmptySeq DEF Erase
  <2>3. \A f \in Encoders : /\ upc'[f] \in {"post", "join"} => upc[f] \in {"post", "join"}
                            /\ gpu_encoders' # <<>> /\ upc'[f] = "waitfree"
                                    => upc[f] = "waitfree"
                            /\ upc'[f] = "raise" => upc[f] = "raise"
    BY <1>0, <2>1 DEF UsersType
  <2> QED
    BY <2>1, <2>2, <2>3
       DEF PostsMatch, InHand, Taken, PopsOnlyQueued, NoThreadNoFrames, StopFirst, Alive,
           TexturesKept
<1>2. CASE WaitInactive(e)
  <2>1. /\ upc[e] \in {"wait", "waitfree"}
        /\ upc' = [upc EXCEPT ![e] = IF upc[e] = "wait" THEN "off" ELSE "raise"]
        /\ UNCHANGED <<gpu_encoder_queue, gpu_encoder_avail_queue, semaphore,
                       gpu_encoders, gpu_encode_stop, epc, wait_frames, tf>>
    BY <1>2 DEF WaitInactive, queues, control, thread
  <2>2. \A f \in Encoders :
            /\ upc'[f] \in {"post", "join"} => upc[f] \in {"post", "join"}
            /\ upc'[f] \in {"waitfree", "raise"} => upc[f] \in {"waitfree", "raise"}
    BY <1>0, <2>1 DEF UsersType
  <2> QED
    BY <2>1, <2>2
       DEF PostsMatch, InHand, Taken, PopsOnlyQueued, NoThreadNoFrames, StopFirst, Alive,
           TexturesKept
<1>3. CASE RaiseStop(e) \/ PostStop(e)
  <2>1. /\ upc[e] \in {"raise", "post"} /\ gpu_encode_stop'
        /\ UNCHANGED <<gpu_encoder_queue, gpu_encoder_avail_queue, gpu_encoders, epc,
                       wait_frames, tf>>
    BY <1>3 DEF RaiseStop, PostStop, StopFirst, queues, control, thread
  <2>2. gpu_encoders = <<>>
    BY <2>1 DEF Alive
  <2> QED
    BY <2>1, <2>2
       DEF PostsMatch, PopsOnlyQueued, NoThreadNoFrames, StopFirst, Alive, TexturesKept
<1>4. CASE FreeGpuEncoding(e)
  <2>1. /\ upc[e] = "join" /\ epc' = "none" /\ upc' = [upc EXCEPT ![e] = "off"]
        /\ gpu_encoder_queue' = <<>> /\ gpu_encoder_avail_queue' = <<>>
        /\ UNCHANGED <<gpu_encoders, gpu_encode_stop>>
    BY <1>4 DEF FreeGpuEncoding, control
  <2>2. gpu_encoders = <<>>
    BY <2>1 DEF Alive
  <2>3. gpu_encode_stop
    BY <2>1 DEF StopFirst
  <2> QED
    BY <2>1, <2>2, <2>3
       DEF PostsMatch, PopsOnlyQueued, NoThreadNoFrames, StopFirst, Alive, TexturesKept
<1> QED  BY <1>1, <1>2, <1>3, <1>4 DEF StopSteps

LEMMA CountOthers ==
    ASSUME QueueInv, CountInv, NEW e \in Encoders,
           Activate(e) \/ Deactivate(e) \/ Pause(e) \/ Unpause(e)
    PROVE  CountInv'
<1>0. UsersType
  BY TypeParts DEF QueueInv
<1>1. /\ UNCHANGED <<gpu_encoder_queue, gpu_encoder_avail_queue, semaphore, gpu_encoders,
                     gpu_encode_stop, epc, wait_frames, tf>>
      /\ \/ UNCHANGED upc
         \/ upc' = [upc EXCEPT ![e] = "on"]
         \/ upc' = [upc EXCEPT ![e] = "stopping"]
  <2>1. CASE Activate(e)
    BY <2>1 DEF Activate, queues, control, thread
  <2>2. CASE Deactivate(e)
    BY <2>2 DEF Deactivate, queues, control, thread
  <2>3. CASE Pause(e)
    BY <2>3 DEF Pause, queues, control, thread
  <2>4. CASE Unpause(e)
    BY <2>4 DEF Unpause, queues, control, thread, users
  <2> QED  BY <2>1, <2>2, <2>3, <2>4
<1>2. \A f \in Encoders :
        upc'[f] \in {"waitfree", "raise", "post", "join"} => upc'[f] = upc[f]
  BY <1>0, <1>1 DEF UsersType
<1> QED
  BY <1>1, <1>2
     DEF CountInv, PostsMatch, InHand, Taken, PopsOnlyQueued, NoThreadNoFrames, StopFirst,
         Alive, TexturesKept

\* and after every step.
LEMMA CountStep == QueueInv /\ CountInv /\ [Next]_vars => CountInv'
<1> SUFFICES ASSUME QueueInv, CountInv, [Next]_vars PROVE CountInv'
  OBVIOUS
<1>1. CASE Tick \/ GraphicsThread
  BY <1>1, CountGraphics
<1>2. CASE EncodeThread
  BY <1>2, CountThread
<1>3. ASSUME NEW e \in Encoders,
             \/ Start(e) \/ Activate(e) \/ Deactivate(e)
             \/ StopSteps(e) \/ Pause(e) \/ Unpause(e)
      PROVE  CountInv'
  BY <1>3, CountStart, CountStop, CountOthers
<1>4. CASE UNCHANGED vars
  <2>1. UNCHANGED <<gpu_encoder_queue, gpu_encoder_avail_queue, semaphore, gpu_encoders,
                    gpu_encode_stop, epc, wait_frames, tf, upc>>
    BY <1>4 DEF vars, queues, control, thread, users
  <2> QED
    BY <2>1
       DEF CountInv, PostsMatch, InHand, Taken, PopsOnlyQueued, NoThreadNoFrames, StopFirst,
           Alive, TexturesKept
<1> QED  BY <1>1, <1>2, <1>3, <1>4 DEF Next

\* and after every step that pops what is queued.
LEMMA QueueStep == QueueInv /\ PopsOnlyQueued /\ [Next]_vars => QueueInv'
<1> SUFFICES ASSUME QueueInv, PopsOnlyQueued, [Next]_vars PROVE QueueInv'
  OBVIOUS
<1>1. CASE Tick \/ GraphicsThread
  BY <1>1, QueueGraphics
<1>2. CASE EncodeThread
  BY <1>2, QueueThread
<1>3. ASSUME NEW e \in Encoders,
             \/ Start(e) \/ Activate(e) \/ Deactivate(e)
             \/ StopSteps(e) \/ Pause(e) \/ Unpause(e)
      PROVE  QueueInv'
  BY <1>3, QueueStart, QueueStop, QueueOthers
<1>4. CASE UNCHANGED vars
  <2>1. GraphicsType'
    BY <1>4, TypeParts DEF vars, graphics, QueueInv, GraphicsType
  <2> QED  BY <1>4, <2>1, QueueStill DEF vars
<1> QED  BY <1>1, <1>2, <1>3, <1>4 DEF Next

\* So both always hold.
LEMMA InvariantCount == Spec => [](QueueInv /\ CountInv)
<1>1. CountInv => PopsOnlyQueued
  BY DEF CountInv
<1> QED  BY <1>1, QueueInit, CountInit, QueueStep, CountStep, PTL DEF Spec

\* The encode thread and the graphics thread keep every variable's type; in
\* particular a frame goes back to the free textures only when all the intervals it
\* stands for are served (obs-video-gpu-encode.c, obs-video.c).
THEOREM TypeCorrect == Spec => []TypeOK
<1>1. QueueInv => TypeOK
  BY DEF QueueInv
<1> QED  BY <1>1, InvariantCount, PTL

\* Whoever takes a texture's keyed mutex next does so with the key it was left with
\* (tf.lock_key in gpu_encode_thread, queue_frame).
THEOREM KeysHandedOn == Spec => []KeysAgree
<1>1. QueueInv => KeysAgree
  BY DEF QueueInv
<1> QED  BY <1>1, InvariantCount, PTL

\* The encode thread, which takes a frame off the queue for each post it waited for
\* without looking whether there is one, finds one (gpu_encode_thread), whatever the
\* encoders that start, stop and are paused do.
THEOREM ThreadFindsAFrame == Spec => []PopsOnlyQueued
<1>1. CountInv => PopsOnlyQueued
  BY DEF CountInv
<1> QED  BY <1>1, InvariantCount, PTL

-----------------------------------------------------------------------------
(* No interval is lost.                                                         *)

\* What NothingLost says of one step.
KeepsIntervals ==
    gpu_encoders # <<>> /\ gpu_encoders' # <<>> /\ (gpu_was_active \/ ~ gpu_was_active')
        => Accounted' = Accounted + (IF gpu_was_active THEN video_time' - video_time ELSE 0)

\* What the parts of the sum are.
LEMMA AccountedParts ==
    ASSUME TypeOK
    PROVE  /\ Accounted = Intervals(vframe_info_buffer_gpu) + vframe_info.count
                            + Intervals(gpu_encoder_queue) + InHand + served
           /\ vframe_info_buffer_gpu \in Seq(InfoType)
           /\ \A x \in InfoType : x.count \in Nat
           /\ Intervals(vframe_info_buffer_gpu) \in Nat
           /\ vframe_info.count \in Nat
           /\ gpc # "queue" => vframe_info.count = 0
           /\ served \in Nat /\ video_time \in Nat /\ now \in Nat
<1>1. GraphicsType /\ ThreadType
  BY TypeParts
<1>2. \A x \in InfoType : x.count \in Nat
  BY Bounds DEF InfoType
<1>3. Intervals(vframe_info_buffer_gpu) \in Nat
  BY <1>1, <1>2, IntervalsType DEF GraphicsType
<1>4. vframe_info.count \in Nat /\ (gpc # "queue" => vframe_info.count = 0)
  BY <1>1, <1>2 DEF GraphicsType, NoInfo
<1>5. served \in Nat /\ video_time \in Nat /\ now \in Nat
  BY <1>1 DEF GraphicsType, ThreadType
<1> QED  BY <1>1, <1>2, <1>3, <1>4, <1>5 DEF Accounted, InHand, GraphicsType

\* The same sum after a step (its parts are typed by the lemma above).
LEMMA AccountedNext ==
    Accounted' = Intervals(vframe_info_buffer_gpu') + vframe_info'.count
                    + Intervals(gpu_encoder_queue') + InHand' + served'
  BY DEF Accounted, InHand

\* A step that touches none of the parts.
LEMMA KeptStill ==
    ASSUME TypeOK,
           UNCHANGED <<vframe_info_buffer_gpu, vframe_info, gpu_encoder_queue, epc, tf,
                       served, video_time>>
    PROVE  KeepsIntervals
<1>1. Accounted' = Accounted
  BY DEF Accounted
<1>2. Accounted \in Nat
  BY AccountedParts, QueueNumbers
<1> QED  BY <1>1, <1>2, AccountedParts DEF KeepsIntervals

LEMMA KeptGraphics ==
    ASSUME QueueInv, CountInv, GraphicsThread
    PROVE  KeepsIntervals
<1>0. TypeOK
  BY DEF QueueInv
<1> DEFINE q == gpu_encoder_queue
           b == vframe_info_buffer_gpu
<1>1. /\ \A x \in FrameType : x.count \in Nat
      /\ q \in Seq(FrameType) /\ gpu_encoder_avail_queue \in Seq(TextureType)
      /\ Intervals(q) \in Nat /\ InHand \in Nat
  BY <1>0, QueueNumbers
<1>2. /\ Accounted = Intervals(b) + vframe_info.count + Intervals(q) + InHand + served
      /\ b \in Seq(InfoType) /\ \A x \in InfoType : x.count \in Nat
      /\ Intervals(b) \in Nat /\ vframe_info.count \in Nat
      /\ gpc # "queue" => vframe_info.count = 0
      /\ served \in Nat /\ video_time \in Nat /\ now \in Nat
  BY <1>0, AccountedParts
<1>3. Accounted' = Intervals(b') + vframe_info'.count + Intervals(q') + InHand' + served'
  BY AccountedNext
<1>4. InHand' = InHand /\ served' = served
  BY DEF GraphicsThread, OutputGpuEncoders, QueueFrame, VideoSleep, thread, InHand
<1>5. CASE OutputGpuEncoders
  <2> SUFFICES ASSUME gpu_was_active \/ ~ gpu_was_active'
               PROVE  Accounted' = Accounted /\ video_time' = video_time
    BY <1>2, <1>1 DEF KeepsIntervals
  <2> DEFINE active == gpu_encoder_active > 0
             ready  == active /\ b # <<>>
  <2>1. /\ gpc = "active" /\ gpu_was_active' = active
        /\ UNCHANGED <<video_time, q>>
    BY <1>5 DEF OutputGpuEncoders, queues
  <2>2. ~ (active /\ ~ gpu_was_active)
    BY <2>1
  <2>3. /\ vframe_info' = IF ready THEN Head(b) ELSE NoInfo
        /\ b' = IF ready THEN Tail(b) ELSE b
    BY <1>5, <2>2 DEF OutputGpuEncoders
  <2>4. Intervals(b') + vframe_info'.count = Intervals(b)
    <3>1. CASE ready
      <4>1. Head(b) \in InfoType /\ Tail(b) \in Seq(InfoType)
        BY <1>2, <3>1, HeadTailProperties
      <4>2. Intervals(b) = Head(b).count + Intervals(Tail(b))
        BY <1>2, <3>1, IntervalsTail
      <4>3. Head(b).count \in Nat /\ Intervals(Tail(b)) \in Nat
        BY <1>2, <4>1, IntervalsType
      <4> QED  BY <2>3, <3>1, <4>2, <4>3
    <3>2. CASE ~ ready
      BY <1>2, <2>3, <3>2 DEF NoInfo
    <3> QED  BY <3>1, <3>2
  <2>5. vframe_info.count = 0
    BY <1>2, <2>1
  <2> QED  BY <1>1, <1>2, <1>3, <1>4, <2>1, <2>4, <2>5
<1>6. CASE QueueFrame
  <2> SUFFICES ASSUME gpu_encoders # <<>>
               PROVE  Accounted' = Accounted /\ video_time' = video_time
    BY <1>2, <1>1 DEF KeepsIntervals
  <2> DEFINE stopping == gpu_encoder_avail_queue = <<>> /\ q = <<>>
             left     == vframe_info.count - 1
  <2>1. ~ stopping
    <3>1. epc # "none" /\ TexturesKept
      BY DEF CountInv, Alive
    <3>2. NumTextures > 1 /\ NumTextures \in Nat
      BY GpuAssumption
    <3>3. stopping => Len(q) = 0 /\ Len(gpu_encoder_avail_queue) = 0
      BY EmptySeq
    <3> QED  BY <3>1, <3>2, <3>3 DEF TexturesKept
  <2>2. /\ gpc = "queue" /\ UNCHANGED <<video_time, b>>
        /\ \/ q # <<>> /\ AddInterval
           \/ ~ Duplicate /\ NewFrame
        /\ vframe_info' = IF left = 0 THEN NoInfo ELSE [vframe_info EXCEPT !.count = left]
    BY <1>6, <2>1 DEF QueueFrame, Duplicate
  <2>3. vframe_info \in InfoType
    BY <1>0, <2>2, TypeParts DEF GraphicsType
  <2>4. vframe_info'.count = vframe_info.count - 1
    <3>1. [vframe_info EXCEPT !.count = left].count = left
      BY <2>3, InfoLeft
    <3> QED  BY <1>2, <2>2, <3>1 DEF NoInfo
  <2>5. Intervals(q') = Intervals(q) + 1
    <3>1. CASE q # <<>> /\ AddInterval
      BY <1>1, <3>1, IntervalsLonger DEF AddInterval
    <3>2. CASE ~ Duplicate /\ NewFrame
      <4>1. Head(gpu_encoder_avail_queue) \in TextureType
        BY <1>1, <3>2, HeadTailProperties DEF Duplicate
      <4> DEFINE key == Head(gpu_encoder_avail_queue).lock_key + 1
                 f   == [timestamp |-> vframe_info.timestamp, count |-> 1,
                         lock_key |-> key, shared_key |-> key]
      <4>2. key \in Nat /\ vframe_info.timestamp \in Nat
        BY <2>3, <4>1 DEF TextureType, InfoType
      <4>3. q' = Append(q, f)
        BY <3>2 DEF NewFrame
      <4> HIDE DEF key
      <4>4. f \in FrameType /\ f.count = 1
        BY <4>2 DEF FrameType
      <4> HIDE DEF f
      <4> QED  BY <1>1, <4>3, <4>4, IntervalsAppend
    <3> QED  BY <2>2, <3>1, <3>2
  <2>6. Intervals(b') = Intervals(b)
    BY <2>2
  <2> DEFINE x == Intervals(b)  c == vframe_info.count  d == Intervals(q)
             i == InHand        s == served
  <2>7. x \in Nat /\ c \in Nat /\ d \in Nat /\ i \in Nat /\ s \in Nat
    BY <1>1, <1>2
  <2>8. Accounted' = x + (c - 1) + (d + 1) + i + s /\ Accounted = x + c + d + i + s
    BY <1>2, <1>3, <1>4, <2>4, <2>5, <2>6, Zenon
  <2> HIDE DEF x, c, d, i, s
  <2>9. Accounted' = Accounted
    BY <2>7, <2>8
  <2> QED  BY <2>2, <2>9
<1>7. CASE VideoSleep
  <2> SUFFICES Accounted' = Accounted + (IF gpu_was_active THEN video_time' - video_time
                                                           ELSE 0)
    BY DEF KeepsIntervals
  <2> DEFINE info == [timestamp |-> video_time, count |-> now - video_time]
  <2>1. /\ gpc = "sleep" /\ now > video_time /\ video_time' = now
        /\ b' = IF gpu_was_active THEN Append(b, info) ELSE b
        /\ UNCHANGED <<vframe_info, q>>
    BY <1>7 DEF VideoSleep, queues
  <2>2. info \in InfoType /\ info.count = now - video_time
    BY <1>0, <2>1, TypeParts, Bounds DEF GraphicsType, InfoType
  <2> HIDE DEF info
  <2>3. Intervals(b') = Intervals(b) + (IF gpu_was_active THEN now - video_time ELSE 0)
    <3>1. CASE gpu_was_active
      <4>1. Intervals(Append(b, info)) = Intervals(b) + info.count
        BY <1>2, <2>2, IntervalsAppend
      <4> QED  BY <2>1, <2>2, <3>1, <4>1
    <3>2. CASE ~ gpu_was_active
      BY <1>2, <2>1, <3>2
    <3> QED  BY <3>1, <3>2
  <2>5. (IF gpu_was_active THEN now - video_time ELSE 0) \in Int
    BY <1>2
  <2>6. Accounted' = Accounted + (IF gpu_was_active THEN now - video_time ELSE 0)
    <3> DEFINE t == IF gpu_was_active THEN now - video_time ELSE 0
    <3>1. /\ t \in Int /\ Intervals(b') = Intervals(b) + t
          /\ vframe_info'.count = vframe_info.count /\ Intervals(q') = Intervals(q)
      BY <2>1, <2>3, <2>5
    <3> HIDE DEF t
    <3>2. Accounted' = (Intervals(b) + t) + vframe_info.count + Intervals(q) + InHand
                            + served
      BY <1>3, <1>4, <3>1, Zenon
    <3> DEFINE a == Intervals(b)  c == vframe_info.count  d == Intervals(q)
               i == InHand        s == served
    <3>3. a \in Nat /\ c \in Nat /\ d \in Nat /\ i \in Nat /\ s \in Nat
      BY <1>1, <1>2
    <3>4. Accounted' = (a + t) + c + d + i + s /\ Accounted = a + c + d + i + s
      BY <1>2, <3>2, Zenon
    <3> HIDE DEF a, c, d, i, s
    <3>5. Accounted' = Accounted + t
      BY <3>1, <3>3, <3>4
    <3> QED  BY <3>5 DEF t
  <2> QED  BY <2>1, <2>6
<1> QED  BY <1>5, <1>6, <1>7 DEF GraphicsThread

LEMMA KeptThread ==
    ASSUME QueueInv, CountInv, EncodeThread
    PROVE  KeepsIntervals
<1>0. TypeOK /\ ThreadType
  BY TypeParts DEF QueueInv
<1> DEFINE q == gpu_encoder_queue
           b == vframe_info_buffer_gpu
<1>1. /\ \A x \in FrameType : x.count \in Nat
      /\ q \in Seq(FrameType) /\ Intervals(q) \in Nat /\ InHand \in Nat
  BY <1>0, QueueNumbers
<1>2. /\ Accounted = Intervals(b) + vframe_info.count + Intervals(q) + InHand + served
      /\ Intervals(b) \in Nat /\ vframe_info.count \in Nat
      /\ served \in Nat /\ video_time \in Nat
  BY <1>0, AccountedParts
<1>3. Accounted' = Intervals(b') + vframe_info'.count + Intervals(q') + InHand' + served'
  BY AccountedNext
<1>4. UNCHANGED <<b, vframe_info, video_time>>
  BY DEF EncodeThread, SemWait, Woken, PopFrame, PushFrame, SignalInactive, Skip, Encode,
     graphics
<1> SUFFICES /\ Intervals(q') \in Nat /\ InHand' \in Nat /\ served' \in Nat
             /\ Intervals(q') + InHand' + served' = Intervals(q) + InHand + served
  <2>1. Accounted' = Accounted /\ video_time' = video_time
    <3>1. Accounted' = Intervals(b) + vframe_info.count + Intervals(q') + InHand' + served'
      BY <1>3, <1>4, Zenon
    <3> DEFINE k == Intervals(b) + vframe_info.count
               d == Intervals(q)   i == InHand   s == served
               e == Intervals(q')  j == InHand'  u == served'
    <3>2. k \in Nat /\ d \in Nat /\ i \in Nat /\ s \in Nat
      <4>1. \A x, y \in Nat : x + y \in Nat
        OBVIOUS
      <4> QED  BY <1>1, <1>2, <4>1, Zenon
    <3>3. e \in Nat /\ j \in Nat /\ u \in Nat /\ e + j + u = d + i + s
      OBVIOUS
    <3>4. Accounted = k + d + i + s /\ Accounted' = k + e + j + u
      BY <1>2, <3>1, Zenon
    <3> HIDE DEF k, d, i, s, e, j, u
    <3>5. k + e + j + u = k + d + i + s
      BY <3>2, <3>3
    <3> QED  BY <1>4, <3>4, <3>5
  <2> QED  BY <1>1, <1>2, <2>1 DEF KeepsIntervals
<1>5. CASE PopFrame
  <2>1. /\ epc = "pop" /\ epc' = "encode" /\ tf' = Head(q) /\ q' = Tail(q)
        /\ UNCHANGED served
    BY <1>5 DEF PopFrame
  <2>2. q # <<>>
    BY <2>1 DEF CountInv, PopsOnlyQueued
  <2>3. /\ Tail(q) \in Seq(FrameType) /\ Head(q) \in FrameType
        /\ Intervals(q) = Head(q).count + Intervals(Tail(q))
    BY <1>1, <2>2, HeadTailProperties, IntervalsTail
  <2>4. Intervals(Tail(q)) \in Nat /\ Head(q).count \in Nat
    BY <1>1, <2>3, IntervalsType
  <2> QED  BY <1>1, <1>2, <2>1, <2>3, <2>4 DEF InHand
<1>6. CASE PushFrame
  <2> DEFINE keyed == [tf EXCEPT !.lock_key = next_key]
             done  == [keyed EXCEPT !.count = @ - 1]
             next  == [done EXCEPT !.timestamp = @ + 1]
  <2>1. /\ epc = "encode" /\ epc' = "pushed" /\ served' = served + 1
        /\ IF done.count # 0 THEN q' = <<next>> \o q ELSE UNCHANGED q
    BY <1>6 DEF PushFrame
  <2>2. tf \in FrameType /\ next_key \in Nat
    BY <1>0, <2>1 DEF ThreadType
  <2>4. done.count = tf.count - 1 /\ next.count = tf.count - 1
        /\ (done.count # 0 => next \in FrameType)
    BY <2>2, FrameServed
  <2>5. tf.count \in Nat \ {0}
    BY <2>2 DEF FrameType
  <2> HIDE DEF done, next
  <2>6. Intervals(q') = Intervals(q) + (tf.count - 1)
    <3>1. CASE done.count # 0
      <4>1. Intervals(q') = next.count + Intervals(q)
        BY <1>1, <2>1, <2>4, <3>1, IntervalsCons
      <4> QED  BY <1>1, <2>4, <2>5, <4>1
    <3>2. CASE done.count = 0
      BY <1>1, <2>1, <2>4, <2>5, <3>2
    <3> QED  BY <3>1, <3>2
  <2>7. InHand = tf.count /\ InHand' = 0
    BY <2>1 DEF InHand
  <2> DEFINE n == tf.count  d == Intervals(q)  e == Intervals(q')
  <2>8. n \in Nat \ {0} /\ d \in Nat /\ served \in Nat
    BY <1>1, <1>2, <2>5
  <2>9. InHand = n /\ e = d + (n - 1)
    BY <2>6, <2>7
  <2> HIDE DEF n, d, e
  <2>10. /\ e \in Nat /\ InHand' \in Nat /\ served' \in Nat
         /\ e + InHand' + served' = d + InHand + served
    BY <2>1, <2>7, <2>8, <2>9
  <2> QED  BY <2>10 DEF d, e
<1>7. CASE SemWait \/ Woken \/ SignalInactive
  <2>1. UNCHANGED <<q, tf, served>> /\ (epc = "encode" <=> epc' = "encode")
    BY <1>7 DEF SemWait, Woken, SignalInactive, queues
  <2> QED  BY <1>1, <1>2, <2>1 DEF InHand
<1>8. ASSUME NEW e \in Encoders, Skip(e) \/ Encode(e)
      PROVE  /\ Intervals(q') \in Nat /\ InHand' \in Nat /\ served' \in Nat
             /\ Intervals(q') + InHand' + served' = Intervals(q) + InHand + served
  <2>1. /\ epc = "encode" /\ UNCHANGED <<q, served, epc>>
        /\ \/ UNCHANGED tf
           \/ tf' = [tf EXCEPT !.shared_key = NextKey]
    BY <1>8 DEF Skip, Encode, EncoderAt, queues
  <2>2. tf'.count = tf.count
    <3>1. tf \in FrameType
      BY <1>0, <2>1 DEF ThreadType
    <3> QED  BY <2>1, <3>1, FrameReleased
  <2>3. InHand' = InHand
    BY <2>1, <2>2 DEF InHand
  <2> QED  BY <1>1, <1>2, <2>1, <2>3
<1> QED  BY <1>5, <1>6, <1>7, <1>8 DEF EncodeThread

LEMMA KeptUsers ==
    ASSUME QueueInv, CountInv, NEW e \in Encoders,
           \/ Start(e) \/ Activate(e) \/ Deactivate(e)
           \/ StopSteps(e) \/ Pause(e) \/ Unpause(e)
    PROVE  KeepsIntervals
<1> SUFFICES ASSUME gpu_encoders # <<>>  PROVE KeepsIntervals
  BY DEF KeepsIntervals
<1>1. TypeOK /\ Alive
  BY DEF QueueInv, CountInv
<1>2. ~ FreeGpuEncoding(e)
  BY <1>1 DEF Alive, FreeGpuEncoding
<1>3. UNCHANGED <<vframe_info_buffer_gpu, vframe_info, gpu_encoder_queue, epc, tf, served,
                  video_time>>
  BY <1>2 DEF Start, Activate, Deactivate, StopSteps, Erase, WaitInactive, RaiseStop,
     PostStop, Pause, Unpause, graphics, queues, thread
<1> QED  BY <1>1, <1>3, KeptStill

\* While there are encoders no interval is lost or counted twice on its way from
\* video_sleep through queue_frame to the encode thread, for every number of textures
\* and every lag of the graphics thread (obs-video.c, obs-video-gpu-encode.c).
THEOREM NoIntervalLost == Spec => NothingLost
<1>1. QueueInv /\ CountInv /\ [Next]_vars => [KeepsIntervals]_vars
  <2> SUFFICES ASSUME QueueInv, CountInv, Next PROVE KeepsIntervals
    OBVIOUS
  <2>1. CASE Tick
    <3>1. UNCHANGED <<vframe_info_buffer_gpu, vframe_info, gpu_encoder_queue, epc, tf,
                      served, video_time>>
      BY <2>1 DEF Tick, queues, thread
    <3> QED  BY <3>1, KeptStill DEF QueueInv
  <2>2. CASE GraphicsThread
    BY <2>2, KeptGraphics
  <2>3. CASE EncodeThread
    BY <2>3, KeptThread
  <2>4. ASSUME NEW e \in Encoders,
               \/ Start(e) \/ Activate(e) \/ Deactivate(e)
               \/ StopSteps(e) \/ Pause(e) \/ Unpause(e)
        PROVE  KeepsIntervals
    BY <2>4, KeptUsers
  <2> QED  BY <2>1, <2>2, <2>3, <2>4 DEF Next
<1> QED  BY <1>1, InvariantCount, PTL DEF Spec, NothingLost, KeepsIntervals
=============================================================================
