------------------------------ MODULE GpuEncode ------------------------------
(* The path of a frame from the graphics loop to encoders that read textures. *)
(* The graphics thread renders a frame, hands its texture in under the time   *)
(* stamp video_sleep kept for it, and posts a semaphore; the GPU encode       *)
(* thread takes one post per interval, runs every encoder and gives the       *)
(* texture back.  Encoders come, go and are paused on threads of their own.   *)
(*                                                                            *)
(* Times are counted in frame intervals.  A texture and its obs_tex_frame are *)
(* one record; shared_key is the key its keyed mutex was last released with   *)
(* (queue_frame may swap the texture of a record, but only while it holds     *)
(* that mutex).  An encoder leaves a frame out when it waits for its audio or *)
(* its group or counts its divisor down: Skip stands for all of these.        *)
EXTENDS Integers, Sequences, SequencesExt, Functions

CONSTANTS
    Encoders,
    NumTextures,    \* NUM_ENCODE_TEXTURES
    FramesToWait,   \* NUM_ENCODE_TEXTURE_FRAMES_TO_WAIT
    MaxLag,         \* bound: intervals the graphics thread may fall behind
    MaxTime,        \* bound: intervals the model runs for
    MaxStarts,      \* bound: starts of an encoder
    MaxPauses       \* bound: pauses of each encoder, a function

ASSUME GpuAssumption ==
    /\ NumTextures \in Nat /\ NumTextures > 1
    /\ FramesToWait \in Nat
    /\ {MaxLag, MaxTime, MaxStarts} \subseteq Nat
    /\ MaxPauses \in [Encoders -> Nat]

VARIABLES
    now,                    \* os_gettime_ns
    \* graphics thread
    gpc, video_time, gpu_was_active, vframe_info_buffer_gpu, vframe_info,
    \* struct obs_core_video_mix
    gpu_encoder_active, gpu_encoders, gpu_encoder_queue,
    gpu_encoder_avail_queue, semaphore, gpu_encode_stop, gpu_encode_inactive,
    \* gpu_encode_thread
    epc, wait_frames, tf, encoders, index, lock_key, next_key, lock_count,
    \* the threads that start, stop and pause an encoder
    upc, starts, pauses, pause,
    \* history: intervals the encoders were given
    served

graphics == <<now, gpc, video_time, gpu_was_active, vframe_info_buffer_gpu,
              vframe_info>>
queues   == <<gpu_encoder_queue, gpu_encoder_avail_queue, semaphore>>
control  == <<gpu_encoder_active, gpu_encoders, gpu_encode_stop>>
work     == <<encoders, index, lock_key, next_key, lock_count>>
thread   == <<epc, wait_frames, tf, work>>
users    == <<upc, starts, pauses>>
vars == <<graphics, queues, control, gpu_encode_inactive, thread, users, pause,
          served>>

NoFrame  == [timestamp |-> 0, count |-> 0, lock_key |-> 0, shared_key |-> 0]
NoInfo   == [timestamp |-> 0, count |-> 0]
NoPause  == [ts_start |-> 0, ts_end |-> 0, last_video_ts |-> 0]

\* gpu_encoder_mutex is held across steps by queue_frame's loop only.
MutexFree == gpc # "queue"

\* The intervals a sequence of frames or infos stands for.
Intervals(frames) == SumFunction([i \in DOMAIN frames |-> frames[i].count])

Init ==
    /\ now = 1 /\ video_time = 1
    /\ gpc = "active" /\ gpu_was_active = FALSE
    /\ vframe_info_buffer_gpu = <<>> /\ vframe_info = NoInfo
    /\ gpu_encoder_active = 0 /\ gpu_encoders = <<>>
    /\ gpu_encoder_queue = <<>> /\ gpu_encoder_avail_queue = <<>>
    /\ semaphore = 0 /\ gpu_encode_stop = FALSE /\ gpu_encode_inactive = FALSE
    /\ epc = "none" /\ wait_frames = 0 /\ tf = NoFrame
    /\ encoders = <<>> /\ index = 1
    /\ lock_key = 0 /\ next_key = 0 /\ lock_count = 0
    /\ upc = [e \in Encoders |-> "off"]
    /\ starts = [e \in Encoders |-> 0] /\ pauses = [e \in Encoders |-> 0]
    /\ pause = [e \in Encoders |-> NoPause]
    /\ served = 0

-----------------------------------------------------------------------------
(* The graphics thread.                                                    *)

Tick ==
    /\ now < MaxTime
    /\ now - video_time < MaxLag
    /\ now' = now + 1
    /\ UNCHANGED <<gpc, video_time, gpu_was_active, vframe_info_buffer_gpu,
                   vframe_info, queues, control, gpu_encode_inactive, thread,
                   users, pause, served>>

\* update_active_state, and output_gpu_encoders up to the lock.  An info left
\* from before the first encoder is dropped.  (What is rendered in between
\* touches nothing of this module.)
OutputGpuEncoders ==
    LET active == gpu_encoder_active > 0
        infos  == IF active /\ ~gpu_was_active THEN <<>> ELSE vframe_info_buffer_gpu
        ready  == active /\ infos # <<>>
    IN  /\ gpc = "active"
        /\ gpu_was_active' = active
        /\ vframe_info' = IF ready THEN Head(infos) ELSE NoInfo
        /\ vframe_info_buffer_gpu' = IF ready THEN Tail(infos) ELSE infos
        /\ gpc' = IF ready THEN "queue" ELSE "sleep"
        /\ UNCHANGED <<now, video_time, queues, control, gpu_encode_inactive,
                       thread, users, pause, served>>

Duplicate ==
    \/ gpu_encoder_avail_queue = <<>>
    \/ gpu_encoder_queue # <<>> /\ vframe_info.count > 1

\* The newest frame in the queue stands for one more interval.
AddInterval ==
    gpu_encoder_queue' = [gpu_encoder_queue EXCEPT
                            ![Len(gpu_encoder_queue)].count = @ + 1]

\* Mutant of Post: posted where the frame is queued and at finish once more.
PostTwiceMutant == semaphore' = semaphore + 2

\* One post for each interval that is queued.
Post == semaphore' = semaphore + 1

\* gs_texture_acquire_sync, the copy or swap, gs_texture_release_sync.
NewFrame ==
    LET key == Head(gpu_encoder_avail_queue).lock_key + 1
    IN  gpu_encoder_queue' = Append(gpu_encoder_queue,
            [timestamp |-> vframe_info.timestamp, count |-> 1,
             lock_key |-> key, shared_key |-> key])

\* One call of queue_frame.  With both queues empty encoding is stopping, and
\* the rest of the frame is dropped.
QueueFrame ==
    LET stopping == gpu_encoder_avail_queue = <<>> /\ gpu_encoder_queue = <<>>
        left     == IF stopping THEN 0 ELSE vframe_info.count - 1
    IN  /\ gpc = "queue"
        /\ \/ /\ stopping
              /\ UNCHANGED queues
           \/ /\ Duplicate /\ ~stopping
              /\ AddInterval
              /\ Post
              /\ UNCHANGED gpu_encoder_avail_queue
           \/ /\ ~Duplicate
              /\ NewFrame
              /\ gpu_encoder_avail_queue' = Tail(gpu_encoder_avail_queue)
              /\ Post
        /\ vframe_info' = IF left = 0 THEN NoInfo
                          ELSE [vframe_info EXCEPT !.count = left]
        /\ gpc' = IF left = 0 THEN "sleep" ELSE "queue"
        /\ UNCHANGED <<now, video_time, gpu_was_active, vframe_info_buffer_gpu,
                       control, gpu_encode_inactive, thread, users, pause, served>>

\* Mutant of VideoSleep: a late frame stands for one interval all the same.
LagForgottenMutant ==
    /\ gpc = "sleep"
    /\ now > video_time
    /\ vframe_info_buffer_gpu' =
            IF gpu_was_active
            THEN Append(vframe_info_buffer_gpu,
                        [timestamp |-> video_time, count |-> 1])
            ELSE vframe_info_buffer_gpu
    /\ video_time' = now
    /\ gpc' = "active"
    /\ UNCHANGED <<now, gpu_was_active, vframe_info, queues, control,
                   gpu_encode_inactive, thread, users, pause, served>>

\* video_sleep: the frame just rendered stands for the time since it was due.
VideoSleep ==
    /\ gpc = "sleep"
    /\ now > video_time
    /\ vframe_info_buffer_gpu' =
            IF gpu_was_active
            THEN Append(vframe_info_buffer_gpu,
                        [timestamp |-> video_time, count |-> now - video_time])
            ELSE vframe_info_buffer_gpu
    /\ video_time' = now
    /\ gpc' = "active"
    /\ UNCHANGED <<now, gpu_was_active, vframe_info, queues, control,
                   gpu_encode_inactive, thread, users, pause, served>>

-----------------------------------------------------------------------------
(* gpu_encode_thread.                                                      *)

SemWait ==
    /\ epc = "wait"
    /\ semaphore > 0
    /\ semaphore' = semaphore - 1
    /\ epc' = "woken"
    /\ UNCHANGED <<graphics, gpu_encoder_queue, gpu_encoder_avail_queue, control,
                   gpu_encode_inactive, wait_frames, tf, work, users, pause, served>>

\* Mutant of Woken: the event is reset before the first posts are let go by.
ResetFirstMutant ==
    /\ epc = "woken"
    /\ wait_frames' = IF wait_frames > 0 /\ ~gpu_encode_stop THEN wait_frames - 1
                                                             ELSE wait_frames
    /\ gpu_encode_inactive' = (gpu_encode_inactive /\ gpu_encode_stop)
    /\ epc' = CASE gpu_encode_stop -> "exited"
                 [] wait_frames > 0 /\ ~gpu_encode_stop -> "wait"
                 [] OTHER -> "pop"
    /\ UNCHANGED <<graphics, queues, control, tf, work, users, pause, served>>

\* Mutant of Woken: the event is not reset.
NoResetMutant ==
    /\ epc = "woken"
    /\ wait_frames' = IF wait_frames > 0 /\ ~gpu_encode_stop THEN wait_frames - 1
                                                             ELSE wait_frames
    /\ epc' = CASE gpu_encode_stop -> "exited"
                 [] wait_frames > 0 /\ ~gpu_encode_stop -> "wait"
                 [] OTHER -> "pop"
    /\ UNCHANGED <<graphics, queues, control, gpu_encode_inactive, tf, work, users,
                   pause, served>>

\* The thread ends, or lets the first posts go by, or starts on a frame.
Woken ==
    /\ epc = "woken"
    /\ \/ /\ gpu_encode_stop
          /\ epc' = "exited"
          /\ UNCHANGED <<wait_frames, gpu_encode_inactive>>
       \/ /\ ~gpu_encode_stop
          /\ wait_frames > 0
          /\ wait_frames' = wait_frames - 1
          /\ epc' = "wait"
          /\ UNCHANGED gpu_encode_inactive
       \/ /\ ~gpu_encode_stop
          /\ wait_frames = 0
          /\ gpu_encode_inactive' = FALSE
          /\ epc' = "pop"
          /\ UNCHANGED wait_frames
    /\ UNCHANGED <<graphics, queues, control, tf, work, users, pause, served>>

\* The oldest frame, and references to the encoders there are now.
PopFrame ==
    /\ epc = "pop"
    /\ MutexFree
    /\ tf' = Head(gpu_encoder_queue)
    /\ gpu_encoder_queue' = Tail(gpu_encoder_queue)
    /\ encoders' = gpu_encoders
    /\ index' = 1
    /\ lock_key' = tf'.lock_key
    /\ next_key' = tf'.lock_key
    /\ lock_count' = 0
    /\ epc' = "encode"
    /\ UNCHANGED <<graphics, gpu_encoder_avail_queue, semaphore, control,
                   gpu_encode_inactive, wait_frames, users, pause, served>>

EncoderAt(e) == epc = "encode" /\ index \in DOMAIN encoders /\ encoders[index] = e

\* video_pause_check_internal: a pause is over on the very frame it ends with.
Unpauses(e) == pause[e].ts_start # 0 /\ tf.timestamp = pause[e].ts_end
Ignored(e)  == pause[e].ts_start # 0 /\ ~Unpauses(e)
                                     /\ tf.timestamp >= pause[e].ts_start
PauseCheck(e) ==
    pause' = [pause EXCEPT ![e] =
        [ts_start      |-> IF Unpauses(e) THEN 0 ELSE @.ts_start,
         ts_end        |-> IF Unpauses(e) THEN 0 ELSE @.ts_end,
         last_video_ts |-> tf.timestamp]]

\* Encoder e leaves the frame out: it waits for its audio or its group, or is
\* paused, or the frame is not one of its rate.
Skip(e) ==
    /\ EncoderAt(e)
    /\ \/ pause[e].last_video_ts = 0 /\ UNCHANGED pause
       \/ PauseCheck(e)
    /\ index' = index + 1
    /\ UNCHANGED <<graphics, queues, control, gpu_encode_inactive, epc,
                   wait_frames, tf, encoders, lock_key, next_key, lock_count,
                   users, served>>

\* The key encoder e leaves the texture with: 0 when it is the last of all.
NextKey == IF lock_count + 1 = Len(encoders) THEN 0 ELSE next_key + 1

\* encode_texture of encoder e, which takes the texture's mutex with lock_key
\* and releases it with next_key.
Encode(e) ==
    /\ EncoderAt(e)
    /\ ~Ignored(e)
    /\ PauseCheck(e)
    /\ tf.shared_key = lock_key
    /\ tf' = [tf EXCEPT !.shared_key = NextKey]
    /\ lock_count' = lock_count + 1
    /\ next_key' = NextKey
    /\ lock_key' = NextKey
    /\ index' = index + 1
    /\ UNCHANGED <<graphics, queues, control, gpu_encode_inactive, epc,
                   wait_frames, encoders, users, served>>

\* Mutant of PushFrame: the last encoder is taken to have left the key zero.
KeyZeroMutant ==
    LET done == [tf EXCEPT !.lock_key = 0, !.count = @ - 1]
        next == [done EXCEPT !.timestamp = @ + 1]
    IN  /\ epc = "encode"
        /\ index > Len(encoders)
        /\ MutexFree
        /\ IF done.count # 0
           THEN /\ gpu_encoder_queue' = <<next>> \o gpu_encoder_queue
                /\ UNCHANGED gpu_encoder_avail_queue
           ELSE /\ gpu_encoder_avail_queue' = Append(gpu_encoder_avail_queue, done)
                /\ UNCHANGED gpu_encoder_queue
        /\ tf' = NoFrame
        /\ served' = served + 1
        /\ epc' = "pushed"
        /\ UNCHANGED <<graphics, semaphore, control, gpu_encode_inactive,
                       wait_frames, work, users, pause>>

\* The frame goes back to the front of the queue while it stands for more
\* intervals, and among the free textures after the last.
PushFrame ==
    LET keyed == [tf EXCEPT !.lock_key = next_key]
        done  == [keyed EXCEPT !.count = @ - 1]
        next  == [done EXCEPT !.timestamp = @ + 1]
    IN  /\ epc = "encode"
        /\ index > Len(encoders)
        /\ MutexFree
        /\ IF done.count # 0
           THEN /\ gpu_encoder_queue' = <<next>> \o gpu_encoder_queue
                /\ UNCHANGED gpu_encoder_avail_queue
           ELSE /\ gpu_encoder_avail_queue' = Append(gpu_encoder_avail_queue, done)
                /\ UNCHANGED gpu_encoder_queue
        /\ tf' = NoFrame
        /\ served' = served + 1
        /\ epc' = "pushed"
        /\ UNCHANGED <<graphics, semaphore, control, gpu_encode_inactive,
                       wait_frames, work, users, pause>>

SignalInactive ==
    /\ epc = "pushed"
    /\ gpu_encode_inactive' = TRUE
    /\ encoders' = <<>> /\ index' = 1
    /\ epc' = "wait"
    /\ UNCHANGED <<graphics, queues, control, wait_frames, tf, lock_key, next_key,
                   lock_count, users, pause, served>>

-----------------------------------------------------------------------------
(* start_gpu_encode, stop_gpu_encode and obs_encoded_output_pause.         *)

\* init_gpu_encoding, under the lock: a new thread, semaphore and textures.
InitGpuEncoding ==
    /\ gpu_encode_stop' = FALSE
    /\ gpu_encoder_avail_queue' = gpu_encoder_avail_queue \o
                                    [i \in 1..NumTextures |-> NoFrame]
    /\ semaphore' = 0
    /\ gpu_encode_inactive' = TRUE
    /\ epc' = "wait"
    /\ wait_frames' = FramesToWait
    /\ served' = 0

\* Bound of the model: no encoder starts while another one stops.  (Both can
\* happen at once: nothing orders the thread that ends an output and the one
\* that starts another.)
Start(e) ==
    /\ upc[e] = "off"
    /\ starts[e] < MaxStarts
    /\ \A f \in Encoders : upc[f] \in {"off", "on"}
    /\ MutexFree
    /\ IF gpu_encoders = <<>>
       THEN InitGpuEncoding
       ELSE UNCHANGED <<gpu_encode_stop, gpu_encoder_avail_queue, semaphore,
                        gpu_encode_inactive, epc, wait_frames, served>>
    /\ gpu_encoders' = Append(gpu_encoders, e)
    /\ pause' = [pause EXCEPT ![e] = NoPause]
    /\ starts' = [starts EXCEPT ![e] = @ + 1]
    /\ upc' = [upc EXCEPT ![e] = "starting"]
    /\ UNCHANGED <<graphics, gpu_encoder_queue, gpu_encoder_active, tf, work,
                   pauses>>

Activate(e) ==
    /\ upc[e] = "starting"
    /\ gpu_encoder_active' = gpu_encoder_active + 1
    /\ upc' = [upc EXCEPT ![e] = "on"]
    /\ UNCHANGED <<graphics, queues, gpu_encoders, gpu_encode_stop,
                   gpu_encode_inactive, thread, starts, pauses, pause, served>>

Deactivate(e) ==
    /\ upc[e] = "on"
    /\ gpu_encoder_active' = gpu_encoder_active - 1
    /\ upc' = [upc EXCEPT ![e] = "stopping"]
    /\ UNCHANGED <<graphics, queues, gpu_encoders, gpu_encode_stop,
                   gpu_encode_inactive, thread, starts, pauses, pause, served>>

\* The encoder is taken out; the last one will free the thread.
Erase(e) ==
    /\ upc[e] = "stopping"
    /\ MutexFree
    /\ \E i \in DOMAIN gpu_encoders : /\ gpu_encoders[i] = e
                                     /\ gpu_encoders' = RemoveAt(gpu_encoders, i)
    /\ upc' = [upc EXCEPT ![e] = IF gpu_encoders' = <<>> THEN "waitfree"
                                                         ELSE "wait"]
    /\ UNCHANGED <<graphics, queues, gpu_encoder_active, gpu_encode_stop,
                   gpu_encode_inactive, thread, starts, pauses, pause, served>>

WaitInactive(e) ==
    /\ upc[e] \in {"wait", "waitfree"}
    /\ gpu_encode_inactive
    /\ upc' = [upc EXCEPT ![e] = IF @ = "wait" THEN "off" ELSE "raise"]
    /\ UNCHANGED <<graphics, queues, control, gpu_encode_inactive, thread,
                   starts, pauses, pause, served>>

\* stop_gpu_encoding_thread: the flag, the post that wakes the thread to see it,
\* and, once it is joined, free_gpu_encoding under the lock.
RaiseStop(e) ==
    /\ upc[e] = "raise"
    /\ gpu_encode_stop' = TRUE
    /\ upc' = [upc EXCEPT ![e] = "post"]
    /\ UNCHANGED <<graphics, queues, gpu_encoder_active, gpu_encoders,
                   gpu_encode_inactive, thread, starts, pauses, pause, served>>

PostStop(e) ==
    /\ upc[e] = "post"
    /\ semaphore' = semaphore + 1
    /\ upc' = [upc EXCEPT ![e] = "join"]
    /\ UNCHANGED <<graphics, gpu_encoder_queue, gpu_encoder_avail_queue, control,
                   gpu_encode_inactive, thread, starts, pauses, pause, served>>

FreeGpuEncoding(e) ==
    /\ upc[e] = "join"
    /\ epc = "exited"
    /\ MutexFree
    /\ gpu_encoder_queue' = <<>> /\ gpu_encoder_avail_queue' = <<>>
    /\ semaphore' = 0
    /\ gpu_encode_inactive' = FALSE
    /\ epc' = "none"
    /\ upc' = [upc EXCEPT ![e] = "off"]
    /\ UNCHANGED <<graphics, control, wait_frames, tf, work, starts, pauses, pause,
                   served>>

\* get_closest_v_ts: the frame two intervals from now.
Closest == now + 2

Pause(e) ==
    /\ upc[e] = "on"
    /\ pauses[e] < MaxPauses[e]
    /\ pause[e].ts_start = 0
    /\ pause[e].last_video_ts # 0
    /\ pause' = [pause EXCEPT ![e].ts_start = Closest]
    /\ pauses' = [pauses EXCEPT ![e] = @ + 1]
    /\ UNCHANGED <<graphics, queues, control, gpu_encode_inactive, thread, upc,
                   starts, served>>

Unpause(e) ==
    /\ upc[e] = "on"
    /\ pause[e].ts_start # 0 /\ pause[e].ts_end = 0
    /\ pause' = [pause EXCEPT ![e].ts_end = Closest]
    /\ UNCHANGED <<graphics, queues, control, gpu_encode_inactive, thread, users,
                   served>>

-----------------------------------------------------------------------------
GraphicsThread == OutputGpuEncoders \/ QueueFrame \/ VideoSleep

EncodeThread ==
    \/ SemWait \/ Woken \/ PopFrame \/ PushFrame \/ SignalInactive
    \/ \E e \in Encoders : Skip(e) \/ Encode(e)

StopSteps(e) == \/ Erase(e) \/ WaitInactive(e)
                \/ RaiseStop(e) \/ PostStop(e) \/ FreeGpuEncoding(e)

Next ==
    \/ Tick \/ GraphicsThread \/ EncodeThread
    \/ \E e \in Encoders : \/ Start(e) \/ Activate(e) \/ Deactivate(e)
                           \/ StopSteps(e) \/ Pause(e) \/ Unpause(e)

Spec == Init /\ [][Next]_vars


\* Threads go on and are not kept out of the mutex for ever; nobody has to
\* start, stop or pause an encoder.
FairSpec ==
    /\ Spec
    /\ WF_vars(GraphicsThread) /\ SF_vars(EncodeThread)
    /\ \A e \in Encoders : SF_vars(StopSteps(e))

-----------------------------------------------------------------------------
\* Intervals with the graphics thread, queued, with the encode thread, served.
Accounted ==
    Intervals(vframe_info_buffer_gpu) + vframe_info.count
        + Intervals(gpu_encoder_queue)
        + (IF epc = "encode" THEN tf.count ELSE 0) + served

FrameType == [timestamp : Nat, count : Nat \ {0}, lock_key : Nat, shared_key : Nat]
TextureType == [timestamp : Nat, count : {0}, lock_key : Nat, shared_key : Nat]
InfoType  == [timestamp : Nat, count : 1..MaxLag]
PauseType == [ts_start : Nat, ts_end : Nat, last_video_ts : Nat]

\* Every variable keeps its type; in particular a frame and an info in a queue
\* stand for at least one interval.
TypeOK ==
    /\ now \in Nat /\ video_time \in 1..now /\ now - video_time <= MaxLag
    /\ gpc \in {"active", "queue", "sleep"}
    /\ gpu_was_active \in BOOLEAN
    /\ vframe_info_buffer_gpu \in Seq(InfoType)
    /\ IF gpc = "queue" THEN vframe_info \in InfoType ELSE vframe_info = NoInfo
    /\ gpu_encoder_active \in Int
    /\ gpu_encoders \in Seq(Encoders)
    /\ gpu_encoder_queue \in Seq(FrameType)
    /\ gpu_encoder_avail_queue \in Seq(TextureType)
    /\ semaphore \in Nat
    /\ gpu_encode_stop \in BOOLEAN /\ gpu_encode_inactive \in BOOLEAN
    /\ epc \in {"none", "wait", "woken", "pop", "encode", "pushed", "exited"}
    /\ wait_frames \in 0..FramesToWait
    /\ IF epc = "encode" THEN tf \in FrameType ELSE tf = NoFrame
    /\ encoders \in Seq(Encoders) /\ index \in 1..Len(encoders) + 1
    /\ {lock_key, next_key, lock_count} \subseteq Nat
    /\ upc \in [Encoders -> {"off", "starting", "on", "stopping", "wait",
                             "waitfree", "raise", "post", "join"}]
    /\ starts \in [Encoders -> 0..MaxStarts]
    /\ pauses \in [Encoders -> Nat]
    /\ pause \in [Encoders -> PauseType]
    /\ served \in Nat

\* The encode thread finds a frame whenever it takes one: each post it waited
\* for stands for an interval that is still queued.
PopsOnlyQueued == epc = "pop" => gpu_encoder_queue # <<>>

\* While there are encoders no interval is lost or counted twice on its way from
\* the graphics loop to the encoders: what is under way or served grows by the
\* intervals video_sleep accounts for, and only by these.  (Infos left from
\* before the graphics thread saw an encoder are dropped on purpose.)
NothingLost ==
    [][ /\ gpu_encoders # <<>> /\ gpu_encoders' # <<>>
        /\ gpu_was_active \/ ~gpu_was_active'
        => Accounted' = Accounted + (IF gpu_was_active THEN video_time' - video_time
                                                       ELSE 0) ]_vars

\* Whoever takes a texture's mutex next does so with the key it was left with.
KeysAgree ==
    /\ \A q \in {gpu_encoder_queue, gpu_encoder_avail_queue} : \A i \in DOMAIN q :
            q[i].shared_key = q[i].lock_key
    /\ epc = "encode" => tf.shared_key = lock_key

\* Once stop_gpu_encode has returned the encode thread does not use the encoder.
NotUsedAfterStop ==
    epc = "encode" => \A i \in index..Len(encoders) : upc[encoders[i]] # "off"

\* The stop of another encoder, the last, freed the event that e waits for:
\* what becomes of e is undefined, and the model leaves it there.
Overtaken(e) == upc[e] = "wait" /\ epc = "none"

\* stop_gpu_encode returns unless it is overtaken; that of the last encoder does
\* in any case, with the encode thread joined and the queues freed.
StopReturns ==
    \A e \in Encoders :
        /\ upc[e] = "stopping" ~> (upc[e] = "off" \/ Overtaken(e))
        /\ upc[e] = "waitfree" ~> upc[e] = "off"

\* A pause that was ended is over before a later frame reaches the encoder.
PauseEnds ==
    \A e \in Encoders :
        pause[e].ts_end # 0 => pause[e].last_video_ts < pause[e].ts_end
=============================================================================
