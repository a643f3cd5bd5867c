------------------------------- MODULE VideoIO -------------------------------
(***************************************************************************)
(* libobs/media-io/video-io.c: the frame cache between the graphics thread *)
(* (video_output_lock_frame / video_output_unlock_frame, called from       *)
(* output_video_data in obs-video.c) and the video thread (video_thread,   *)
(* video_output_cur_frame), with inputs connecting and disconnecting and   *)
(* the output being stopped.                                               *)
(*                                                                         *)
(* A step is a critical section of data_mutex or input_mutex, a semaphore  *)
(* operation or an access to an unprotected field.  The pixels of a frame  *)
(* are abstracted to its timestamp, and time is counted in frame intervals *)
(* (video_output::frame_time), so that adding frame_time is adding 1.      *)
(***************************************************************************)
EXTENDS Integers, Sequences, Functions

CONSTANTS
    CacheSize,        \* video_output_info::cache_size, at most MAX_CACHE_SIZE
    Inputs,           \* (callback, param) pairs that may be connected
    Divisor,          \* Divisor[p] is the frame_rate_divisor p connects with
    MaxCount,         \* most intervals one rendered frame stands for
    MaxTime,          \* bound: the graphics clock stops here
    CallbackMayStop   \* a callback may disconnect its own input (encoder error)

ASSUME CacheSizeAssumption == CacheSize \in Nat \ {0}
ASSUME DivisorAssumption == Divisor \in [Inputs -> Nat \ {0}]
ASSUME MaxCountAssumption == MaxCount \in Nat \ {0}
ASSUME MaxTimeAssumption == MaxTime \in Nat
ASSUME CallbackAssumption == CallbackMayStop \in BOOLEAN

VARIABLES
    cache,             \* slot -> [timestamp, count, skipped]
    available_frames,
    first_added,       \* slot the video thread outputs next
    last_added,        \* slot the graphics thread filled last
    update_semaphore,
    stop,
    skipped_frames,
    total_frames,
    inputs,            \* the connected inputs, in the order of the DARRAY
    video_time,        \* graphics thread: obs_core_video::video_time
    gpc,               \* graphics thread: "idle" or "locked"
    vpc,               \* video thread: where it is in video_thread
    slot,              \* video thread: the slot frame_info points to
    index,             \* video thread: i, the input being served
    mpc,               \* the thread that stops the output
    shown,             \* history: last interval taken out of the cache
    joined,            \* history: p -> shown when p connected
    duplicated         \* history: intervals lost to a full cache, less the
                       \* skips already reported when the counters were reset

ring == <<cache, available_frames, first_added, last_added>>
stats == <<skipped_frames, total_frames, duplicated>>
vthread == <<vpc, slot, index, shown>>
vars == <<ring, update_semaphore, stop, stats, inputs, video_time, gpc,
          vthread, mpc, joined>>

Slots == 0 .. CacheSize - 1

\* Mutant: the ring index is never wrapped.
NextSlotUnwrapped(s) == s + 1

\* "if (++x == cache_size) x = 0"
NextSlot(s) == IF s + 1 = CacheSize THEN 0 ELSE s + 1

Frame == [timestamp : Nat, count : Int, skipped : Int]

NoFrame == [timestamp |-> 0, count |-> 0, skipped |-> 0]

\* The number of frames in the cache, the one being output included.
Used == CacheSize - available_frames

\* Distance of slot s from the front of the ring.
Distance(s) == IF s >= first_added THEN s - first_added
                                   ELSE s + CacheSize - first_added

\* The slots that hold a frame waiting for, or in the hands of, the video thread.
Queued == {s \in Slots : Distance(s) < Used}

Connected == {inputs[k].param : k \in DOMAIN inputs}

\* The video thread holds input_mutex while it serves the inputs.
InputMutexFree == vpc # "input"

\* The first interval no published frame stands for: what is being copied
\* counts only once it is published.
Horizon == IF gpc = "locked" THEN cache[last_added].timestamp ELSE video_time

-----------------------------------------------------------------------------
Init ==
    /\ cache = [s \in Slots |-> NoFrame]
    /\ available_frames = CacheSize
    /\ first_added = 0
    /\ last_added = 0
    /\ update_semaphore = 0
    /\ stop = FALSE
    /\ skipped_frames = 0
    /\ total_frames = 0
    /\ inputs = <<>>
    /\ video_time = 0
    /\ gpc = "idle"
    /\ vpc = "wait"
    /\ slot = 0
    /\ index = 1
    /\ mpc = "running"
    /\ shown = -1
    /\ joined = [p \in Inputs |-> -1]
    /\ duplicated = 0

-----------------------------------------------------------------------------
(* The graphics thread.  A frame handed in stands for the intervals from   *)
(* video_time up to the next call: the count of vframe_info.               *)

\* Mutant: one skip is noted however many intervals are lost.
RepeatNotesOne(f, count) == [f EXCEPT !.count = @ + count, !.skipped = @ + 1]

\* Mutant: the skip is noted and the frame not repeated.
RepeatForgotten(f, count) == [f EXCEPT !.skipped = @ + count]

\* What a full cache does with the intervals of a frame it has no slot for.
Repeat(f, count) == [timestamp |-> f.timestamp,
                     count |-> f.count + count,
                     skipped |-> f.skipped + count]

\* Mutant: the slot of a full or an empty ring is not told apart.
ClaimedSlotUnmoved == last_added

\* The slot the next frame is copied to.
ClaimedSlot == IF available_frames # CacheSize THEN NextSlot(last_added)
                                               ELSE last_added

\* video_output_lock_frame, the cache is full: the newest frame is repeated.
RepeatLast(count) ==
    /\ gpc = "idle"
    /\ video_time + count <= MaxTime
    /\ available_frames = 0
    /\ cache' = [cache EXCEPT ![last_added] = Repeat(@, count)]
    /\ video_time' = video_time + count
    /\ duplicated' = duplicated + count
    /\ UNCHANGED <<available_frames, first_added, last_added, update_semaphore,
                   stop, skipped_frames, total_frames, inputs, gpc, vthread,
                   mpc, joined>>

\* video_output_lock_frame, a slot is free: it is claimed for the copy.
LockFrame(count) ==
    /\ gpc = "idle"
    /\ video_time + count <= MaxTime
    /\ available_frames # 0
    /\ last_added' = ClaimedSlot
    /\ cache' = [cache EXCEPT ![ClaimedSlot] =
                    [timestamp |-> video_time, count |-> count, skipped |-> 0]]
    /\ video_time' = video_time + count
    /\ gpc' = "locked"
    /\ UNCHANGED <<available_frames, first_added, update_semaphore, stop, stats,
                   inputs, vthread, mpc, joined>>

\* video_output_unlock_frame: the copied frame is published.
UnlockFrame ==
    /\ gpc = "locked"
    /\ gpc' = "idle"
    /\ available_frames' = available_frames - 1
    /\ update_semaphore' = update_semaphore + 1
    /\ UNCHANGED <<cache, first_added, last_added, stop, stats, inputs,
                   video_time, vthread, mpc, joined>>

-----------------------------------------------------------------------------
(* The video thread.                                                       *)

SemWait ==
    /\ vpc = "wait"
    /\ update_semaphore > 0
    /\ update_semaphore' = update_semaphore - 1
    /\ vpc' = "awake"
    /\ UNCHANGED <<ring, stop, stats, inputs, video_time, gpc, slot, index,
                   shown, mpc, joined>>

\* Mutant: the thread does not look at the flag when it wakes up.
TestStopSkipped ==
    /\ vpc = "awake"
    /\ vpc' = "loop"
    /\ UNCHANGED <<ring, update_semaphore, stop, stats, inputs, video_time,
                   gpc, slot, index, shown, mpc, joined>>

\* "if (video->stop) break;"
TestStop ==
    /\ vpc = "awake"
    /\ vpc' = IF stop THEN "exited" ELSE "loop"
    /\ UNCHANGED <<ring, update_semaphore, stop, stats, inputs, video_time,
                   gpc, slot, index, shown, mpc, joined>>

\* The inner loop's "!video->stop" fails: the wake-up is counted all the same.
LeaveLoop ==
    /\ vpc = "loop"
    /\ stop
    /\ total_frames' = total_frames + 1
    /\ vpc' = "wait"
    /\ UNCHANGED <<ring, update_semaphore, stop, skipped_frames, duplicated,
                   inputs, video_time, gpc, slot, index, shown, mpc, joined>>

\* video_output_cur_frame: take frame_info, then input_mutex.
TakeFrame ==
    /\ vpc = "loop"
    /\ ~stop
    /\ slot' = first_added
    /\ shown' = cache[first_added].timestamp
    /\ index' = 1
    /\ vpc' = "input"
    /\ UNCHANGED <<ring, update_semaphore, stop, stats, inputs, video_time,
                   gpc, mpc, joined>>

\* Drop element k; the loop index is not adjusted by the caller.
WithoutInput(k) == [j \in 1 .. Len(inputs) - 1 |->
                        IF j < k THEN inputs[j] ELSE inputs[j + 1]]

\* Mutant: the counter wraps one frame late.
NextCounterLate(p, counter) == IF counter = Divisor[p] THEN 0 ELSE counter + 1

\* frame_rate_divisor_counter after one more frame.
NextCounter(p, counter) == IF counter + 1 = Divisor[p] THEN 0 ELSE counter + 1

\* One round of the loop over the inputs: the divisor counter wraps, and the
\* callback runs on the frames it does not skip.  A failing encoder takes its
\* own input out of the array from inside the callback (input_mutex is
\* recursive), while the loop goes on to index i + 1.
ServeInput ==
    /\ vpc = "input"
    /\ index <= Len(inputs)
    /\ \/ inputs' = [inputs EXCEPT ![index].counter =
                            NextCounter(inputs[index].param, @)]
       \/ /\ CallbackMayStop
          /\ inputs[index].counter = 0
          /\ inputs' = WithoutInput(index)
    /\ index' = index + 1
    /\ UNCHANGED <<ring, update_semaphore, stop, stats, video_time, gpc, vpc,
                   slot, shown, mpc, joined>>

\* Mutant: an emptied ring keeps its old newest slot.
NewestAfterFreeKept == last_added

\* last_added once the front slot is free: an emptied ring starts over at the
\* slot that is taken next.
NewestAfterFree == IF available_frames + 1 = CacheSize THEN NextSlot(first_added)
                                                       ELSE last_added

\* The second data_mutex section of video_output_cur_frame: one interval of
\* the frame is done, and the slot is free when it was the last.
FinishFrame ==
    LET left == cache[slot].count - 1
        dup  == cache[slot].skipped > 0
    IN  /\ vpc = "input"
        /\ index > Len(inputs)
        /\ cache' = [cache EXCEPT ![slot] =
                        [timestamp |-> @.timestamp + 1,
                         count |-> left,
                         skipped |-> IF left # 0 /\ dup THEN @.skipped - 1
                                                        ELSE @.skipped]]
        /\ IF left = 0
           THEN /\ first_added' = NextSlot(first_added)
                /\ available_frames' = available_frames + 1
                /\ last_added' = NewestAfterFree
                /\ vpc' = "counted"
                /\ UNCHANGED skipped_frames
           ELSE /\ skipped_frames' = skipped_frames + (IF dup THEN 1 ELSE 0)
                /\ vpc' = "again"
                /\ UNCHANGED <<first_added, available_frames, last_added>>
        /\ UNCHANGED <<update_semaphore, stop, total_frames, duplicated, inputs,
                       video_time, gpc, slot, index, shown, mpc, joined>>

\* Mutant: the inner loop goes on after the last interval of a frame.
CountFrameGoesOn ==
    /\ vpc \in {"again", "counted"}
    /\ total_frames' = total_frames + 1
    /\ vpc' = "loop"
    /\ UNCHANGED <<ring, update_semaphore, stop, skipped_frames, duplicated,
                   inputs, video_time, gpc, slot, index, shown, mpc, joined>>

\* os_atomic_inc_long(&video->total_frames), in and after the inner loop.
CountFrame ==
    /\ vpc \in {"again", "counted"}
    /\ total_frames' = total_frames + 1
    /\ vpc' = IF vpc = "again" THEN "loop" ELSE "wait"
    /\ UNCHANGED <<ring, update_semaphore, stop, skipped_frames, duplicated,
                   inputs, video_time, gpc, slot, index, shown, mpc, joined>>

-----------------------------------------------------------------------------
(* Other threads.                                                          *)

\* video_output_connect2: the first input resets the counters.
Connect(p) ==
    /\ InputMutexFree
    /\ p \notin Connected
    /\ inputs' = Append(inputs, [param |-> p, counter |-> 0])
    /\ joined' = [joined EXCEPT ![p] = shown]
    /\ IF inputs = <<>>
       THEN /\ skipped_frames' = 0
            /\ total_frames' = 0
            /\ duplicated' = duplicated - skipped_frames
       ELSE UNCHANGED stats
    /\ UNCHANGED <<ring, update_semaphore, stop, video_time, gpc, vthread, mpc>>

\* video_output_disconnect2 from a thread that is not serving the inputs.
Disconnect(k) ==
    /\ InputMutexFree
    /\ k \in DOMAIN inputs
    /\ inputs' = WithoutInput(k)
    /\ UNCHANGED <<ring, update_semaphore, stop, stats, video_time, gpc,
                   vthread, mpc, joined>>

\* video_output_stop: raise the flag, wake the thread, join it.
Stop ==
    \/ /\ mpc = "running"
       /\ ~stop
       /\ stop' = TRUE
       /\ mpc' = "flagged"
       /\ UNCHANGED update_semaphore
    \/ /\ mpc = "flagged"
       /\ update_semaphore' = update_semaphore + 1
       /\ mpc' = "joining"
       /\ UNCHANGED stop
    \/ /\ mpc = "joining"
       /\ vpc = "exited"
       /\ mpc' = "joined"
       /\ UNCHANGED <<update_semaphore, stop>>

StopOutput ==
    /\ Stop
    /\ UNCHANGED <<ring, stats, inputs, video_time, gpc, vthread, joined>>

-----------------------------------------------------------------------------
GraphicsThread ==
    \/ \E count \in 1..MaxCount : RepeatLast(count) \/ LockFrame(count)
    \/ UnlockFrame

VideoThread ==
    SemWait \/ TestStop \/ LeaveLoop \/ TakeFrame \/ ServeInput \/ FinishFrame
        \/ CountFrame

Next ==
    \/ GraphicsThread
    \/ VideoThread
    \/ \E p \in Inputs : Connect(p)
    \/ \E k \in 1..Len(inputs) : Disconnect(k)
    \/ StopOutput

Spec == Init /\ [][Next]_vars

\* The video thread runs, a copy that was started is finished, and a call to
\* video_output_stop proceeds once made.  Nothing makes the graphics thread
\* render, an input connect or the output stop.
Fairness ==
    /\ WF_vars(VideoThread)
    /\ WF_vars(UnlockFrame)
    /\ WF_vars(mpc # "running" /\ StopOutput)

FairSpec == Spec /\ Fairness

-----------------------------------------------------------------------------
(* Properties.                                                             *)

TypeOK ==
    /\ cache \in [Slots -> Frame]
    /\ available_frames \in 0..CacheSize
    /\ first_added \in Slots
    /\ last_added \in Slots
    /\ update_semaphore \in Nat
    /\ stop \in BOOLEAN
    /\ skipped_frames \in Int
    /\ total_frames \in Nat
    /\ duplicated \in Int
    /\ inputs \in Seq([param : Inputs, counter : Nat])
    /\ video_time \in Nat
    /\ gpc \in {"idle", "locked"}
    /\ vpc \in {"wait", "awake", "loop", "input", "again", "counted", "exited"}
    /\ slot \in Slots
    /\ index \in Nat \ {0}
    /\ mpc \in {"running", "flagged", "joining", "joined"}
    /\ shown \in Int
    /\ joined \in [Inputs -> Int]

\* The slot a copy is written to is never one the video thread reads or has
\* still to read: video_output_cur_frame reads frame_info->frame without
\* data_mutex, and output_video_data fills the frame without it too.
NoTornFrame ==
    gpc = "locked" => last_added \notin Queued

\* Whenever the video thread is about to take or is serving a frame, the cache
\* holds one, at the slot it serves: the semaphore never runs ahead of the ring.
NeverServesEmptySlot ==
    /\ vpc \in {"loop", "input", "again"} /\ ~stop => Used > 0
    /\ vpc = "input" => slot = first_added /\ slot \in Queued /\ cache[slot].count > 0

\* Frames wait for the video thread in one unbroken timeline: each starts where
\* the intervals of the one before it end, the newest ends at the clock, and when
\* none waits everything handed in was shown.  (While a frame is being served its
\* slot still holds the interval shown.)
Unbroken ==
    /\ Used = 0 => shown + 1 = Horizon
    /\ Used > 0 => cache[first_added].timestamp =
                        IF vpc = "input" THEN shown ELSE shown + 1
    /\ \A s \in Queued :
            cache[s].timestamp + cache[s].count =
                IF Distance(s) + 1 = Used THEN Horizon
                                          ELSE cache[NextSlot(s)].timestamp

\* Skips the video thread still has to report for the frames in the cache.
PendingSkips == SumFunctionOnSet([s \in Slots |-> cache[s].skipped], Queued)

\* Every interval lost to a full cache is reported once as skipped: it is in
\* skipped_frames or still in the cache, and no slot is recycled with some left.
SkipsReportedOnce ==
    /\ skipped_frames + PendingSkips = duplicated
    /\ \A s \in Queued : 0 <= cache[s].skipped /\ cache[s].skipped < cache[s].count

\* An input is served every Divisor-th interval counted from the one after it
\* connected.
Cadence ==
    InputMutexFree =>
        \A k \in DOMAIN inputs :
            LET p == inputs[k].param
            IN  inputs[k].counter = (shown - joined[p]) % Divisor[p]

\* The cache implements the frame feed.  A frame being copied is not handed in
\* until it is published.
Feed == INSTANCE FrameFeed WITH
    horizon <- Horizon,
    closing <- stop

ImplementsFeed == Feed!FeedSpec

\* Once the output is told to stop, the video thread exits and the join returns.
StopReturns == (mpc = "flagged") ~> (mpc = "joined")
=============================================================================
