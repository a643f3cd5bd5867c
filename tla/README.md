# Verification of the core of OBS Studio

TLA+ modules that model the concurrent core of libobs and of the RTMP output, the
TLC configurations that check them on small instances, and proofs checked by TLAPS
for every value of their constants. Paths below are relative to the repository's
root, `src/`.

* `tlc -config RtmpStream_stop.cfg RtmpStream` runs a model check; `PROJECT.json`
  lists under `runs` which module and configuration belong together.
* `tlapm VideoIO_proofs.tla` checks the proofs of a module.
* `PROJECT.json` also has the map from definitions to source lines, the hazards of
  the code with the properties that cover them, and, for each property, a mutant:
  a plausible bug in a definition that makes the run fail. A mutant's body stands in
  the module as a definition commented "Mutant"; no specification uses it.

## 1. The system

OBS is one process of many threads. The **graphics thread** (`obs-video.c`) renders a
frame each interval and hands it to the **video thread** (`media-io/video-io.c`), which
calls raw outputs and software encoders, and to the **GPU encode thread**
(`obs-video-gpu-encode.c`), which calls encoders that read textures. The audio thread
(`media-io/audio-io.c`) does the same for audio. Encoders call outputs
(`obs-output.c`), which order the packets and pass them to an implementation such as
`plugins/obs-outputs/rtmp-stream.c`, with connect and send threads of its own. The user
interface starts and stops all of it. Sources, scenes, outputs and encoders are
reference counted and listed in `obs->data` and in canvases; the **destruction thread**
(`util/task.c`) frees them later. Components tell each other what happened by signals
(`callback/signal.c`). They share state under mutexes, by atomic flags, events and
semaphores, and in several places without any of them; that, and the order in which
threads end, is what is hard here. Nothing is persisted, so there is no recovery from a
crash to model.

| Component | State | Operations | Hard | Correct when |
|---|---|---|---|---|
| video output (`video-io.c`) | ring of frames, semaphore, inputs, counters | lock / unlock a frame, serve inputs, connect, disconnect, stop | a frame is read and written outside the mutex; a full ring repeats frames | no torn frame, every interval shown once in order, losses counted once, stop returns |
| task queue (`util/task.c`) | deque, semaphore, event | queue, wait, destroy, run | tasks queue tasks; a wait is a marker in the deque | tasks in order, a wait flushes, a destroy drops nothing |
| encoded output (`obs-output.c`) | active, data_active, reconnecting, events, threads | start, stop, force stop, begin / end capture, signal stop, reconnect | six kinds of threads test and set flags | each start and stop has one outcome; encoders are hooked once |
| RTMP stream (`rtmp-stream.c`) | connecting, active, stop event, semaphore | start, stop, connect, send, lose the connection | threads that end each other | the same, seen through the implementation |
| references (`obs-internal.h`, `obs.c`, `obs-source.c`, `obs-canvas.c`) | strong and weak counts, lists | add, release, upgrade, look up, enumerate, remove, destroy | upgrade against last release; lists under two mutexes | no use after free, one destruction, nothing leaks |
| graphics loop (`obs-video.c`) | clock, vframe infos | render, hand in, sleep | falls behind; one frame for several intervals | no interval lost on the way |
| GPU encoding (`obs-video-gpu-encode.c`, `obs.c`) | two queues of textures, keyed mutexes, list of encoders | queue, pop, encode, give back, start, stop, pause | encoders come and go while the copy of their list is used | textures kept, keys agree, stopped encoders unused |
| packet interleaving (`obs-output.c`) | queue, offsets, highest time stamps | receive, prune, sort, send, reset | encoders are at different points when the output starts | order, no gap, sync, key frame first |
| signals (`callback/signal.c`) | callbacks, references of the handler | connect, disconnect, signal, remove current, destroy | callbacks change the array that is walked | each due callback called, none after its disconnect |
| encoders (`obs-encoder.c`) | callbacks, pause, group | start, stop, pause, encode, fail | failure stops outputs on the encoding thread | pauses end on the right frame |
| output delay (`obs-output-delay.c`) | queue with markers | push, pop, flush | markers and packets while reconnecting | stop is obeyed in its place |
| sources (`obs-source.c`) | show / activate counts, async frames, filters | activate, push frames, filter | counts along a tree that changes | counts match the tree |
| scenes, transitions | items and their references, children | add, remove, group, swap | removal while rendering | as for references |
| audio output | ticks, inputs | buffer, mix | late sources | time stamps in order |
| hotkeys | presses, pairs | inject, press, release | callbacks on another thread | press and release alternate |
| canvases, views, displays | lists, channels | set, render | lists under other mutexes | as for references |
| settings data, properties | trees | set, get, apply | - | values over defaults |
| modules, services, missing files | tables | load, register | - | - |
| utilities, buffered file serializer | bytes, a writer thread | read, write | writer against close | all bytes written |
| shared memory queue | three frames in shared memory | write, read | two processes, no lock | reader sees whole frames |
| file outputs, replay buffer | packets, file | write, split, save | - | starts on a key frame |
| WebRTC output, flexible output view, frontend | connection; widgets | - | as RTMP; Qt | - |
| graphics backends, plugins, scripting and vendored code | - | - | drivers, devices and libraries | - |

## 2. Plan

Order of work, the most important behaviour first:

1. `VideoIO` with `FrameFeed`; `TaskQueue`; `ObsOutput` with `RtmpStream`; `ObjRef` - done, with proofs.
2. `GpuEncode`, `Signal`, `Interleave` - done, with proofs of every safety property that a run checks.
3. Worth modelling next: the output delay in front of `ObsOutput`; activation counts of
   a tree of sources; the shared memory queue; `ObjRef` with two objects, for scene
   items and transitions.

Abstract specifications: `FrameFeed`, which `VideoIO` implements. For the outputs the
promise is three properties (`AnsweredOnce`, `StopAnswered`, `StartAnswered`) rather
than a machine of its own.

## 3. Modules

A step is a critical section, an operation on an event, a semaphore or an atomic, an
access to an unprotected field, or a call outside of which nobody sees what it did.
Variables and actions keep the names of fields and functions. Program counters are named
`gpc` (graphics thread), `vpc` (video thread), `epc` (encode thread), `wpc` (worker),
`upc` (user's thread), `mpc` (thread that stops), `pc` (all threads).

**`VideoIO`** (run and proved about; `MCVideoIO`). `LockFrame`, `RepeatLast` and
`UnlockFrame` are `video_output_lock_frame` and `_unlock_frame` as the graphics thread
calls them; `SemWait` to `CountFrame` are the steps of `video_thread` and
`video_output_cur_frame`; `Connect`, `Disconnect` and `StopOutput` are done by others.
Time is counted in frame intervals and pixels are abstracted to the time stamp.
`shown`, `joined` and `duplicated` are history. The state between lock and unlock
(`gpc = "locked"`) is when the frame is copied; the slot is claimed but not published.
`Horizon` is the first interval that no published frame stands for.

**`FrameFeed`** is what the output promises: intervals are handed in and each is shown
once, in order, and eventually unless the output closes. `VideoIO` implements it with
`horizon <- Horizon`, `closing <- stop`; its copying, repeating and counting stutter.

**`TaskQueue`**. Tasks are numbers; in the deque, 0 is the marker of
`os_task_queue_wait` and -1 that of `os_task_queue_destroy`. A running task may queue
another one. `owed` and `begun` are history for the wait under way.

**`ObsOutput`** and **`RtmpStream`** are one system in two modules: `ObsOutput` has the
functions of `obs-output.c` and `RtmpStream` extends it with the callbacks of the
implementation and the specification. A thread is the stack of labels it still has to
run (`pc[t]`), since these functions call each other; a thread of each kind may be
replaced while the last one still ends, so there are two of each, and `handle` names the
one that `pthread_t` does. The packet queue is one bit: whether a packet the send thread
will see is there.

**`ObjRef`** (`MCObjRef`). One source and its control (`obs_weak_source`). A holder has
at most one strong and one weak reference and performs one operation at a time. `Load`
and `Exchange` are the loop of `obs_weak_ref_get_ref`; `Guard` says which mutex each
list is under (an input's are those of `obs->data`, a scene's by-name list is its
canvas's), `ContextMutex` the one that the removal at destruction takes. A canvas with the
flag `SCENE_REF` has a reference of its own, which stands in `strong` as `Canvas`.
`obs_source_remove` takes no lock, so its test of `removed`, its own reference (`own`), its
test of `canvas`, leaving the list, releasing the canvas's reference and forgetting the
canvas are steps (`Remove`), and with `RemovalsOverlap` two holders may be in it at once.
The canvas itself outlives the source, its weak reference is not counted, and taking a
name out of the list a second time changes nothing. The destruction task of
`obs_source_destroy_defer` runs when the task queue gets to it.

**`GpuEncode`** (`MCGpuEncode`). The graphics thread up to `queue_frame`, the encode
thread, and starts, stops and pauses of encoders. Time is counted in intervals. A
texture and its `obs_tex_frame` are one record, with the key that its keyed mutex was
last released with; these mutexes exist on Windows, elsewhere only the queues matter.
`Skip` stands for all reasons an encoder leaves a frame out. Nobody starts an encoder
while another one stops (the guard of `Start`): the code allows it, see section 6.

**`Signal`**. One signal, its array of callbacks, the references of its handler. A
thread is a stack of frames of `signal_handler_signal`, because a callback may send the
signal again; the mutex is recursive and held by the thread that walks the array.
`Unmarked` is what the loop over the marked callbacks leaves. `status` is what the owner of
a callback may believe of it: the last connect or disconnect that settled it. Three kinds
of calls are lost by the handler, and `Careless` names those that are made: connecting a
callback that is only marked as removed (`reconnect`), disconnecting one of two
connections of a callback when the other is marked (`disconnect_twice`), and
`signal_handler_remove_current` after the callback made the array grow
(`remove_after_growth`). The history takes each at its word.

**`Interleave`** (`MCInterleave`). A call of `interleave_packets` runs under
`interleaved_mutex` and is one action; the record `output` has the fields of
`struct obs_output` involved, and each operator takes it and returns it changed, as the
function it is named for changes the output. `BeginCapture` is the reset by a new
start. Time stamps count one unit in all time bases; encoders may be at any of
`FirstDts` when the output starts and their packets arrive in any order. An audio encoder
that is new begins `Priming` below 0, as those of `plugins/obs-ffmpeg` do
(`obs-ffmpeg-audio-encoders.c:389`); `libobs/obs-encoder.c:1338-1344` places that packet at
the start of the encoder on the system's clock, so that dts 0 lies `Priming` after it. A call that
finds audio and video but cannot start yet goes on in `NotReady` with the first of the
reasons that hold, in the order the code asks for them.

How they fit together: `FrameFeed` is what raw outputs and encoders see of `VideoIO`;
the counts that `LockFrame` takes are those `video_sleep` computes in `GpuEncode`;
`TaskQueue` is the thread that runs the deferred destruction of `ObjRef`; `ObsOutput`'s
`begin_data_capture` resets what `Interleave` models.

## 4. Runs

| Run | Instance | Shows |
|---|---|---|
| `video_feed` | cache of 3, one half-rate input that may disconnect in its own callback, frames of 1 or 2 intervals, 6 intervals | no torn frame, no empty slot served, unbroken time line, each loss reported once, the input's rate, refinement of `FrameFeed` with its liveness, stop returns |
| `task_safety` | five tasks | order, flushing, the answer of a wait, waits and destroys end |
| `rtmp_stop` | 3 starts, one stop each, no retries, connections may fail | each stop and start has its one outcome; no call hangs |
| `rtmp_reconnect` | 2 starts, 2 retries, the link may drop, nobody stops | the retry limit holds; reconnecting ends |
| `rtmp_races` | one start, one stop, one retry, everything may fail, slow encoders | encoders hooked once, and to active outputs only |
| `objref_refs` | two holders, a scene and its canvas, lookups `obs_get_transition_by_name` and `obs_enum_sources`, one removal at a time | counts, one destruction, no use after free of source or control, both reclaimed |
| `gpu_frames` | two encoders, one of which pauses once, 2 textures, 1 post let go by, lag 2, 4 intervals | no interval lost, no pop of an empty queue, keys agree, stopped encoders unused, stop returns |
| `signal_calls` | two threads, two callbacks, 3 sends, 3 connects | due callbacks called, none after its disconnect, references counted |
| `interleave_order` | one track each, clocks 8 apart, first packets at 0, 1, 6 or, of audio, -2, one new start, system time up to 24 | order, no gap, video and audio keep their distance |
| `rtmp_stop_hangs` | one start, one stop, one retry | violates `UIReturns` |
| `gpu_unpause` | one encoder, no post let go by, 6 intervals | violates `PauseEnds` |
| `interleave_key` | one track each, system time up to 12 | violates `StartsOnKeyframe` |

Why the bounds are enough. A ring of three slots is the smallest with a slot that is
neither the first nor the last; six intervals wrap it and fill it, with frames of two
intervals among them. Five tasks are enough for tasks on both sides of two markers, one
of them queued by another. The model has two threads of a
kind, the one named by its handle and one that still ends. A third is asked for only
when the metadata failed twice and left two send threads on their semaphores; the run
`rtmp_races` does not go beyond that, the others never get there. Two retries reach the retry after a
retry and the one too many. Two holders are one that releases, removes or destroys and one
that upgrades, enumerates or releases meanwhile, and each hazard of `ObjRef` is between two; the safety
properties are proved for any number. In four intervals textures are reused and, with a lag of two,
repeated. Two threads with two callbacks reach a connect or a disconnect between each
two steps of a walk. The clocks of `interleave_order` are more than two packets of video
apart, so that audio comes late, packets are pruned as premature and pruning is tried
again, and a priming of 2 is a whole packet of audio below 0; at system time 24 the output sends several packets of each track before and after
the new start.

Deadlock is not checked, since the system may stop: the models end when the bounds are
used up or everything was stopped. That nobody waits for ever is stated by the liveness
properties instead (`StopReturns`, `WaitReturns`, `DestroyReturns`, `UIReturns`,
`StopAnswered`, `StartAnswered`, `ReconnectEnds`, `Reclaimed`).

Two constants of the output say how fast threads are. With `Prompt` a thread is
done with what it does in memory before a reconnect timeout, a connection attempt, the
encoding of a first packet or the user's way back to the start button is over, which is
seconds against microseconds; `SlowEncoders` exempts stopping the encoders, which may
take long. Section 6 names what fails without `Prompt`.

## 5. Fairness

A thread runs when it can: weak fairness of its steps (`VideoThread`, `Worker`,
`Step(t)`). A copy that was started is finished, a call that was made proceeds. Strong
fairness is assumed where a step waits for a mutex or an event that is free again and
again, and the operating system's mutexes and scheduler let everyone in some time: the
encode thread and the threads that stop an encoder (`GpuEncode`), and the removal from
the lists and the destruction task of `ObjRef`. `Shutdown` in `RtmpStream` is strongly fair because from the shutdown timeout
on every packet satisfies its condition, and `Data` is weakly fair because encoders that
are hooked deliver. Nothing is assumed about the user, the network, the graphics clock,
or who connects, starts, pauses and looks up.

## 6. Where the code and its documents disagree

Each has a run that shows it:

* **A stop can hang** (`rtmp_stop_hangs`). `obs_output_actual_stop` resets
  `stopping_event` (`libobs/obs-output.c:482`) and then joins the reconnect thread
  (`:488`), which, if it has just started the retry, waits for that event in
  `obs_output_actual_start` (`:363`). `docs/sphinx/reference-outputs.rst:448` says that a
  forced stop attempts to stop the output immediately.
* **A pause may not end** (`gpu_unpause`). `video_pause_check_internal`
  (`libobs/obs-encoder.c:1451`) waits for a frame with exactly the time stamp `ts_end`. A
  graphics loop that fell behind by *c* intervals lengthens the newest frame to *c* - 1 of
  them and queues the next one under the time stamp of the first again, so one time stamp
  is skipped. `docs/sphinx/reference-outputs.rst:71-72` promises a pause "to the exact
  point".
* **A stream may not begin with a key frame** (`interleave_key`). `interleave_packets`
  waits for a key frame (`libobs/obs-output.c:2237`), and when the audio begins more than
  a frame of video later, `prune_premature_packets` (`:1880`) has it discarded together with the
  first audio packet, although the video counts as received.

Under other constants TLC shows more, which no run here repeats:

* Two removals at once release one reference twice. `obs_source_remove` tests `removed`
  without a lock (`libobs/obs-source.c:867`); two threads that both see it unset both take
  the source out of its canvas and release the canvas's one reference
  (`libobs/obs-canvas.c:360`) before either forgets the canvas (`:368`). From then on the
  count is one short, and a release that is not the last destroys the source, while
  `docs/sphinx/reference-sources.rst:929-930` says "When the last reference is released,
  the source is destroyed". `TypeOK`, `Counted`, `DestroyedOnce`, `NoUseAfterFree` and
  `ControlOutlives` fail in `objref_refs` with `RemovalsOverlap = TRUE`. The frontend
  removes sources on its own thread; scripts and plugins need not.
* A callback that is connected again is lost. Disconnected while its signal is sent, it
  stays in the array, marked; a connect before the signal is done takes the entry for a
  connection and adds nothing (`libobs/callback/signal.c:220`), and the end of the signal
  erases it (`:310-317`). `docs/sphinx/reference-libobs-callback.rst:195-197` says that a
  connect does nothing if the callback "is already connected", and `:240` that a signal
  calls "all connected callbacks". `CalledAll` fails in `signal_calls` with
  `Careless = {"reconnect"}`.
* Audio may be a frame of video off. A comment (`libobs/obs-output.c:1463-1464`) says of
  audio of an encoder that runs already that it is "within a 23ish millisecond
  threshold", one packet of AAC, of where it belongs. `prune_premature_packets` accepts a
  first audio packet that is up to one frame of video late (`:1880`), 33 ms at 30 frames
  a second, and both streams are moved to 0. `WithinAudioPacket` says what the comment
  does, and fails in `interleave_order`, with `Priming = 0` too. `KeepsDistance`, which
  holds, says by how much: one packet, the longest, and the priming of the audio, of
  which packets below 0 are kept on purpose (`:1802-1814`) and get no offset (`:2046`).
* A connection lost while it is stopped: the send thread reads `stop_event` and resets
  it later (`plugins/obs-outputs/rtmp-stream.c:730`), so the stop is lost, or it reaches
  `rtmp_stream_stop` when the send thread has ended and is answered a second time;
  `StopAnswered` and `AnsweredOnce` fail in `rtmp_stop` with `LinkMayDrop = TRUE`.
  `AnsweredOnce` fails the same way when a forced stop comes after another stop
  (`StopsPerStart = 2`).
* A connection whose metadata cannot be sent leaves its send thread asleep; the next stop
  wakes that thread too, and both answer: `AnsweredOnce` fails in `rtmp_stop` with
  `MetaMayFail = TRUE`.
* Without `Prompt` a retry or a new start overtakes what the last session has left to do:
  `HookedOnce` fails in `rtmp_races`, `RetriesBounded` and `ReconnectEnds` in
  `rtmp_reconnect`, `AnsweredOnce` and `StopAnswered` in `rtmp_stop`, each with
  `Prompt = FALSE`. `HookedWhileActive` holds, as is proved; whether `StartAnswered` and
  `UIReturns` do is open, TLC finds nothing against them in the time of a run.
* A stop during a reconnect clears `reconnecting`, and when the connection already on its
  way is lost, the retries are counted from zero again (`libobs/obs-output.c:2960`):
  `RetriesBounded` fails in `rtmp_reconnect` with `RetryMax = 1`, `StopsPerStart = 1`.
* Two inputs of a video output, the first of which disconnects in its callback: the loop
  passes over the next one (`libobs/media-io/video-io.c:144`); `Cadence` fails with
  `Inputs = {a, b}`.
* `obs_get_source_by_name` and `obs_get_source_by_uuid` return a source that they got no
  reference to (`libobs/obs.c:1972`); `Counted` fails with `Lookups = {"by_uuid"}`, and for
  a source that no canvas has (`SceneRef = FALSE`, `Guard <- InputGuard`) with
  `{"by_name"}`. A scene leaves its canvas's list before the canvas's reference goes, so
  by name none is found too late.
* An enumeration of the scenes of a canvas reads the link of a scene that the destruction
  thread frees meanwhile, since the removal takes another mutex (`libobs/obs.c:1863`);
  `NoUseAfterFree` fails with `Lookups = {"enum_scenes"}`.
* With two tracks of video, a frame that is no key frame, of the track that has not
  started, discards what is queued before it (`libobs/obs-output.c:2238`), the key frame
  of the other track too, which still counts as received. Once all are received,
  `prune_interleaved_packets` finds no video and fails without taking anything back, and
  from the next packet on the output sends without having sorted or set its offsets. A
  comment says of the packets that wait for each other "This ensures that the timestamps
  are monotonic" (`:2212`); `Monotonic`, `NoGap` and `KeepsDistance` fail in `interleave_order`
  with `VideoTracks = {0, 1}`.
* With two audio tracks packets leave out of order, because `highest_audio_ts` is one
  variable for all (`libobs/obs-output.c:2213`); `Monotonic` and `KeepsDistance`
  fail with `AudioTracks = {0, 1}`.
* A callback that sends its own signal clears `signalling` while the outer loop runs
  (`libobs/callback/signal.c:299`); `CalledAll` and `NotAfterDisconnect` fail
  with `"signal"` in `Inside` and `MaxDepth = 2`.
* A callback connected twice with a reference and disconnected twice while the signal is
  sent: the second disconnect marks the entry that is marked already (`signal.c:262`), and the
  callback is still called. A callback that connects another one and then removes itself
  with `signal_handler_remove_current` may write its mark to where the array was before it
  grew (`:285`), and is called again. `NotAfterDisconnect` fails with
  `Careless = {"disconnect_twice"}` and with `{"remove_after_growth"}`. Only the scripting
  plugins remove the current callback, and they connect nothing there.
* `refs` of a signal handler is loaded and stored again (`signal.c:349`): what others did
  in between is lost. `Counted` says so by its first disjunct, `raced`.

What the models assume away, though the code allows it: two encoders that read textures
stop at once, or one starts during the last stop (`libobs/obs.c:3156`, `3188`);
`interleaver_max_batch_size` grows with every start
(`libobs/obs-output.c:2749`), which `Interleave` models and no property forbids.

## 7. Proofs

Each module `X_proofs` extends module `X`. All hold for every value of the constants that
the named assumptions allow, with no bound on time or calls beyond them.

* **`VideoIO_proofs`**: `TypeCorrect`, `CopyIsSafe` (`NoTornFrame`), `AlwaysAFrame`
  (`NeverServesEmptySlot`), `TimelineUnbroken` (`Unbroken`) and `CacheImplementsFeed`, the
  safety of the refinement. The properties are not inductive. The invariant that is says
  how the indices of the ring, the number of used slots and the claimed slot belong
  together (`RingOK`), that posts of the semaphore and the thread's own turn add up to the
  frames published (`SemOK`), that each queued frame has intervals left (`CountOK`), and
  that each starts where the one before it ends (`TimeOK`). A ring's next slot is proved
  to move its distance by one once, as a lemma, and the rest is linear arithmetic on
  distances. The refinement maps each step to `HandIn`, `Show`, `Close` or a stutter.
  `SkipsCountedOnce` (`SkipsReportedOnce`) follows each step through the sum of what the
  slots have to report; it adds that a frame being copied has nothing to report
  (`SkipOK`). `ServedInCadence` (`Cadence`) has the counter of each input as the intervals
  since it joined modulo its divisor, whether the loop has got to it or not (`CadenceOK`).
  Its hypothesis `NoneOvertaken`: there is one input, or no callback disconnects its own.
  Without it the property is false, see section 6.
* **`TaskQueue_proofs`**: `TypeCorrect`, and `WorkerFindsAnItem` (`PopsOnlyQueued`), from
  `PostsMatch`: each item has one post, on the semaphore, with a thread between push and
  post, or taken by the worker. `TasksInOrder` (`InOrder`), `WaitFlushesTheQueue`
  (`WaitFlushes`), `WaitAnswersRightly` (`WaitAnswers`) and `DestroyDropsNothing`
  (`DestroyRunsAll`) have one more invariant, `QInv`: the tasks in the deque ascend and come
  after all that were run, with one marker at most, which the rotation of
  `os_task_queue_thread` may move but never past a task it must follow (`Order`); a task
  queued is in the deque, in hand or run (`NothingDropped`); and the flags and events of a
  wait and a destroy tell where their markers are (`WaitMarker`, `StopMarker`, `Answer`).
* **`ObjRef_proofs`**, under the hypothesis `Careful` (no lookup that returns what it got no
  reference to, each enumeration under the mutex the destruction takes, and no two
  removals at once, the negation of three disagreements of section 6): `TypeCorrect`, `ReferencesCounted`, `NoDoubleDestroy`,
  `SourceOutlivesUse` and `ControlOutlivesUse`. The invariant has the count as a
  cardinality, its weak counterpart (the strong references hold one together), who may be
  in a mutex, that who removes the source has a reference for it and the canvas its own until
  then (`Removals`, with which the count never reaches -1 within a removal but by its own
  reference), that one holder at most destroys, the order of the phases of destruction,
  and that an enumeration that holds its mutex keeps the source listed or gone.
* **`GpuEncode_proofs`**, with no hypothesis: `StoppedIsUnused` (`NotUsedAfterStop`),
  `TypeCorrect`, `KeysHandedOn` (`KeysAgree`), `ThreadFindsAFrame` (`PopsOnlyQueued`) and
  `NoIntervalLost` (`NothingLost`, an action property). `UseInv`: each encoder is in the list
  at most once, from its start to its stop (`Listed`); the encode thread keeps the event
  reset from before it copies the list until it is done (`EventReset`); so no encoder of
  the copy gets past its wait (`CopyInUse`). `QueueInv`: without encoders there is no thread
  (`ThreadOwned`), so `init_gpu_encoding` finds none with a frame in its hands, and the next
  key and the key taken are the same between two encoders (`KeyHandedOn`). `CountInv`:
  posts, those let go by and the frame in hand add up to the intervals queued
  (`PostsMatch`). A step that keeps every interval does so between two sums over queues, of
  which the lemmas on `Intervals` say what an append, a tail or a longer frame adds.
* **`Signal_proofs`**: `TypeCorrect` and `ReferencesCounted` (`Counted`), for signals nested
  to any depth. The invariant says of each stack that all but its last frame are in a
  callback (`StacksFit`), so a thread owes the references of its last frame alone. Under
  `NotNested` (no callback sends its own signal) and `Careful` (no call that the handler
  loses), without which the properties are false, see section 6: `EveryCallbackCalled` (`CalledAll`) and `NoCallAfterDisconnect`
  (`NotAfterDisconnect`). `WInv` says of a walk that callbacks which are due are connected,
  and that those of the entries it has passed were called unless they are marked
  (`WalksFit`); entries are only erased while nobody walks.
* **`Interleave_proofs`**, for any intervals and clocks of the encoders, any packets they are
  at when the output starts and any number of new starts. `NothingLeftOut` (`NoGap`) has
  the hypothesis `OneVideo`, with any number of audio encoders; `SentInOrder` (`Monotonic`)
  and `ShownTogether` (`KeepsDistance`) also `OneAudio`. With more, the properties are false, see
  section 6. An output collects or runs (`Steady`). While it collects, its queue is in
  order and each stream an unbroken chain up to the packet its encoder produces next
  (`Fresh`, `Chain`), and the video counts as received just when it is in the queue
  (`VideoKnown`, which fails with two tracks). Once it runs, the chain goes from the packets
  sent through those queued to the encoder (`Running`). Each operator of the module,
  from `InsertPacket` to `SetOffsets`, has a lemma that says what it does to chains:
  drop a prefix, insert at the place of a time stamp, move by an offset, sort. For the
  order, a packet may be sent once each other stream is past it (`MaySend`), which
  `highest_video_ts` and `highest_audio_ts` bound from below (`InOrder`). For the sync,
  pruning leaves audio within a packet of the first video: `EarlyNear` and `LateNear` are
  the two ways of `prune_premature_packets`, and `ClosestStays` says that
  `get_interleaved_start_idx` keeps the closest of them and the video, with earlier audio only
  if it is priming. The offsets then differ from the streams' clocks by that much and at
  most the priming (`Sync`, from `Origin`), and nothing changes them. The assumption on
  `Base` says no more than that the clock of the system, when an audio encoder starts, is
  past its priming.
* **`RtmpStream_proofs`**, of `ObsOutput` and `RtmpStream` together, for any number of
  starts and retries: `TypeCorrect`, with every program counter a stack of labels of the
  code, and, with no hypothesis on how fast threads are, `OnlyActiveHooked`
  (`HookedWhileActive`). With `Prompt`: `HookedAtMostOnce` (`HookedOnce`), however often
  the stream is stopped, lost and started. With `Undisturbed`, which is `Prompt` and no
  stops: `RetriesAreBounded` (`RetriesBounded`) and `AnsweredAtMostOnce` (`AnsweredOnce`),
  whatever connections fail and links drop. With `StoppedOnce`, which is `Prompt`, a link
  that holds and one stop at most for each start: `StoppedAnsweredOnce` (`AnsweredOnce`).
  Each part of that hypothesis is needed, see section 6. `Stacked` says which labels lie under which, so
  a stack is three functions of threads. Stopping an output that is active and captures
  is left to one thread of its own (`OneClosing`), which unhooks before it deactivates
  (`HookedIsActive`). Prompt threads connect one at a time (`OneLink`). `Calm` is the
  invariant of a stream that nobody stops: one thread at most is on the way from a start or
  a loss to the next connection or the answer (`OneCarries`), the send threads sleep
  meanwhile (`SendersSleep`, `WokenByPackets`), the start is still owed its answer
  (`AnswerOwed`) and each connection after the first was paid by a retry (`TriesCounted`).
  `InOrder` is the invariant of a stream that is stopped once: of each kind of thread only
  the newest runs (`Placed`), so four labels tell where everything is, and what they may be
  together says how far a start is (`StartsInOrder`), who captures or ends the capture
  (`CapturesInOrder`), how far a stop is (`StopsInOrder`) and who still owes the answer
  (`StillOwed`). `Homes` says which function each kind of thread returns to.
* **`SumTheorems`**: the sum of a function over a finite set, which the community modules
  define by recursion, unfolds by any of its members and follows a change of one value.

How sums and recursions are proved about: finite sets and sequences have no induction that
these provers can use with an operator as its parameter, but an induction on the *set* of
numbers or of finite sets for which a statement holds goes through (`Induction` and
`FiniteInduction` of `SumTheorems`, from the least element of a set of naturals). A LET
function that recurses over positions, like `Unmarked` of `Signal` and `sorted` in
`Resort` of `Interleave`, is a choice; the lemmas first show that there is such a function.
This is why both are written that way, and not with `SelectSeq` and `FoldLeft`.

Only model-checked: everything about liveness (`FrameFeed`'s, `StopReturns`,
`WaitReturns`, `DestroyReturns`, `StopAnswered`, `StartAnswered`, `ReconnectEnds`,
`Reclaimed`), which like `ENABLED` is out of the provers' reach. What is proved leaves out the cases that the
hypotheses `NoneOvertaken`, `Careful` (of `ObjRef` and of `Signal`), `NotNested`, `OneVideo`, `OneAudio`, `Undisturbed` and
`StoppedOnce` name; each is a case in which TLC shows that the code does not keep the
property.

## 8. Not modelled

* Of modelled components: creating a video output and its divisors
  (`video_output_create_with_frame_rate_divisor`), scaling, `gpu_refs` and `raw_active`;
  raw outputs, delay, pausing and captions of an output; failing encoders, which stop
  their outputs under `outputs_mutex`; the Windows socket loop, dynamic bitrate and frame
  dropping of RTMP; early returns of `connect_thread`; the
  frontend's `reconnect_callback`, which may refuse a reconnect (`obs-output.c:3002-3012`); an
  encoder whose last reference goes while the encode thread copies the list
  (`obs-video-gpu-encode.c:68-70`); the download of frames for software
  encoders; encoder groups; global callbacks of signals; outputs with a single encoder.
  `PROJECT.json` says so for each component.
* `output_reconnect` loads `reconnecting` three times (`obs-output.c:2953`, `2958`, `2972`) and
  asks the event in between; `OutputReconnect` takes them as one step, so a stop that clears
  `reconnecting` between two of them comes before or after all of them in the model.
* Several objects that hold each other (scenes, filters, transitions): `ObjRef` has one.
* Output delay, source activation and async frames, audio buffering, hotkeys, the shared
  memory queue and the buffered file serializer have states worth a model and none yet.
* Rendering, mixing, encoding and container formats are computation on data, with
  little control; settings, properties, modules and services are sequential; the frontend,
  the flexible output view and scripting are user interface and bindings; drivers,
  devices, codecs and vendored libraries are outside this code.
