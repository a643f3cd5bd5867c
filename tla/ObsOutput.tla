------------------------------ MODULE ObsOutput ------------------------------
(***************************************************************************)
(* libobs/obs-output.c: starting, stopping and reconnecting an encoded     *)
(* output with a service and no delay.  The functions of the output        *)
(* implementation (obs_output_info::start, ::stop) are the steps of the    *)
(* module that extends this one.                                           *)
(*                                                                         *)
(* The functions run on several threads and call each other, so a thread   *)
(* is the stack of what it still has to run: pc[t] is a sequence of labels *)
(* whose head is next.  A step ends where another thread can see or change *)
(* what it used.                                                           *)
(*                                                                         *)
(* Each kind of thread has one pthread_t in the code, which names the      *)
(* thread of that kind created last; an earlier one may not be done yet.   *)
(***************************************************************************)
EXTENDS Integers, Sequences

CONSTANTS
    RetryMax,    \* obs_output::reconnect_retry_max
    MaxStarts,   \* bound: calls of obs_output_start
    StopsPerStart, \* bound: calls of obs_output_stop and _force_stop, per start
    Prompt,      \* threads are done with what they do in memory before a
                 \* reconnect timeout, a connection attempt, the encoding of a
                 \* first packet or the user's way to the start button is over
    SlowEncoders \* stopping the encoders may take longer than that

ASSUME RetryMaxAssumption == RetryMax \in Nat
ASSUME BoundsAssumption == MaxStarts \in Nat /\ StopsPerStart \in Nat
ASSUME PaceAssumption == {Prompt, SlowEncoders} \subseteq BOOLEAN

VARIABLES
    pc,
    handle,              \* kind -> which of its two threads pthread_t names
    detached,            \* the threads pthread_detach was called for
    active,
    data_active,
    reconnecting,
    reconnect_retries,
    reconnect_thread_active,
    end_data_capture_thread_active,
    stopping_event,      \* manual event, set while the output is not stopping
    reconnect_stop_event,
    hooked,              \* the output's callback is connected to the encoders
    force,               \* UI thread: argument of obs_output_actual_stop
    streamingStarting,   \* frontend: between the start call and its outcome
    starts, stops,       \* calls made: starts so far, stops since the last start
    told,                \* history: no "stop" signal yet since a stop was asked for
    answers,             \* history: "stop" signals so far
    attempts             \* history: connections tried since the last success

threading == <<pc, handle, detached>>
flags == <<active, data_active, reconnecting, hooked>>
reconnects == <<reconnect_retries, reconnect_thread_active>>
events == <<stopping_event, reconnect_stop_event>>
frontend == <<force, streamingStarting, starts, stops, told>>
history == <<answers, attempts>>
output == <<handle, detached, flags, reconnects, events,
            end_data_capture_thread_active, frontend, history>>

Kinds == {"connect", "send", "end", "reconnect"}
Threads == Kinds \X {0, 1}
ui == <<"ui", 0>>

\* What obs_output_signal_stop is called with: OBS_OUTPUT_SUCCESS,
\* OBS_OUTPUT_DISCONNECTED, or one of the codes of a failed start.
Codes == {"success", "disconnected", "failed"}
SignalStop == [success |-> "signal_success", disconnected |-> "signal_lost",
               failed |-> "signal_failed"]

At(t, label) == pc[t] # <<>> /\ Head(pc[t]) = label

\* The stacks once t has left its label and runs next first.
Then(t, next) == [pc EXCEPT ![t] = next \o Tail(@)]
Goto(t, next) == pc' = Then(t, next)

Current(kind) == <<kind, handle[kind]>>
Finished(t) == pc[t] = <<>>

\* pthread_join.  Joining a detached thread is undefined: it may wait for the
\* thread or return at once.
Joined(kind) == Finished(Current(kind)) \/ Current(kind) \in detached

\* pthread_create, by a thread that goes on with next.  At most two threads of
\* a kind are alive.
Create(t, next, kind, label) ==
    LET new == <<kind, 1 - handle[kind]>>
    IN  /\ Finished(new)
        /\ pc' = [Then(t, next) EXCEPT ![new] = <<label>>]
        /\ handle' = [handle EXCEPT ![kind] = 1 - @]
        /\ detached' = detached \ {new}

\* Where a thread may stay for long: it waits for another one, for packets, the
\* network or a timeout, or for the encoders to stop.
Waits == {"actual_start", "join_end", "join_reconnect", "join_connect",
          "end_thread", "init_connect", "send", "timed_wait", "try_connect"}
              \cup (IF SlowEncoders THEN {"stop_encoders"} ELSE {})

Busy(u) == pc[u] # <<>> /\ Head(pc[u]) \notin Waits

\* What takes longer than the steps of the threads us may be over.
After(us) == Prompt => ~ \E u \in us : Busy(u)

OutputInit ==
    /\ pc = [t \in Threads \cup {ui} |-> <<>>]
    /\ handle = [kind \in Kinds |-> 0]
    /\ detached = {}
    /\ active = FALSE
    /\ data_active = FALSE
    /\ reconnecting = FALSE
    /\ reconnect_retries = 0
    /\ reconnect_thread_active = FALSE
    /\ end_data_capture_thread_active = FALSE
    /\ stopping_event = TRUE
    /\ reconnect_stop_event = FALSE
    /\ hooked = FALSE
    /\ force = FALSE
    /\ streamingStarting = FALSE
    /\ starts = 0
    /\ stops = 0
    /\ told = FALSE
    /\ answers = 0
    /\ attempts = 0

-----------------------------------------------------------------------------
(* The calls of the frontend (OBSBasic::StartStreaming, StopStreaming and  *)
(* ForceStopStreaming).                                                    *)

UserStart ==
    /\ Finished(ui)
    /\ starts < MaxStarts
    /\ ~active /\ ~reconnecting /\ ~streamingStarting
    /\ After(Threads)
    /\ pc' = [pc EXCEPT ![ui] = <<"actual_start", "started">>]
    /\ streamingStarting' = TRUE
    /\ starts' = starts + 1
    /\ stops' = 0
    /\ attempts' = 0
    /\ UNCHANGED <<handle, detached, flags, reconnects, events, force, told,
                   answers, end_data_capture_thread_active>>

\* obs_output_stop and obs_output_force_stop.  A plain stop is forced while
\* the output reconnects and ignored while it is already stopping.
UserStop(forced) ==
    /\ Finished(ui)
    /\ stops < StopsPerStart
    /\ active \/ reconnecting
    /\ stops' = stops + 1
    /\ told' = TRUE
    /\ force' = (forced \/ reconnecting)
    /\ IF force' \/ stopping_event
       THEN pc' = [pc EXCEPT ![ui] = <<"actual_stop">>]
       ELSE UNCHANGED pc
    /\ UNCHANGED <<handle, detached, flags, reconnects, events, history,
                   end_data_capture_thread_active, streamingStarting, starts>>

-----------------------------------------------------------------------------
(* obs_output_actual_start, on the UI thread or the reconnect thread.      *)

\* os_event_wait(output->stopping_event)
ActualStart(t) ==
    /\ At(t, "actual_start")
    /\ stopping_event
    /\ Goto(t, <<"can_begin">>)
    /\ UNCHANGED output

\* obs_output_can_begin_data_capture
CanBegin(t) ==
    \/ /\ At(t, "can_begin")
       /\ IF active THEN Goto(t, <<"not_started">>) ELSE Goto(t, <<"join_end">>)
       /\ UNCHANGED output
    \/ /\ At(t, "join_end")
       /\ end_data_capture_thread_active => Joined("end")
       /\ Goto(t, <<"stream_start">>)
       /\ UNCHANGED output

\* info.start failed.  The frontend takes its button back, while
\* reconnect_thread ignores it.
NotStarted(t) ==
    /\ At(t, "not_started")
    /\ Goto(t, <<>>)
    /\ streamingStarting' = (streamingStarting /\ t # ui)
    /\ UNCHANGED <<handle, detached, flags, reconnects, events, force, starts,
                   stops, told, history, end_data_capture_thread_active>>

\* obs_output_start is done.
Started ==
    /\ At(ui, "started")
    /\ Goto(ui, <<>>)
    /\ UNCHANGED output

-----------------------------------------------------------------------------
(* obs_output_actual_stop, on the UI thread.                               *)

ActualStop ==
    \/ /\ At(ui, "actual_stop")
       /\ IF ~stopping_event /\ ~force
          THEN Goto(ui, <<>>) /\ UNCHANGED stopping_event
          ELSE Goto(ui, <<"cancel_reconnect">>) /\ stopping_event' = FALSE
       /\ UNCHANGED <<handle, detached, flags, reconnects, reconnect_stop_event,
                      end_data_capture_thread_active, frontend, history>>
    \/ /\ At(ui, "cancel_reconnect")
       /\ IF reconnecting
          THEN Goto(ui, <<"join_reconnect">>) /\ reconnect_stop_event' = TRUE
          ELSE Goto(ui, <<"stream_stop">>) /\ UNCHANGED reconnect_stop_event
       /\ UNCHANGED <<handle, detached, flags, reconnects, stopping_event,
                      end_data_capture_thread_active, frontend, history>>
    \/ /\ At(ui, "join_reconnect")
       /\ reconnect_thread_active => Joined("reconnect")
       /\ Goto(ui, <<"stream_stop">>)
       /\ UNCHANGED output

-----------------------------------------------------------------------------
(* obs_output_begin_data_capture, on the thread that connected.            *)

\* Mutant: a reconnected output goes on as reconnecting.
SignalStartForgets(t) ==
    /\ At(t, "signal_start")
    /\ Goto(t, <<>>)
    /\ streamingStarting' = (streamingStarting /\ reconnecting)
    /\ attempts' = 0
    /\ UNCHANGED <<handle, detached, flags, reconnects, events, force, starts,
                   stops, told, answers, end_data_capture_thread_active>>

\* The "start" or the "reconnect_success" signal.
SignalStart(t) ==
    /\ At(t, "signal_start")
    /\ Goto(t, <<>>)
    /\ reconnecting' = FALSE
    /\ streamingStarting' = (streamingStarting /\ reconnecting)
    /\ attempts' = 0
    /\ UNCHANGED <<handle, detached, active, data_active, hooked, reconnects,
                   events, end_data_capture_thread_active, force, starts,
                   stops, told, answers>>

BeginDataCapture(t) ==
    \/ /\ At(t, "begin_data_capture")
       /\ IF active
          THEN Goto(t, <<>>) /\ UNCHANGED <<data_active, hooked>>
          ELSE /\ Goto(t, <<"activate">>)
               /\ data_active' = TRUE
               /\ hooked' = TRUE
       /\ UNCHANGED <<handle, detached, active, reconnecting, reconnects, events,
                      end_data_capture_thread_active, frontend, history>>
    \/ /\ At(t, "activate")
       /\ Goto(t, <<"signal_start">>)
       /\ active' = TRUE
       /\ UNCHANGED <<handle, detached, data_active, reconnecting, hooked,
                      reconnects, events, end_data_capture_thread_active,
                      frontend, history>>
    \/ SignalStart(t)

-----------------------------------------------------------------------------
(* obs_output_end_data_capture_internal: "end_capture" when it signals the *)
(* stop, "suspend_capture" when the output is about to reconnect.          *)

\* What signal_stop does: the "stop" signal reaches the frontend.
SignalsStop ==
    /\ answers' = answers + 1
    /\ told' = FALSE
    /\ streamingStarting' = FALSE

EndDataCapture(t) ==
    \/ \E label \in {"end_capture", "suspend_capture"} :
        /\ At(t, label)
        /\ IF active /\ data_active
           THEN /\ Goto(t, IF label = "end_capture"
                           THEN <<"end_thread", "signal_stop">>
                           ELSE <<"end_thread">>)
                /\ data_active' = FALSE
                /\ UNCHANGED <<stopping_event, answers, told, streamingStarting>>
           ELSE /\ Goto(t, <<>>)
                /\ IF label = "end_capture"
                   THEN SignalsStop /\ stopping_event' = TRUE
                   ELSE UNCHANGED <<stopping_event, answers, told, streamingStarting>>
                /\ UNCHANGED data_active
        /\ UNCHANGED <<handle, detached, active, reconnecting, hooked, reconnects,
                       reconnect_stop_event, end_data_capture_thread_active,
                       force, starts, stops, attempts>>
    \/ /\ At(t, "end_thread")
       /\ end_data_capture_thread_active => Joined("end")
       /\ Create(t, <<>>, "end", "stop_encoders")
       /\ end_data_capture_thread_active' = TRUE
       /\ UNCHANGED <<flags, reconnects, events, frontend, history>>
    \/ /\ At(t, "signal_stop")
       /\ SignalsStop
       /\ Goto(t, <<>>)
       /\ UNCHANGED <<handle, detached, flags, reconnects, events, force, starts,
                      stops, attempts, end_data_capture_thread_active>>

\* Mutant: the callbacks are not found at the encoders.
StopEncodersMissed(t) ==
    /\ At(t, "stop_encoders")
    /\ Goto(t, <<"deactivate">>)
    /\ UNCHANGED output

\* stop_video_encoders and stop_audio_encoders
StopEncoders(t) ==
    /\ At(t, "stop_encoders")
    /\ Goto(t, <<"deactivate">>)
    /\ hooked' = FALSE
    /\ UNCHANGED <<handle, detached, active, data_active, reconnecting,
                   reconnects, events, end_data_capture_thread_active,
                   frontend, history>>

\* Mutant: nobody is told that the output is stopped.
StoppedSilent(t) ==
    /\ At(t, "stopped")
    /\ Goto(t, <<"end_done">>)
    /\ UNCHANGED output

\* os_event_signal(output->stopping_event)
Stopped(t) ==
    /\ At(t, "stopped")
    /\ Goto(t, <<"end_done">>)
    /\ stopping_event' = TRUE
    /\ UNCHANGED <<handle, detached, flags, reconnects, reconnect_stop_event,
                   end_data_capture_thread_active, frontend, history>>

\* end_data_capture_thread
EndThread(t) ==
    \/ StopEncoders(t)
    \/ /\ At(t, "deactivate")
       /\ Goto(t, <<"stopped">>)
       /\ active' = FALSE
       /\ UNCHANGED <<handle, detached, data_active, reconnecting, hooked,
                      reconnects, events, end_data_capture_thread_active,
                      frontend, history>>
    \/ Stopped(t)
    \/ /\ At(t, "end_done")
       /\ Goto(t, <<>>)
       /\ end_data_capture_thread_active' = FALSE
       /\ UNCHANGED <<handle, detached, flags, reconnects, events, frontend,
                      history>>

-----------------------------------------------------------------------------
(* obs_output_signal_stop.                                                 *)

CanReconnect(code) ==
    \/ reconnecting /\ code # "success"
    \/ RetryMax # 0 /\ code = "disconnected"

SignalStopCode(t, code) ==
    /\ At(t, SignalStop[code])
    /\ IF CanReconnect(code)
       THEN /\ Goto(t, <<"suspend_capture", "output_reconnect">>)
            /\ UNCHANGED reconnecting
       ELSE /\ Goto(t, <<"end_capture">>)
            /\ reconnecting' = FALSE
    /\ UNCHANGED <<handle, detached, active, data_active, hooked, reconnects,
                   events, end_data_capture_thread_active, frontend, history>>

-----------------------------------------------------------------------------
(* output_reconnect.                                                       *)

\* Mutant: the retries are counted from zero on every failure.
RetriesRestarted == 0

\* The retries before this one: a fresh loss starts from zero.
Retries == IF reconnecting THEN reconnect_retries ELSE 0

GiveUp == Retries >= RetryMax

OutputReconnect(t) ==
    \/ /\ At(t, "output_reconnect")
       /\ IF reconnecting /\ reconnect_stop_event
          THEN /\ Goto(t, <<>>)
               /\ reconnecting' = FALSE
               /\ UNCHANGED reconnect_retries
          ELSE /\ reconnect_retries' = Retries
               /\ IF GiveUp
                  THEN /\ Goto(t, <<"end_capture">>)
                       /\ reconnecting' = FALSE
                  ELSE /\ Goto(t, IF reconnecting THEN <<"retry">>
                                                  ELSE <<"reset_stop", "retry">>)
                       /\ reconnecting' = TRUE
       /\ UNCHANGED <<handle, detached, active, data_active, hooked,
                      reconnect_thread_active, events,
                      end_data_capture_thread_active, frontend, history>>
    \/ /\ At(t, "reset_stop")
       /\ Goto(t, <<>>)
       /\ reconnect_stop_event' = FALSE
       /\ UNCHANGED <<handle, detached, flags, reconnects, stopping_event,
                      end_data_capture_thread_active, frontend, history>>
    \/ /\ At(t, "retry")
       /\ Create(t, <<>>, "reconnect", "reconnect")
       /\ reconnect_retries' = reconnect_retries + 1
       /\ UNCHANGED <<flags, reconnect_thread_active, events,
                      end_data_capture_thread_active, frontend, history>>

\* reconnect_thread: wait for the timeout or the stop event.
ReconnectThread(t) ==
    \/ /\ At(t, "reconnect")
       /\ Goto(t, <<"timed_wait">>)
       /\ reconnect_thread_active' = TRUE
       /\ UNCHANGED <<handle, detached, flags, reconnect_retries, events,
                      end_data_capture_thread_active, frontend, history>>
    \/ /\ At(t, "timed_wait")
       /\ \/ /\ ~reconnect_stop_event
             /\ After(DOMAIN pc \ {t})
             /\ Goto(t, <<"actual_start", "reconnect_end">>)
          \/ reconnect_stop_event /\ Goto(t, <<"reconnect_end">>)
       /\ UNCHANGED output
    \/ /\ At(t, "reconnect_end")
       /\ Goto(t, <<"reconnect_done">>)
       /\ IF reconnect_stop_event
          THEN reconnecting' = FALSE /\ UNCHANGED detached
          ELSE /\ detached' = detached \cup {Current("reconnect")}
               /\ UNCHANGED reconnecting
       /\ UNCHANGED <<handle, active, data_active, hooked, reconnects, events,
                      end_data_capture_thread_active, frontend, history>>
    \/ /\ At(t, "reconnect_done")
       /\ Goto(t, <<>>)
       /\ reconnect_thread_active' = FALSE
       /\ UNCHANGED <<handle, detached, flags, reconnect_retries, events,
                      end_data_capture_thread_active, frontend, history>>

-----------------------------------------------------------------------------
\* A step of thread t in obs-output.c.
OutputStep(t) ==
    \/ ActualStart(t) \/ CanBegin(t) \/ NotStarted(t)
    \/ t = ui /\ (Started \/ ActualStop)
    \/ BeginDataCapture(t) \/ EndDataCapture(t) \/ EndThread(t)
    \/ \E code \in Codes : SignalStopCode(t, code)
    \/ OutputReconnect(t) \/ ReconnectThread(t)

\* The part of the type invariant for the variables of this module.
OutputTypeOK ==
    /\ handle \in [Kinds -> {0, 1}]
    /\ detached \subseteq Threads
    /\ {active, data_active, reconnecting, hooked, reconnect_thread_active,
        end_data_capture_thread_active, stopping_event, reconnect_stop_event,
        force, streamingStarting, told} \subseteq BOOLEAN
    /\ reconnect_retries \in Nat
    /\ starts \in 0..MaxStarts
    /\ stops \in 0..StopsPerStart
    /\ answers \in Nat
    /\ attempts \in Nat
=============================================================================
