------------------------------ MODULE RtmpStream ------------------------------
(***************************************************************************)
(* plugins/obs-outputs/rtmp-stream.c under libobs/obs-output.c: the stream *)
(* connects on one thread and sends on another, is told to stop by the UI  *)
(* thread and reports losses to the output, which may reconnect it.        *)
(*                                                                         *)
(* Packets are abstracted to whether one is waiting.  Encoder failures,    *)
(* the Windows socket loop and the destruction of the output are left out. *)
(***************************************************************************)
EXTENDS ObsOutput

CONSTANTS
    ConnectMayFail,  \* try_connect may fail
    LinkMayDrop,     \* a send may fail
    MetaMayFail      \* sending the metadata of a new connection may fail

ASSUME NetworkAssumption ==
    {ConnectMayFail, LinkMayDrop, MetaMayFail} \subseteq BOOLEAN

VARIABLES
    connecting,
    sending,        \* rtmp_stream::active
    stop_event,     \* manual event, set while the stream is asked to stop
    stop_ts,        \* the stop time is not 0: what is queued is still sent
    disconnected,
    send_sem,       \* the semaphore's count
    packet          \* a packet is queued

stream == <<connecting, sending, stop_event, stop_ts, disconnected, send_sem,
            packet>>
vars == <<pc, output, stream>>

Init ==
    /\ OutputInit
    /\ connecting = FALSE
    /\ sending = FALSE
    /\ stop_event = FALSE
    /\ stop_ts = FALSE
    /\ disconnected = FALSE
    /\ send_sem = 0
    /\ packet = FALSE

-----------------------------------------------------------------------------
\* rtmp_stream_start once the output can begin: obs_output_initialize_encoders
\* looks at active again.
StreamStart(t) ==
    /\ At(t, "stream_start")
    /\ IF active
       THEN /\ Goto(t, <<"not_started">>)
            /\ UNCHANGED <<handle, detached, connecting>>
       ELSE /\ Create(t, <<>>, "connect", "init_connect")
            /\ connecting' = TRUE
    /\ UNCHANGED <<flags, reconnects, events, end_data_capture_thread_active,
                   frontend, history, sending, stop_event, stop_ts,
                   disconnected, send_sem, packet>>

-----------------------------------------------------------------------------
(* rtmp_stream_stop, called from obs_output_actual_stop.                   *)

\* Mutant: the stop is answered at once and by the send thread as well.
StopSendingTwice == <<"raise_stop", SignalStop["success"]>>

\* A stream that sends is told to stop, any other has stopped.
StopSending == IF sending THEN <<"raise_stop">> ELSE <<SignalStop["success"]>>

StreamStop ==
    \/ /\ At(ui, "stream_stop")
       /\ IF stop_event /\ ~force THEN Goto(ui, <<>>)
          ELSE IF connecting THEN Goto(ui, <<"join_connect">>)
                             ELSE Goto(ui, <<"stop_sending">>)
       /\ UNCHANGED stream
    \/ /\ At(ui, "join_connect")
       /\ Joined("connect")
       /\ Goto(ui, <<"stop_sending">>)
       /\ UNCHANGED stream
    \/ /\ At(ui, "stop_sending")
       /\ stop_ts' = ~force
       /\ Goto(ui, StopSending)
       /\ UNCHANGED <<connecting, sending, stop_event, disconnected, send_sem,
                      packet>>
    \/ /\ At(ui, "raise_stop")
       /\ Goto(ui, IF stop_ts THEN <<>> ELSE <<"post_stop">>)
       /\ stop_event' = TRUE
       /\ UNCHANGED <<connecting, sending, stop_ts, disconnected, send_sem, packet>>
    \/ /\ At(ui, "post_stop")
       /\ Goto(ui, <<>>)
       /\ send_sem' = send_sem + 1
       /\ UNCHANGED <<connecting, sending, stop_event, stop_ts, disconnected, packet>>

-----------------------------------------------------------------------------
(* connect_thread.                                                         *)

\* init_connect: the send thread of a stop under way is joined first.
InitConnect(t) ==
    /\ At(t, "init_connect")
    /\ stop_event => Joined("send")
    /\ Goto(t, <<"try_connect">>)
    /\ disconnected' = FALSE
    /\ packet' = FALSE
    /\ UNCHANGED <<connecting, sending, stop_event, stop_ts, send_sem>>

\* The connection fails, or is made and init_send starts over with a new
\* semaphore and a new send thread.
TryConnect(t) ==
    /\ At(t, "try_connect")
    /\ After(DOMAIN pc \ {t})
    /\ \/ /\ ConnectMayFail
          /\ Goto(t, <<SignalStop["failed"], "connect_end">>)
          /\ UNCHANGED <<handle, detached, send_sem>>
       \/ /\ send_sem' = 0
          /\ Create(t, <<"stream_active">>, "send", "send")
    /\ attempts' = attempts + 1
    /\ UNCHANGED <<flags, reconnects, events, end_data_capture_thread_active,
                   frontend, answers, connecting, sending, stop_event, stop_ts,
                   disconnected, packet>>

\* The rest of init_send: metadata goes out and the capture begins.
StreamActive(t) ==
    \/ /\ At(t, "stream_active")
       /\ Goto(t, <<"send_meta_data">>)
       /\ sending' = TRUE
       /\ UNCHANGED <<connecting, stop_event, stop_ts, disconnected, send_sem, packet>>
    \/ /\ At(t, "send_meta_data")
       /\ \/ Goto(t, <<"begin_data_capture", "connect_end">>)
          \/ MetaMayFail /\ Goto(t, <<SignalStop["disconnected"], "connect_end">>)
       /\ UNCHANGED stream

ConnectEnd(t) ==
    \/ /\ At(t, "connect_end")
       /\ Goto(t, <<"connect_done">>)
       /\ detached' = IF stop_event THEN detached
                                    ELSE detached \cup {Current("connect")}
       /\ UNCHANGED <<handle, flags, reconnects, events, frontend, history,
                      end_data_capture_thread_active, stream>>
    \/ /\ At(t, "connect_done")
       /\ Goto(t, <<>>)
       /\ connecting' = FALSE
       /\ UNCHANGED <<output, sending, stop_event, stop_ts, disconnected,
                      send_sem, packet>>

-----------------------------------------------------------------------------
(* rtmp_stream_data: an encoder delivers a packet.                         *)

Data ==
    /\ hooked
    /\ sending
    /\ ~disconnected
    /\ ~packet
    /\ After({"connect"} \X {0, 1})
    /\ packet' = TRUE
    /\ send_sem' = send_sem + 1
    /\ UNCHANGED <<pc, output, connecting, sending, stop_event, stop_ts,
                   disconnected>>

-----------------------------------------------------------------------------
(* send_thread.                                                            *)

\* One round of the loop.  A stop at once leaves it on any wake-up, a stop with
\* a time once a packet is late enough or the shutdown has timed out.
Send(t) ==
    /\ At(t, "send")
    /\ send_sem > 0
    /\ send_sem' = send_sem - 1
    /\ IF stop_event /\ ~stop_ts
       THEN Goto(t, <<"send_exit">>) /\ UNCHANGED <<disconnected, packet>>
       ELSE /\ packet' = FALSE
            /\ \/ Goto(t, <<"send">>) /\ UNCHANGED disconnected
               \/ /\ packet
                  /\ LinkMayDrop
                  /\ Goto(t, <<"send_exit">>)
                  /\ disconnected' = TRUE
    /\ UNCHANGED <<connecting, sending, stop_event, stop_ts>>

\* can_shutdown_stream holds for the packet.
Shutdown(t) ==
    /\ At(t, "send")
    /\ send_sem > 0
    /\ stop_event /\ stop_ts
    /\ packet
    /\ send_sem' = send_sem - 1
    /\ packet' = FALSE
    /\ Goto(t, <<"send_exit">>)
    /\ UNCHANGED <<output, connecting, sending, stop_event, stop_ts, disconnected>>

\* Mutant: a stop that was asked for is not reported.
FarewellSilent == IF stop_event THEN "suspend_capture" ELSE SignalStop["disconnected"]

Farewell == IF stop_event THEN "end_capture" ELSE SignalStop["disconnected"]

\* The end of send_thread: who was not asked to stop has lost the connection.
SendExit(t) ==
    /\ At(t, "send_exit")
    /\ Goto(t, <<Farewell, "reset_stop_event">>)
    /\ detached' = IF stop_event THEN detached
                                 ELSE detached \cup {Current("send")}
    /\ UNCHANGED <<handle, flags, reconnects, events, frontend, history,
                   end_data_capture_thread_active, stream>>

\* free_packets, and the flags for the next start.
SendDone(t) ==
    \/ /\ At(t, "reset_stop_event")
       /\ Goto(t, <<"send_done">>)
       /\ packet' = FALSE
       /\ stop_event' = FALSE
       /\ UNCHANGED <<connecting, sending, stop_ts, disconnected, send_sem>>
    \/ /\ At(t, "send_done")
       /\ Goto(t, <<>>)
       /\ sending' = FALSE
       /\ UNCHANGED <<connecting, stop_event, stop_ts, disconnected, send_sem,
                      packet>>

-----------------------------------------------------------------------------
\* A step of thread t in rtmp-stream.c.
StreamStep(t) ==
    \/ StreamStart(t) \/ TryConnect(t) \/ ConnectEnd(t) \/ SendExit(t)
    \/ Shutdown(t)
    \/ /\ \/ t = ui /\ StreamStop
          \/ InitConnect(t) \/ StreamActive(t) \/ Send(t) \/ SendDone(t)
       /\ UNCHANGED output

Step(t) ==
    \/ OutputStep(t) /\ UNCHANGED stream
    \/ StreamStep(t)

Frontend == (UserStart \/ \E forced \in BOOLEAN : UserStop(forced)) /\ UNCHANGED stream

\* Nobody has to act once no call can be made any more.
Next ==
    \/ Frontend
    \/ Data
    \/ \E t \in Threads \cup {ui} : Step(t)

Spec == Init /\ [][Next]_vars

\* Threads run and the encoders deliver.  Shutdown is strongly fair: from the
\* shutdown timeout on every packet lets the stream stop.
Fairness ==
    /\ \A t \in Threads \cup {ui} : WF_vars(Step(t))
    /\ \A k \in {0, 1} : SF_vars(Shutdown(<<"send", k>>))
    /\ WF_vars(Data)

FairSpec == Spec /\ Fairness

-----------------------------------------------------------------------------
(* Properties.                                                             *)

\* What a thread may have to run.
Labels ==
    {"actual_start", "can_begin", "join_end", "stream_start", "not_started",
     "started", "init_connect", "try_connect", "stream_active",
     "send_meta_data", "begin_data_capture", "activate", "signal_start",
     "connect_end", "connect_done", "send", "send_exit", "reset_stop_event",
     "send_done", "signal_success", "signal_lost", "signal_failed",
     "suspend_capture", "end_capture", "end_thread", "signal_stop",
     "stop_encoders", "deactivate", "stopped", "end_done", "output_reconnect",
     "reset_stop", "retry", "reconnect", "timed_wait", "reconnect_end",
     "reconnect_done", "actual_stop", "cancel_reconnect", "join_reconnect",
     "stream_stop", "join_connect", "stop_sending", "raise_stop", "post_stop"}

\* The variables have their types.
TypeOK ==
    /\ pc \in [Threads \cup {ui} -> Seq(Labels)]
    /\ OutputTypeOK
    /\ {connecting, sending, stop_event, stop_ts, disconnected, packet} \subseteq BOOLEAN
    /\ send_sem \in Nat

\* A lost stream is connected at most RetryMax times more before the output
\* gives up, whatever failures come in between, and the retry counter never
\* passes the limit, though one step tests it and another increases it.
RetriesBounded == attempts <= RetryMax + 1 /\ reconnect_retries <= RetryMax

\* An output is not told to have stopped more often than it was started
\* (StreamingStop undoes the frontend's state of one start).
AnsweredOnce == answers <= starts

\* A stop that was asked for is answered by the "stop" signal.
StopAnswered == told ~> ~told

\* A start comes to its outcome: the "start" or the "stop" signal, or a
\* failure of the call.
StartAnswered == streamingStarting ~> ~streamingStarting

\* The encoders are connected to an output at most once.
HookedOnce ==
    \A t \in Threads : At(t, "begin_data_capture") /\ ~active => ~hooked

\* When no thread is busy the encoders are connected to active outputs only.
HookedWhileActive ==
    (\A t \in DOMAIN pc : ~Busy(t)) => (hooked => active)

\* A reconnecting output comes back or gives up.
ReconnectEnds == reconnecting ~> ~reconnecting

\* A call of the UI thread returns.
UIReturns == []<>(pc[ui] = <<>>)
=============================================================================
