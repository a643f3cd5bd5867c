-------------------------- MODULE RtmpStream_proofs --------------------------
(* That the encoders' packets reach an active output only, and once each; that *)
(* the retries are bounded and each start is answered at most once while       *)
(* nobody stops the stream: for any number of retries, starts and losses; and  *)
(* the latter for a stream that is stopped once and whose link holds.          *)
(*                                                                             *)
(* The program counter of a thread is a stack of labels.  It is seen here as   *)
(* three functions, top, mid and low, since no stack is higher (StacksOK); an  *)
(* action has one lemma, its ..Moves, on where it finds its thread and where   *)
(* it takes it, and one, its ..Does, on the flags it changes at each label.    *)
(* The invariants speak of top and of the flags, and each has one lemma, its   *)
(* ..Kept, with a step for every action.                                       *)
EXTENDS RtmpStream, TLAPS

Everyone == Threads \cup {ui}

\* The label at depth i of a stack, and "idle" below its end.
Label(s, i) == IF i \in 1..Len(s) THEN s[i] ELSE "idle"

\* What a thread runs next, after that, and last.
top == [t \in Everyone |-> Label(pc[t], 1)]
mid == [t \in Everyone |-> Label(pc[t], 2)]
low == [t \in Everyone |-> Label(pc[t], 3)]

Stacks == {s \in Seq(Labels) : Len(s) <= 3}
StacksOK == pc \in [Everyone -> Stacks]

\* How a step moves t: it leaves its label, goes on with a, or with a and then b.
Leaves(t) ==
    /\ top' = [top EXCEPT ![t] = mid[t]]
    /\ mid' = [mid EXCEPT ![t] = low[t]]
    /\ low' = [low EXCEPT ![t] = "idle"]
Turns(t, a) ==
    /\ top' = [top EXCEPT ![t] = a]
    /\ mid' = mid
    /\ low' = low
Calls(t, a, b) ==
    /\ top' = [top EXCEPT ![t] = a]
    /\ mid' = [mid EXCEPT ![t] = b]
    /\ low' = [low EXCEPT ![t] = mid[t]]

\* A stack without its first label.
LEMMA PopLabel ==
  ASSUME NEW s \in Stacks, s # <<>>
  PROVE  LET r == <<>> \o Tail(s) IN
         /\ r \in Stacks
         /\ Label(r, 1) = Label(s, 2)
         /\ Label(r, 2) = Label(s, 3)
         /\ Label(r, 3) = "idle"
  BY DEF Label, Stacks, Labels

\* A stack whose first label is replaced by another,
LEMMA PutLabel ==
  ASSUME NEW s \in Stacks, s # <<>>, NEW a \in Labels
  PROVE  LET r == <<a>> \o Tail(s) IN
         /\ r \in Stacks
         /\ Label(r, 1) = a
         /\ Label(r, 2) = Label(s, 2)
         /\ Label(r, 3) = Label(s, 3)
  BY DEF Label, Stacks, Labels

\* by two others.
LEMMA PutTwoLabels ==
  ASSUME NEW s \in Stacks, s # <<>>, Label(s, 3) = "idle",
         NEW a \in Labels, NEW b \in Labels
  PROVE  LET r == <<a, b>> \o Tail(s) IN
         /\ r \in Stacks
         /\ Label(r, 1) = a
         /\ Label(r, 2) = b
         /\ Label(r, 3) = Label(s, 2)
  BY DEF Label, Stacks, Labels

\* The stack of a thread that starts.
LEMMA OneLabel ==
  ASSUME NEW a \in Labels
  PROVE  /\ <<a>> \in Stacks
         /\ Label(<<a>>, 1) = a
         /\ Label(<<a>>, 2) = "idle"
         /\ Label(<<a>>, 3) = "idle"
  BY DEF Label, Stacks, Labels

\* A stack is empty if it has no first label.
LEMMA TopLabel ==
  ASSUME NEW s \in Stacks
  PROVE  /\ s = <<>> <=> Label(s, 1) = "idle"
         /\ s # <<>> => Head(s) = Label(s, 1) /\ Head(s) \in Labels
         /\ Label(<<>>, 1) = "idle" /\ Label(<<>>, 2) = "idle" /\ Label(<<>>, 3) = "idle"
         /\ <<>> \in Stacks
         /\ Label(s, 1) = "idle" => Label(s, 2) = "idle" /\ Label(s, 3) = "idle"
  BY DEF Label, Stacks, Labels

\* What the guards of the actions say of a thread's first label.
LEMMA AtTop ==
  ASSUME StacksOK, NEW t \in Everyone
  PROVE  /\ Finished(t) <=> top[t] = "idle"
         /\ \A label \in Labels : At(t, label) <=> top[t] = label
         /\ Busy(t) <=> top[t] \notin Waits \cup {"idle"}
         /\ top[t] = "idle" => mid[t] = "idle" /\ low[t] = "idle"
<1>1. pc[t] \in Stacks /\ top[t] = Label(pc[t], 1) /\ mid[t] = Label(pc[t], 2)
        /\ low[t] = Label(pc[t], 3)
  BY DEF StacksOK, top, mid, low
<1> QED
  BY <1>1, TopLabel DEF Finished, At, Busy, Labels

\* When one thread gets another stack, its labels change, no other thread's.
LEMMA Restacked ==
  ASSUME StacksOK, NEW t \in Everyone, NEW r \in Stacks, pc' = [pc EXCEPT ![t] = r]
  PROVE  /\ StacksOK'
         /\ top' = [top EXCEPT ![t] = Label(r, 1)]
         /\ mid' = [mid EXCEPT ![t] = Label(r, 2)]
         /\ low' = [low EXCEPT ![t] = Label(r, 3)]
<1>1. StacksOK'
  BY DEF StacksOK
<1>2. /\ top' = [top EXCEPT ![t] = Label(r, 1)]
      /\ mid' = [mid EXCEPT ![t] = Label(r, 2)]
      /\ low' = [low EXCEPT ![t] = Label(r, 3)]
  BY DEF StacksOK, top, mid, low
<1> QED
  BY <1>1, <1>2

\* Goto takes a thread on to the rest of its stack,
LEMMA LeaveMove ==
  ASSUME StacksOK, NEW t \in Everyone, top[t] # "idle", Goto(t, <<>>)
  PROVE  Leaves(t) /\ StacksOK'
<1> DEFINE r == <<>> \o Tail(pc[t])
<1>1. pc[t] \in Stacks /\ pc[t] # <<>> /\ top[t] = Label(pc[t], 1)
        /\ mid[t] = Label(pc[t], 2) /\ low[t] = Label(pc[t], 3)
  BY TopLabel DEF StacksOK, top, mid, low
<1>2. pc' = [pc EXCEPT ![t] = r]
  BY DEF Goto, Then
<1>3. r \in Stacks /\ Label(r, 1) = mid[t] /\ Label(r, 2) = low[t] /\ Label(r, 3) = "idle"
  BY <1>1, PopLabel
<1> HIDE DEF r
<1>4. /\ StacksOK' /\ top' = [top EXCEPT ![t] = Label(r, 1)]
      /\ mid' = [mid EXCEPT ![t] = Label(r, 2)] /\ low' = [low EXCEPT ![t] = Label(r, 3)]
  BY <1>2, <1>3, Restacked
<1> QED
  BY <1>3, <1>4 DEF Leaves

\* to one label before the rest,
LEMMA TurnMove ==
  ASSUME StacksOK, NEW t \in Everyone, top[t] # "idle", NEW a \in Labels,
         Goto(t, <<a>>)
  PROVE  Turns(t, a) /\ StacksOK'
<1> DEFINE r == <<a>> \o Tail(pc[t])
<1>1. pc[t] \in Stacks /\ pc[t] # <<>> /\ top[t] = Label(pc[t], 1)
        /\ mid[t] = Label(pc[t], 2) /\ low[t] = Label(pc[t], 3)
  BY TopLabel DEF StacksOK, top, mid, low
<1>2. pc' = [pc EXCEPT ![t] = r]
  BY DEF Goto, Then
<1>3. r \in Stacks /\ Label(r, 1) = a /\ Label(r, 2) = mid[t] /\ Label(r, 3) = low[t]
  BY <1>1, PutLabel
<1> HIDE DEF r
<1>4. /\ StacksOK' /\ top' = [top EXCEPT ![t] = a]
      /\ mid' = [mid EXCEPT ![t] = mid[t]] /\ low' = [low EXCEPT ![t] = low[t]]
  BY <1>2, <1>3, Restacked
<1>5. mid' = mid /\ low' = low
  BY <1>4 DEF mid, low
<1> QED
  BY <1>4, <1>5 DEF Turns

\* or to two.
LEMMA CallMove ==
  ASSUME StacksOK, NEW t \in Everyone, top[t] # "idle", low[t] = "idle",
         NEW a \in Labels, NEW b \in Labels, Goto(t, <<a, b>>)
  PROVE  Calls(t, a, b) /\ StacksOK'
<1> DEFINE r == <<a, b>> \o Tail(pc[t])
<1>1. pc[t] \in Stacks /\ pc[t] # <<>> /\ top[t] = Label(pc[t], 1)
        /\ mid[t] = Label(pc[t], 2) /\ low[t] = Label(pc[t], 3)
  BY TopLabel DEF StacksOK, top, mid, low
<1>2. pc' = [pc EXCEPT ![t] = r]
  BY DEF Goto, Then
<1>3. r \in Stacks /\ Label(r, 1) = a /\ Label(r, 2) = b /\ Label(r, 3) = mid[t]
  BY <1>1, PutTwoLabels
<1> HIDE DEF r
<1>4. /\ StacksOK' /\ top' = [top EXCEPT ![t] = Label(r, 1)]
      /\ mid' = [mid EXCEPT ![t] = Label(r, 2)] /\ low' = [low EXCEPT ![t] = Label(r, 3)]
  BY <1>2, <1>3, Restacked
<1> QED
  BY <1>3, <1>4 DEF Calls

\* How a step that creates thread new at label moves it and t.
LeavesCreating(t, new, label) ==
    /\ top' = [top EXCEPT ![t] = mid[t], ![new] = label]
    /\ mid' = [mid EXCEPT ![t] = low[t]]
    /\ low' = [low EXCEPT ![t] = "idle"]
TurnsCreating(t, a, new, label) ==
    /\ top' = [top EXCEPT ![t] = a, ![new] = label]
    /\ mid' = mid
    /\ low' = low

New(kind) == <<kind, 1 - handle[kind]>>

\* A step that gives t the stack r and starts thread new at label.
Restacks(t, r, new, label) ==
    Finished(new) /\ pc' = [[pc EXCEPT ![t] = r] EXCEPT ![new] = <<label>>]

\* Create gives a thread another stack and starts one that was finished.
LEMMA TwoRestacked ==
  ASSUME StacksOK, NEW t \in Everyone, top[t] # "idle", NEW r \in Stacks,
         NEW kind \in Kinds, NEW label \in Labels, handle \in [Kinds -> {0, 1}],
         Restacks(t, r, New(kind), label)
  PROVE  /\ StacksOK'
         /\ New(kind) \in Threads
         /\ top[New(kind)] = "idle"
         /\ top' = [top EXCEPT ![t] = Label(r, 1), ![New(kind)] = label]
         /\ mid' = [mid EXCEPT ![t] = Label(r, 2)]
         /\ low' = [low EXCEPT ![t] = Label(r, 3)]
<1>1. New(kind) \in Threads /\ New(kind) \in Everyone
  BY DEF New, Threads, Everyone
<1>2. <<label>> \in Stacks /\ Label(<<label>>, 1) = label /\ Label(<<label>>, 2) = "idle"
        /\ Label(<<label>>, 3) = "idle"
  BY OneLabel
<1>3. StacksOK'
  BY <1>1, <1>2 DEF Restacks, StacksOK
<1>4. top[New(kind)] = "idle" /\ mid[New(kind)] = "idle" /\ low[New(kind)] = "idle"
        /\ New(kind) # t
  BY <1>1, AtTop DEF Restacks
<1>5. top' = [top EXCEPT ![t] = Label(r, 1), ![New(kind)] = label]
  BY <1>1, <1>2, <1>4 DEF Restacks, StacksOK, top
<1>6. mid' = [mid EXCEPT ![t] = Label(r, 2)]
  BY <1>1, <1>2, <1>4 DEF Restacks, StacksOK, mid
<1>7. low' = [low EXCEPT ![t] = Label(r, 3)]
  BY <1>1, <1>2, <1>4 DEF Restacks, StacksOK, low
<1> QED
  BY <1>1, <1>3, <1>4, <1>5, <1>6, <1>7

\* The thread that creates goes on with the rest of its stack,
LEMMA LeaveCreateMove ==
  ASSUME StacksOK, NEW t \in Everyone, top[t] # "idle",
         NEW kind \in Kinds, NEW label \in Labels, handle \in [Kinds -> {0, 1}],
         Create(t, <<>>, kind, label)
  PROVE  /\ New(kind) \in Threads
         /\ LeavesCreating(t, New(kind), label)
         /\ StacksOK'
         /\ top[New(kind)] = "idle"
<1> DEFINE r == <<>> \o Tail(pc[t])
<1>1. pc[t] \in Stacks /\ pc[t] # <<>> /\ top[t] = Label(pc[t], 1)
        /\ mid[t] = Label(pc[t], 2) /\ low[t] = Label(pc[t], 3)
  BY TopLabel DEF StacksOK, top, mid, low
<1>2. Restacks(t, r, New(kind), label)
  BY DEF Create, Then, New, Restacks
<1>3. r \in Stacks /\ Label(r, 1) = mid[t] /\ Label(r, 2) = low[t] /\ Label(r, 3) = "idle"
  BY <1>1, PopLabel
<1> HIDE DEF r
<1>4. /\ StacksOK' /\ New(kind) \in Threads /\ top[New(kind)] = "idle"
      /\ top' = [top EXCEPT ![t] = Label(r, 1), ![New(kind)] = label]
      /\ mid' = [mid EXCEPT ![t] = Label(r, 2)]
      /\ low' = [low EXCEPT ![t] = Label(r, 3)]
  BY <1>2, <1>3, TwoRestacked
<1> QED
  BY <1>3, <1>4 DEF LeavesCreating

\* or with one label before it.
LEMMA TurnCreateMove ==
  ASSUME StacksOK, NEW t \in Everyone, top[t] # "idle", NEW a \in Labels,
         NEW kind \in Kinds, NEW label \in Labels, handle \in [Kinds -> {0, 1}],
         Create(t, <<a>>, kind, label)
  PROVE  /\ New(kind) \in Threads
         /\ TurnsCreating(t, a, New(kind), label)
         /\ StacksOK'
         /\ top[New(kind)] = "idle"
<1> DEFINE r == <<a>> \o Tail(pc[t])
<1>1. pc[t] \in Stacks /\ pc[t] # <<>> /\ top[t] = Label(pc[t], 1)
        /\ mid[t] = Label(pc[t], 2) /\ low[t] = Label(pc[t], 3)
  BY TopLabel DEF StacksOK, top, mid, low
<1>2. Restacks(t, r, New(kind), label)
  BY DEF Create, Then, New, Restacks
<1>3. r \in Stacks /\ Label(r, 1) = a /\ Label(r, 2) = mid[t] /\ Label(r, 3) = low[t]
  BY <1>1, PutLabel
<1> HIDE DEF r
<1>4. /\ StacksOK' /\ New(kind) \in Threads /\ top[New(kind)] = "idle"
      /\ top' = [top EXCEPT ![t] = Label(r, 1), ![New(kind)] = label]
      /\ mid' = [mid EXCEPT ![t] = Label(r, 2)]
      /\ low' = [low EXCEPT ![t] = Label(r, 3)]
  BY <1>2, <1>3, TwoRestacked
<1>5. mid' = mid /\ low' = low
  BY <1>3, <1>4 DEF mid, low
<1> QED
  BY <1>3, <1>4, <1>5 DEF TurnsCreating

\* The labels of the actions are labels, and idle is none.
LEMMA LabelsListed ==
  /\ "actual_start" \in Labels /\ "can_begin" \in Labels /\ "join_end" \in Labels
  /\ "stream_start" \in Labels /\ "not_started" \in Labels /\ "started" \in Labels
  /\ "init_connect" \in Labels /\ "try_connect" \in Labels /\ "stream_active" \in Labels
  /\ "send_meta_data" \in Labels /\ "begin_data_capture" \in Labels
  /\ "activate" \in Labels /\ "signal_start" \in Labels /\ "connect_end" \in Labels
  /\ "connect_done" \in Labels /\ "send" \in Labels /\ "send_exit" \in Labels
  /\ "reset_stop_event" \in Labels /\ "send_done" \in Labels
  /\ "signal_success" \in Labels /\ "signal_lost" \in Labels /\ "signal_failed" \in Labels
  /\ "suspend_capture" \in Labels /\ "end_capture" \in Labels /\ "end_thread" \in Labels
  /\ "signal_stop" \in Labels /\ "stop_encoders" \in Labels /\ "deactivate" \in Labels
  /\ "stopped" \in Labels /\ "end_done" \in Labels /\ "output_reconnect" \in Labels
  /\ "reset_stop" \in Labels /\ "retry" \in Labels /\ "reconnect" \in Labels
  /\ "timed_wait" \in Labels /\ "reconnect_end" \in Labels /\ "reconnect_done" \in Labels
  /\ "actual_stop" \in Labels /\ "cancel_reconnect" \in Labels
  /\ "join_reconnect" \in Labels /\ "stream_stop" \in Labels /\ "join_connect" \in Labels
  /\ "stop_sending" \in Labels /\ "raise_stop" \in Labels /\ "post_stop" \in Labels
  /\ "idle" \notin Labels
  BY DEF Labels

\* A thread at a label runs it next.
LEMMA AtLabel ==
  ASSUME StacksOK, NEW t \in Everyone, NEW label \in Labels, At(t, label)
  PROVE  top[t] = label /\ top[t] # "idle"
  BY AtTop, LabelsListed

-----------------------------------------------------------------------------
(* What the stacks look like.                                              *)

Starting == {"actual_start", "can_begin", "join_end", "stream_start", "not_started"}
Capturing == {"begin_data_capture", "activate", "signal_start"}
Failing == {"signal_success", "signal_failed", "signal_lost", "end_capture",
            "output_reconnect", "signal_stop", "retry"}
Ending == {"suspend_capture", "end_thread", "reset_stop"}
Rest == {"connect_end", "reset_stop_event", "idle"}

\* A start goes back to who called it, a stop to the end of the thread that
\* signals it, and the end of a capture to what follows it.
Shape(t) ==
    /\ top[t] \in Starting => mid[t] \in {"started", "reconnect_end"} /\ low[t] = "idle"
    /\ top[t] \in Capturing => mid[t] = "connect_end" /\ low[t] = "idle"
    /\ top[t] \in Failing => mid[t] \in Rest /\ low[t] = "idle"
    /\ top[t] = "suspend_capture" => mid[t] = "output_reconnect" /\ low[t] \in Rest
    /\ top[t] = "end_thread" => mid[t] \in {"output_reconnect", "signal_stop"} /\ low[t] \in Rest
    /\ top[t] = "reset_stop" => mid[t] = "retry" /\ low[t] \in Rest
    /\ top[t] \notin Starting \cup Capturing \cup Failing \cup Ending
         => mid[t] = "idle" /\ low[t] = "idle"
Shapes == \A t \in Everyone : Shape(t)

\* The types of what is not a flag.
NumbersTyped ==
    /\ handle \in [Kinds -> {0, 1}]
    /\ detached \subseteq Threads
    /\ reconnect_retries \in Nat
    /\ starts \in 0..MaxStarts
    /\ stops \in 0..StopsPerStart
    /\ answers \in Nat
    /\ attempts \in Nat
    /\ send_sem \in Nat

Stacked == StacksOK /\ Shapes /\ NumbersTyped

\* Where no program counter changes nothing of the stacks does.
LEMMA Still ==
  ASSUME StacksOK, UNCHANGED pc
  PROVE  StacksOK' /\ UNCHANGED <<top, mid, low>>
  BY DEF StacksOK, top, mid, low

\* Every thread has a stack.
LEMMA Domains ==
  ASSUME NEW t \in Everyone
  PROVE  /\ top = [top EXCEPT ![t] = top[t]]
         /\ DOMAIN top = Everyone /\ DOMAIN mid = Everyone /\ DOMAIN low = Everyone
  BY DEF top, mid, low

\* Two labels put before one of these leave a stack of three.
LEMMA LowIdle ==
  ASSUME Stacked, NEW t \in Everyone,
         top[t] \in {"end_capture", "output_reconnect", "signal_success", "signal_failed",
                    "signal_lost", "timed_wait", "try_connect", "send_meta_data", "send_exit"}
  PROVE  low[t] = "idle"
  BY DEF Stacked, Shapes, Shape, Starting, Capturing, Failing, Ending

-----------------------------------------------------------------------------
(* Where each action finds its thread and where it takes it.               *)

\* The frontend's thread is one of those whose stacks are looked at.
LEMMA UiIsThere == ui \in Everyone
  BY DEF Everyone

USE DEF Stacked, NumbersTyped

\* Where obs_output_actual_start takes its thread.
LEMMA ActualStartMoves ==
  ASSUME Stacked, NEW t \in Everyone, ActualStart(t)
  PROVE  top[t] = "actual_start" /\ Turns(t, "can_begin") /\ StacksOK'
  BY AtLabel, LabelsListed, LowIdle, TurnMove DEF ActualStart

\* Where obs_output_actual_start, up to the output's own start takes its
\* thread.
LEMMA CanBeginMoves ==
  ASSUME Stacked, NEW t \in Everyone, CanBegin(t)
  PROVE  /\ StacksOK'
         /\ \/ top[t] = "can_begin" /\ active /\ Turns(t, "not_started")
            \/ top[t] = "can_begin" /\ ~active /\ Turns(t, "join_end")
            \/ /\ top[t] = "join_end" /\ Turns(t, "stream_start")
               /\ end_data_capture_thread_active => Joined("end")
  BY AtLabel, LabelsListed, LowIdle, TurnMove DEF CanBegin

\* Where a start that fails takes its thread.
LEMMA NotStartedMoves ==
  ASSUME Stacked, NEW t \in Everyone, NotStarted(t)
  PROVE  top[t] = "not_started" /\ Leaves(t) /\ StacksOK'
  BY AtLabel, LabelsListed, LowIdle, LeaveMove DEF NotStarted

\* Where the end of a start on the frontend's thread takes its thread.
LEMMA StartedMoves ==
  ASSUME Stacked, Started
  PROVE  top[ui] = "started" /\ Leaves(ui) /\ StacksOK'
  BY UiIsThere, AtLabel, LabelsListed, LowIdle, LeaveMove DEF Started

\* Where obs_output_actual_stop takes its thread.
LEMMA ActualStopMoves ==
  ASSUME Stacked, ActualStop
  PROVE  /\ StacksOK'
         /\ \/ top[ui] = "actual_stop" /\ (Leaves(ui) \/ Turns(ui, "cancel_reconnect"))
            \/ top[ui] = "cancel_reconnect"
                 /\ (Turns(ui, "join_reconnect") \/ Turns(ui, "stream_stop"))
            \/ top[ui] = "join_reconnect" /\ Turns(ui, "stream_stop")
  BY UiIsThere, AtLabel, LabelsListed, LowIdle, LeaveMove, TurnMove DEF ActualStop

\* Where obs_output_begin_data_capture takes its thread.
LEMMA BeginMoves ==
  ASSUME Stacked, NEW t \in Everyone, BeginDataCapture(t)
  PROVE  /\ StacksOK'
         /\ \/ top[t] = "begin_data_capture" /\ active /\ Leaves(t)
            \/ top[t] = "begin_data_capture" /\ ~active /\ Turns(t, "activate")
            \/ top[t] = "activate" /\ Turns(t, "signal_start")
            \/ top[t] = "signal_start" /\ Leaves(t)
  BY AtLabel, LabelsListed, LowIdle, LeaveMove, TurnMove DEF BeginDataCapture, SignalStart

\* Where obs_output_end_data_capture_internal takes its thread.
LEMMA EndCaptureMoves ==
  ASSUME Stacked, NEW t \in Everyone, EndDataCapture(t)
  PROVE  /\ StacksOK'
         /\ \/ /\ top[t] = "end_capture" /\ active /\ data_active
               /\ Calls(t, "end_thread", "signal_stop")
            \/ /\ top[t] = "suspend_capture" /\ active /\ data_active
               /\ Turns(t, "end_thread")
            \/ /\ top[t] \in {"end_capture", "suspend_capture"}
               /\ ~(active /\ data_active)
               /\ Leaves(t)
            \/ /\ top[t] = "end_thread"
               /\ end_data_capture_thread_active => Joined("end")
               /\ LeavesCreating(t, New("end"), "stop_encoders")
               /\ New("end") \in Threads /\ top[New("end")] = "idle"
            \/ top[t] = "signal_stop" /\ Leaves(t)
  BY AtLabel, LabelsListed, LowIdle, LeaveMove, TurnMove, CallMove,
     LeaveCreateMove DEF EndDataCapture, Kinds

\* Where end_data_capture_thread takes its thread.
LEMMA EndThreadMoves ==
  ASSUME Stacked, NEW t \in Everyone, EndThread(t)
  PROVE  /\ StacksOK'
         /\ \/ top[t] = "stop_encoders" /\ Turns(t, "deactivate")
            \/ top[t] = "deactivate" /\ Turns(t, "stopped")
            \/ top[t] = "stopped" /\ Turns(t, "end_done")
            \/ top[t] = "end_done" /\ Leaves(t)
  BY AtLabel, LabelsListed, LowIdle, LeaveMove, TurnMove DEF EndThread, StopEncoders, Stopped

\* Where obs_output_signal_stop takes its thread.
LEMMA SignalStopMoves ==
  ASSUME Stacked, NEW t \in Everyone, NEW code \in Codes, SignalStopCode(t, code)
  PROVE  /\ StacksOK'
         /\ \/ top[t] = "signal_success" /\ code = "success"
            \/ top[t] = "signal_lost" /\ code = "disconnected"
            \/ top[t] = "signal_failed" /\ code = "failed"
         /\ \/ CanReconnect(code) /\ Calls(t, "suspend_capture", "output_reconnect")
            \/ ~CanReconnect(code) /\ Turns(t, "end_capture")
  BY AtLabel, LabelsListed, LowIdle, TurnMove, CallMove DEF SignalStopCode, SignalStop, Codes

\* Where output_reconnect takes its thread.
LEMMA ReconnectMoves ==
  ASSUME Stacked, NEW t \in Everyone, OutputReconnect(t)
  PROVE  /\ StacksOK'
         /\ \/ top[t] = "output_reconnect" /\ reconnecting /\ reconnect_stop_event
                 /\ Leaves(t)
            \/ /\ top[t] = "output_reconnect" /\ ~(reconnecting /\ reconnect_stop_event)
               /\ GiveUp /\ Turns(t, "end_capture")
            \/ /\ top[t] = "output_reconnect" /\ reconnecting /\ ~reconnect_stop_event
               /\ ~GiveUp /\ Turns(t, "retry")
            \/ top[t] = "output_reconnect" /\ ~GiveUp /\ ~reconnecting
                 /\ Calls(t, "reset_stop", "retry")
            \/ top[t] = "reset_stop" /\ Leaves(t)
            \/ /\ top[t] = "retry"
               /\ LeavesCreating(t, New("reconnect"), "reconnect")
               /\ New("reconnect") \in Threads /\ top[New("reconnect")] = "idle"
  BY AtLabel, LabelsListed, LowIdle, LeaveMove, TurnMove, CallMove,
     LeaveCreateMove DEF OutputReconnect, Kinds

\* Where reconnect_thread takes its thread.
LEMMA ReconnectThreadMoves ==
  ASSUME Stacked, NEW t \in Everyone, ReconnectThread(t)
  PROVE  /\ StacksOK'
         /\ \/ top[t] = "reconnect" /\ Turns(t, "timed_wait")
            \/ /\ top[t] = "timed_wait" /\ ~reconnect_stop_event
               /\ Calls(t, "actual_start", "reconnect_end")
            \/ top[t] = "timed_wait" /\ reconnect_stop_event /\ Turns(t, "reconnect_end")
            \/ top[t] = "reconnect_end" /\ Turns(t, "reconnect_done")
            \/ top[t] = "reconnect_done" /\ Leaves(t)
  BY AtLabel, LabelsListed, LowIdle, LeaveMove, TurnMove, CallMove DEF ReconnectThread

\* Where rtmp_stream_start takes its thread.
LEMMA StreamStartMoves ==
  ASSUME Stacked, NEW t \in Everyone, StreamStart(t)
  PROVE  /\ StacksOK'
         /\ top[t] = "stream_start"
         /\ \/ active /\ Turns(t, "not_started")
            \/ /\ ~active
               /\ LeavesCreating(t, New("connect"), "init_connect")
               /\ New("connect") \in Threads /\ top[New("connect")] = "idle"
  BY AtLabel, LabelsListed, LowIdle, TurnMove, LeaveCreateMove DEF StreamStart, Kinds

\* Where rtmp_stream_stop takes its thread.
LEMMA StreamStopMoves ==
  ASSUME Stacked, StreamStop
  PROVE  /\ StacksOK'
         /\ \/ /\ top[ui] = "stream_stop"
               /\ Leaves(ui) \/ Turns(ui, "join_connect") \/ Turns(ui, "stop_sending")
            \/ top[ui] = "join_connect" /\ Joined("connect") /\ Turns(ui, "stop_sending")
            \/ top[ui] = "stop_sending" /\ sending /\ Turns(ui, "raise_stop")
            \/ top[ui] = "stop_sending" /\ ~sending /\ Turns(ui, "signal_success")
            \/ top[ui] = "raise_stop" /\ (Leaves(ui) \/ Turns(ui, "post_stop"))
            \/ top[ui] = "post_stop" /\ Leaves(ui)
  BY UiIsThere, AtLabel, LabelsListed, LowIdle, LeaveMove, TurnMove DEF StreamStop,
     StopSending, SignalStop

\* Where init_connect takes its thread.
LEMMA InitConnectMoves ==
  ASSUME Stacked, NEW t \in Everyone, InitConnect(t)
  PROVE  top[t] = "init_connect" /\ Turns(t, "try_connect") /\ StacksOK'
  BY AtLabel, LabelsListed, LowIdle, TurnMove DEF InitConnect

\* Where try_connect takes its thread.
LEMMA TryConnectMoves ==
  ASSUME Stacked, NEW t \in Everyone, TryConnect(t)
  PROVE  /\ StacksOK'
         /\ top[t] = "try_connect"
         /\ \/ Calls(t, "signal_failed", "connect_end") /\ UNCHANGED send_sem
            \/ /\ send_sem' = 0
               /\ TurnsCreating(t, "stream_active", New("send"), "send")
               /\ New("send") \in Threads /\ top[New("send")] = "idle"
  BY AtLabel, LabelsListed, LowIdle, CallMove, TurnCreateMove DEF TryConnect, SignalStop,
     Kinds

\* Where init_send takes its thread.
LEMMA StreamActiveMoves ==
  ASSUME Stacked, NEW t \in Everyone, StreamActive(t)
  PROVE  /\ StacksOK'
         /\ \/ top[t] = "stream_active" /\ Turns(t, "send_meta_data")
            \/ /\ top[t] = "send_meta_data"
               /\ \/ Calls(t, "begin_data_capture", "connect_end")
                  \/ MetaMayFail /\ Calls(t, "signal_lost", "connect_end")
  BY AtLabel, LabelsListed, LowIdle, TurnMove, CallMove DEF StreamActive, SignalStop

\* Where the end of connect_thread takes its thread.
LEMMA ConnectEndMoves ==
  ASSUME Stacked, NEW t \in Everyone, ConnectEnd(t)
  PROVE  /\ StacksOK'
         /\ \/ top[t] = "connect_end" /\ Turns(t, "connect_done")
            \/ top[t] = "connect_done" /\ Leaves(t)
  BY AtLabel, LabelsListed, LowIdle, LeaveMove, TurnMove DEF ConnectEnd

\* Where a turn of send_thread takes its thread.
LEMMA SendMoves ==
  ASSUME Stacked, NEW t \in Everyone, Send(t)
  PROVE  /\ StacksOK'
         /\ top[t] = "send"
         /\ \/ Turns(t, "send") /\ UNCHANGED disconnected
            \/ Turns(t, "send_exit") /\ UNCHANGED disconnected /\ stop_event
            \/ Turns(t, "send_exit") /\ disconnected' /\ LinkMayDrop
<1>1. top[t] = "send" /\ top[t] # "idle" /\ "send" \in Labels /\ "send_exit" \in Labels
  BY AtLabel, LabelsListed DEF Send
<1>2. CASE Goto(t, <<"send">>) /\ UNCHANGED disconnected
  <2>1. Turns(t, "send") /\ StacksOK'
    BY <1>1, <1>2, TurnMove
  <2> QED
    BY <1>1, <1>2, <2>1
<1>3. ASSUME Goto(t, <<"send_exit">>)
      PROVE  Turns(t, "send_exit") /\ StacksOK'
  BY <1>1, <1>3, TurnMove
<1>4. CASE stop_event /\ ~stop_ts
  <2>1. Goto(t, <<"send_exit">>) /\ UNCHANGED disconnected
    BY <1>4 DEF Send
  <2> QED
    BY <1>1, <1>3, <1>4, <2>1
<1>5. CASE ~(stop_event /\ ~stop_ts)
  <2>1. \/ Goto(t, <<"send">>) /\ UNCHANGED disconnected
        \/ Goto(t, <<"send_exit">>) /\ disconnected' /\ LinkMayDrop
    BY <1>5 DEF Send
  <2> QED
    BY <1>1, <1>2, <1>3, <2>1
<1> QED
  BY <1>4, <1>5

\* Where a packet that cannot be sent takes its thread.
LEMMA ShutdownMoves ==
  ASSUME Stacked, NEW t \in Everyone, Shutdown(t)
  PROVE  top[t] = "send" /\ Turns(t, "send_exit") /\ StacksOK'
  BY AtLabel, LabelsListed, LowIdle, TurnMove DEF Shutdown

\* Where the end of the send loop takes its thread.
LEMMA SendExitMoves ==
  ASSUME Stacked, NEW t \in Everyone, SendExit(t)
  PROVE  /\ StacksOK'
         /\ top[t] = "send_exit"
         /\ \/ stop_event /\ Calls(t, "end_capture", "reset_stop_event")
            \/ ~stop_event /\ Calls(t, "signal_lost", "reset_stop_event")
  BY AtLabel, LabelsListed, LowIdle, CallMove DEF SendExit, Farewell, SignalStop

\* Where the end of send_thread takes its thread.
LEMMA SendDoneMoves ==
  ASSUME Stacked, NEW t \in Everyone, SendDone(t)
  PROVE  /\ StacksOK'
         /\ \/ top[t] = "reset_stop_event" /\ Turns(t, "send_done")
            \/ top[t] = "send_done" /\ Leaves(t)
  BY AtLabel, LabelsListed, LowIdle, LeaveMove, TurnMove DEF SendDone

HIDE DEF Stacked, NumbersTyped

\* The frontend starts and stops the output from its idle thread.
LEMMA UserMoves ==
  ASSUME Stacked
  PROVE  /\ UserStart => /\ top[ui] = "idle"
                         /\ StacksOK'
                         /\ top' = [top EXCEPT ![ui] = "actual_start"]
                         /\ mid' = [mid EXCEPT ![ui] = "started"]
                         /\ low' = low
         /\ \A forced \in BOOLEAN : UserStop(forced) =>
              /\ top[ui] = "idle"
              /\ StacksOK'
              /\ \/ Turns(ui, "actual_stop")
                 \/ UNCHANGED <<top, mid, low>>
<1> USE DEF Stacked
<1>1. ui \in Everyone
  BY DEF Everyone, ui
<1>2. /\ \A a \in Labels : <<a>> \in Stacks /\ Label(<<a>>, 1) = a
                            /\ Label(<<a>>, 2) = "idle" /\ Label(<<a>>, 3) = "idle"
      /\ \A a, b \in Labels : <<a, b>> \in Stacks /\ Label(<<a, b>>, 1) = a
                            /\ Label(<<a, b>>, 2) = b /\ Label(<<a, b>>, 3) = "idle"
  BY DEF Label, Labels, Stacks
<1>3. UserStart => top[ui] = "idle" /\ mid[ui] = "idle" /\ low[ui] = "idle"
  BY <1>1, AtTop DEF UserStart
<1>4. \A forced \in BOOLEAN : UserStop(forced) =>
         top[ui] = "idle" /\ mid[ui] = "idle" /\ low[ui] = "idle"
  BY <1>1, AtTop DEF UserStop
<1>6. mid = [mid EXCEPT ![ui] = mid[ui]] /\ low = [low EXCEPT ![ui] = low[ui]]
  BY DEF mid, low
<1>7. ASSUME UserStart
      PROVE  /\ StacksOK'
             /\ top' = [top EXCEPT ![ui] = "actual_start"]
             /\ mid' = [mid EXCEPT ![ui] = "started"]
             /\ low' = low
  <2> DEFINE r == <<"actual_start", "started">>
  <2>1. pc' = [pc EXCEPT ![ui] = r]
    BY <1>7 DEF UserStart
  <2>2. r \in Stacks /\ Label(r, 1) = "actual_start" /\ Label(r, 2) = "started"
          /\ Label(r, 3) = "idle"
    BY <1>2, LabelsListed
  <2> HIDE DEF r
  <2>3. StacksOK' /\ top' = [top EXCEPT ![ui] = Label(r, 1)]
          /\ mid' = [mid EXCEPT ![ui] = Label(r, 2)]
          /\ low' = [low EXCEPT ![ui] = Label(r, 3)]
    BY <1>1, <2>1, <2>2, Restacked
  <2> QED
    BY <1>3, <1>6, <1>7, <2>2, <2>3
<1>8. ASSUME NEW forced \in BOOLEAN, UserStop(forced)
      PROVE  StacksOK' /\ (Turns(ui, "actual_stop") \/ UNCHANGED <<top, mid, low>>)
  <2>1. CASE pc' = [pc EXCEPT ![ui] = <<"actual_stop">>]
    <3> DEFINE r == <<"actual_stop">>
    <3>1. r \in Stacks /\ Label(r, 1) = "actual_stop" /\ Label(r, 2) = "idle"
            /\ Label(r, 3) = "idle"
      BY <1>2, LabelsListed
    <3>2. pc' = [pc EXCEPT ![ui] = r]
      BY <2>1
    <3> HIDE DEF r
    <3>3. StacksOK' /\ top' = [top EXCEPT ![ui] = Label(r, 1)]
            /\ mid' = [mid EXCEPT ![ui] = Label(r, 2)]
            /\ low' = [low EXCEPT ![ui] = Label(r, 3)]
      BY <1>1, <3>1, <3>2, Restacked
    <3> QED
      BY <1>4, <1>6, <1>8, <3>1, <3>3 DEF Turns
  <2>2. CASE UNCHANGED pc
    BY <2>2 DEF StacksOK, top, mid, low
  <2> QED
    BY <1>8, <2>1, <2>2 DEF UserStop
<1> QED
  BY <1>3, <1>4, <1>7, <1>8

-----------------------------------------------------------------------------
(* The same in terms of the labels alone, with all else that a step changes: *)
(* thread t is at a and goes on at b, maybe after it created thread new at   *)
(* label.                                                                    *)

Goes(t, a, b) ==
    /\ top[t] = a
    /\ top'[t] = b
    /\ \A u \in Everyone \ {t} : top'[u] = top[u] /\ mid'[u] = mid[u]

Creates(t, a, b, new, label) ==
    /\ top[t] = a
    /\ top[new] = "idle"
    /\ new \in Everyone
    /\ top'[t] = b
    /\ top'[new] = label
    /\ \A u \in Everyone \ {t, new} : top'[u] = top[u] /\ mid'[u] = mid[u]

\* The definitions that the next lemmas are about.
USE DEF Leaves, Turns, Calls, LeavesCreating, TurnsCreating, Goes, Creates, Rest, Everyone,
        output, stream, flags, reconnects, events, frontend, history

\* What obs_output_actual_start changes, at which label.
LEMMA ActualStartDoes ==
  ASSUME Stacked, NEW t \in Everyone, ActualStart(t)
  PROVE  /\ Goes(t, "actual_start", "can_begin")
         /\ stopping_event
         /\ UNCHANGED output
<1>1. Goes(t, "actual_start", "can_begin")
  BY ActualStartMoves, Domains DEF Stacked, Shapes, Shape, Starting, Capturing, Failing,
     Ending
<1> QED
  BY <1>1 DEF ActualStart

\* What obs_output_actual_start, up to the output's own start changes, at which
\* label.
LEMMA CanBeginDoes ==
  ASSUME Stacked, NEW t \in Everyone, CanBegin(t)
  PROVE  /\ UNCHANGED output
         /\ \/ \/ active /\ Goes(t, "can_begin", "not_started")
               \/ ~active /\ Goes(t, "can_begin", "join_end")
            \/ /\ Goes(t, "join_end", "stream_start")
               /\ end_data_capture_thread_active => Joined("end")
<1>1. \/ active /\ Goes(t, "can_begin", "not_started")
      \/ ~active /\ Goes(t, "can_begin", "join_end")
      \/ Goes(t, "join_end", "stream_start")
  BY CanBeginMoves, Domains DEF Stacked, Shapes, Shape, Starting, Capturing, Failing, Ending
<1>2. CASE top[t] = "can_begin"
  <2>1. ~At(t, "join_end")
    BY <1>2, AtLabel, LabelsListed, UiIsThere DEF Stacked
  <2> QED
    BY <1>1, <1>2, <2>1 DEF CanBegin
<1>3. CASE top[t] = "join_end"
  <2>1. ~At(t, "can_begin")
    BY <1>3, AtLabel, LabelsListed, UiIsThere DEF Stacked
  <2> QED
    BY <1>1, <1>3, <2>1 DEF CanBegin
<1> QED
  BY <1>1, <1>2, <1>3

\* What a start that fails changes, at which label.
LEMMA NotStartedDoes ==
  ASSUME Stacked, NEW t \in Everyone, NotStarted(t)
  PROVE  /\ (\E b \in {"started", "reconnect_end"} : Goes(t, "not_started", b))
         /\ streamingStarting' = (streamingStarting /\ t # ui)
         /\ UNCHANGED <<handle, detached, end_data_capture_thread_active, flags,
                        reconnects, events, force, starts, stops, told, history>>
<1>1. (\E b \in {"started", "reconnect_end"} : Goes(t, "not_started", b))
  BY NotStartedMoves, Domains DEF Stacked, Shapes, Shape, Starting, Capturing, Failing, Ending
<1> QED
  BY <1>1 DEF NotStarted

\* What the end of a start on the frontend's thread changes, at which label.
LEMMA StartedDoes ==
  ASSUME Stacked, Started
  PROVE  /\ Goes(ui, "started", "idle")
         /\ UNCHANGED output
<1>1. Goes(ui, "started", "idle")
  BY StartedMoves, Domains DEF Stacked, Shapes, Shape, Starting, Capturing, Failing, Ending
<1> QED
  BY <1>1 DEF Started

\* What obs_output_actual_stop changes, at which label.
LEMMA ActualStopDoes ==
  ASSUME Stacked, ActualStop
  PROVE  \/ /\ (\E b \in {"idle", "cancel_reconnect"} : Goes(ui, "actual_stop", b))
            /\ UNCHANGED <<handle, detached, end_data_capture_thread_active, flags,
                           reconnects, reconnect_stop_event, frontend, history>>
         \/ /\ (\E b \in {"join_reconnect", "stream_stop"} : Goes(ui, "cancel_reconnect", b))
            /\ ~reconnecting => UNCHANGED reconnect_stop_event
            /\ UNCHANGED <<handle, detached, end_data_capture_thread_active, flags,
                           reconnects, stopping_event, frontend, history>>
         \/ /\ Goes(ui, "join_reconnect", "stream_stop")
            /\ UNCHANGED output
<1>1. \/ (\E b \in {"idle", "cancel_reconnect"} : Goes(ui, "actual_stop", b))
      \/ (\E b \in {"join_reconnect", "stream_stop"} : Goes(ui, "cancel_reconnect", b))
      \/ Goes(ui, "join_reconnect", "stream_stop")
  BY ActualStopMoves, Domains DEF Stacked, Shapes, Shape, Starting, Capturing, Failing, Ending
<1>2. CASE top[ui] = "actual_stop"
  <2>1. ~At(ui, "cancel_reconnect") /\ ~At(ui, "join_reconnect")
    BY <1>2, AtLabel, LabelsListed, UiIsThere DEF Stacked
  <2> QED
    BY <1>1, <1>2, <2>1 DEF ActualStop
<1>3. CASE top[ui] = "cancel_reconnect"
  <2>1. ~At(ui, "actual_stop") /\ ~At(ui, "join_reconnect")
    BY <1>3, AtLabel, LabelsListed, UiIsThere DEF Stacked
  <2> QED
    BY <1>1, <1>3, <2>1 DEF ActualStop
<1>4. CASE top[ui] = "join_reconnect"
  <2>1. ~At(ui, "actual_stop") /\ ~At(ui, "cancel_reconnect")
    BY <1>4, AtLabel, LabelsListed, UiIsThere DEF Stacked
  <2> QED
    BY <1>1, <1>4, <2>1 DEF ActualStop
<1> QED
  BY <1>1, <1>2, <1>3, <1>4

\* What obs_output_begin_data_capture changes, at which label.
LEMMA BeginDoes ==
  ASSUME Stacked, NEW t \in Everyone, BeginDataCapture(t)
  PROVE  \/ /\ active /\ Goes(t, "begin_data_capture", "connect_end")
            /\ UNCHANGED <<data_active, hooked>>
            /\ UNCHANGED <<handle, detached, end_data_capture_thread_active, active,
                           reconnecting, reconnects, events, frontend, history>>
         \/ /\ ~active /\ Goes(t, "begin_data_capture", "activate")
            /\ data_active' /\ hooked'
            /\ UNCHANGED <<handle, detached, end_data_capture_thread_active, active,
                           reconnecting, reconnects, events, frontend, history>>
         \/ /\ Goes(t, "activate", "signal_start")
            /\ active'
            /\ UNCHANGED <<handle, detached, end_data_capture_thread_active, data_active,
                           reconnecting, hooked, reconnects, events, frontend, history>>
         \/ /\ Goes(t, "signal_start", "connect_end")
            /\ ~reconnecting' /\ streamingStarting' = (streamingStarting /\ reconnecting)
            /\ attempts' = 0
            /\ UNCHANGED <<handle, detached, end_data_capture_thread_active, active,
                           data_active, hooked, reconnects, events, force, starts, stops,
                           told, answers>>
<1>1. \/ active /\ Goes(t, "begin_data_capture", "connect_end")
      \/ ~active /\ Goes(t, "begin_data_capture", "activate")
      \/ Goes(t, "activate", "signal_start")
      \/ Goes(t, "signal_start", "connect_end")
  BY BeginMoves, Domains DEF Stacked, Shapes, Shape, Starting, Capturing, Failing, Ending
<1>2. CASE top[t] = "begin_data_capture"
  <2>1. ~At(t, "activate") /\ ~At(t, "signal_start")
    BY <1>2, AtLabel, LabelsListed, UiIsThere DEF Stacked
  <2> QED
    BY <1>1, <1>2, <2>1 DEF BeginDataCapture, SignalStart
<1>3. CASE top[t] = "activate"
  <2>1. ~At(t, "begin_data_capture") /\ ~At(t, "signal_start")
    BY <1>3, AtLabel, LabelsListed, UiIsThere DEF Stacked
  <2> QED
    BY <1>1, <1>3, <2>1 DEF BeginDataCapture, SignalStart
<1>4. CASE top[t] = "signal_start"
  <2>1. ~At(t, "begin_data_capture") /\ ~At(t, "activate")
    BY <1>4, AtLabel, LabelsListed, UiIsThere DEF Stacked
  <2> QED
    BY <1>1, <1>4, <2>1 DEF BeginDataCapture, SignalStart
<1> QED
  BY <1>1, <1>2, <1>3, <1>4

\* What obs_output_end_data_capture_internal changes, at which label.
LEMMA EndCaptureDoes ==
  ASSUME Stacked, NEW t \in Everyone, EndDataCapture(t)
  PROVE  \/ /\ active /\ data_active /\ mid'[t] = "signal_stop"
            /\ Goes(t, "end_capture", "end_thread")
            /\ ~data_active'
            /\ UNCHANGED <<handle, detached, end_data_capture_thread_active, active,
                           reconnecting, hooked, reconnects, events, frontend, history>>
         \/ /\ ~(active /\ data_active) /\ (\E b \in Rest : Goes(t, "end_capture", b))
            /\ SignalsStop /\ stopping_event'
            /\ UNCHANGED <<handle, detached, end_data_capture_thread_active, flags,
                           reconnects, reconnect_stop_event, force, starts, stops, attempts>>
         \/ /\ active /\ data_active /\ mid'[t] = "output_reconnect"
            /\ Goes(t, "suspend_capture", "end_thread")
            /\ ~data_active'
            /\ UNCHANGED <<handle, detached, end_data_capture_thread_active, active,
                           reconnecting, hooked, reconnects, events, frontend, history>>
         \/ /\ ~(active /\ data_active) /\ Goes(t, "suspend_capture", "output_reconnect")
            /\ UNCHANGED output
         \/ /\ mid[t] \in {"output_reconnect", "signal_stop"}
            /\ Creates(t, "end_thread", mid[t], New("end"), "stop_encoders")
            /\ end_data_capture_thread_active'
            /\ UNCHANGED <<flags, reconnects, events, frontend, history>>
         \/ /\ (\E b \in Rest : Goes(t, "signal_stop", b))
            /\ SignalsStop
            /\ UNCHANGED <<handle, detached, end_data_capture_thread_active, flags,
                           reconnects, events, force, starts, stops, attempts>>
<1>1. \/ active /\ data_active /\ mid'[t] = "signal_stop"
           /\ Goes(t, "end_capture", "end_thread")
      \/ active /\ data_active /\ mid'[t] = "output_reconnect"
           /\ Goes(t, "suspend_capture", "end_thread")
      \/ ~(active /\ data_active) /\ (\E b \in Rest : Goes(t, "end_capture", b))
      \/ ~(active /\ data_active) /\ Goes(t, "suspend_capture", "output_reconnect")
      \/ mid[t] \in {"output_reconnect", "signal_stop"}
           /\ Creates(t, "end_thread", mid[t], New("end"), "stop_encoders")
      \/ (\E b \in Rest : Goes(t, "signal_stop", b))
  BY EndCaptureMoves, Domains DEF Stacked, Shapes, Shape, Starting, Capturing, Failing, Ending
<1>2. CASE top[t] = "end_capture"
  <2>1. ~At(t, "suspend_capture") /\ ~At(t, "end_thread") /\ ~At(t, "signal_stop")
    BY <1>2, AtLabel, LabelsListed, UiIsThere DEF Stacked
  <2> QED
    BY <1>1, <1>2, <2>1 DEF EndDataCapture, Create
<1>3. CASE top[t] = "suspend_capture"
  <2>1. ~At(t, "end_capture") /\ ~At(t, "end_thread") /\ ~At(t, "signal_stop")
    BY <1>3, AtLabel, LabelsListed, UiIsThere DEF Stacked
  <2> QED
    BY <1>1, <1>3, <2>1 DEF EndDataCapture, Create
<1>4. CASE top[t] = "end_thread"
  <2>1. ~At(t, "end_capture") /\ ~At(t, "suspend_capture") /\ ~At(t, "signal_stop")
    BY <1>4, AtLabel, LabelsListed, UiIsThere DEF Stacked
  <2> QED
    BY <1>1, <1>4, <2>1 DEF EndDataCapture, Create
<1>5. CASE top[t] = "signal_stop"
  <2>1. ~At(t, "end_capture") /\ ~At(t, "suspend_capture") /\ ~At(t, "end_thread")
    BY <1>5, AtLabel, LabelsListed, UiIsThere DEF Stacked
  <2> QED
    BY <1>1, <1>5, <2>1 DEF EndDataCapture, Create
<1> QED
  BY <1>1, <1>2, <1>3, <1>4, <1>5

\* What end_data_capture_thread changes, at which label.
LEMMA EndThreadDoes ==
  ASSUME Stacked, NEW t \in Everyone, EndThread(t)
  PROVE  \/ /\ Goes(t, "stop_encoders", "deactivate")
            /\ ~hooked'
            /\ UNCHANGED <<handle, detached, end_data_capture_thread_active, active,
                           data_active, reconnecting, reconnects, events, frontend, history>>
         \/ /\ Goes(t, "deactivate", "stopped")
            /\ ~active'
            /\ UNCHANGED <<handle, detached, end_data_capture_thread_active, data_active,
                           reconnecting, hooked, reconnects, events, frontend, history>>
         \/ /\ Goes(t, "stopped", "end_done")
            /\ stopping_event'
            /\ UNCHANGED <<handle, detached, end_data_capture_thread_active, flags,
                           reconnects, reconnect_stop_event, frontend, history>>
         \/ /\ Goes(t, "end_done", "idle")
            /\ ~end_data_capture_thread_active'
            /\ UNCHANGED <<handle, detached, flags, reconnects, events, frontend, history>>
<1>1. \/ Goes(t, "stop_encoders", "deactivate")
      \/ Goes(t, "deactivate", "stopped")
      \/ Goes(t, "stopped", "end_done")
      \/ Goes(t, "end_done", "idle")
  BY EndThreadMoves, Domains DEF Stacked, Shapes, Shape, Starting, Capturing, Failing, Ending
<1>2. CASE top[t] = "stop_encoders"
  <2>1. ~At(t, "deactivate") /\ ~At(t, "stopped") /\ ~At(t, "end_done")
    BY <1>2, AtLabel, LabelsListed, UiIsThere DEF Stacked
  <2> QED
    BY <1>1, <1>2, <2>1 DEF EndThread, StopEncoders, Stopped
<1>3. CASE top[t] = "deactivate"
  <2>1. ~At(t, "stop_encoders") /\ ~At(t, "stopped") /\ ~At(t, "end_done")
    BY <1>3, AtLabel, LabelsListed, UiIsThere DEF Stacked
  <2> QED
    BY <1>1, <1>3, <2>1 DEF EndThread, StopEncoders, Stopped
<1>4. CASE top[t] = "stopped"
  <2>1. ~At(t, "stop_encoders") /\ ~At(t, "deactivate") /\ ~At(t, "end_done")
    BY <1>4, AtLabel, LabelsListed, UiIsThere DEF Stacked
  <2> QED
    BY <1>1, <1>4, <2>1 DEF EndThread, StopEncoders, Stopped
<1>5. CASE top[t] = "end_done"
  <2>1. ~At(t, "stop_encoders") /\ ~At(t, "deactivate") /\ ~At(t, "stopped")
    BY <1>5, AtLabel, LabelsListed, UiIsThere DEF Stacked
  <2> QED
    BY <1>1, <1>5, <2>1 DEF EndThread, StopEncoders, Stopped
<1> QED
  BY <1>1, <1>2, <1>3, <1>4, <1>5

\* What obs_output_signal_stop changes, at which label.
LEMMA SignalStopDoes ==
  ASSUME Stacked, NEW t \in Everyone, NEW code \in Codes, SignalStopCode(t, code)
  PROVE  \/ /\ code = "success" /\ ~CanReconnect(code)
            /\ Goes(t, "signal_success", "end_capture")
            /\ ~reconnecting'
            /\ UNCHANGED <<handle, detached, end_data_capture_thread_active, active,
                           data_active, hooked, reconnects, events, frontend, history>>
         \/ /\ code = "success" /\ CanReconnect(code)
            /\ Goes(t, "signal_success", "suspend_capture")
            /\ UNCHANGED output
         \/ /\ code = "failed" /\ ~CanReconnect(code)
            /\ Goes(t, "signal_failed", "end_capture")
            /\ ~reconnecting'
            /\ UNCHANGED <<handle, detached, end_data_capture_thread_active, active,
                           data_active, hooked, reconnects, events, frontend, history>>
         \/ /\ code = "failed" /\ CanReconnect(code)
            /\ Goes(t, "signal_failed", "suspend_capture")
            /\ UNCHANGED output
         \/ /\ code = "disconnected" /\ ~CanReconnect(code)
            /\ Goes(t, "signal_lost", "end_capture")
            /\ ~reconnecting'
            /\ UNCHANGED <<handle, detached, end_data_capture_thread_active, active,
                           data_active, hooked, reconnects, events, frontend, history>>
         \/ /\ code = "disconnected" /\ CanReconnect(code)
            /\ Goes(t, "signal_lost", "suspend_capture")
            /\ UNCHANGED output
<1>1. \/ code = "success" /\ ~CanReconnect(code) /\ Goes(t, "signal_success", "end_capture")
      \/ code = "success" /\ CanReconnect(code)
           /\ Goes(t, "signal_success", "suspend_capture")
      \/ code = "failed" /\ ~CanReconnect(code) /\ Goes(t, "signal_failed", "end_capture")
      \/ code = "failed" /\ CanReconnect(code)
           /\ Goes(t, "signal_failed", "suspend_capture")
      \/ code = "disconnected" /\ ~CanReconnect(code)
           /\ Goes(t, "signal_lost", "end_capture")
      \/ code = "disconnected" /\ CanReconnect(code)
           /\ Goes(t, "signal_lost", "suspend_capture")
  BY SignalStopMoves, Domains DEF Stacked, Shapes, Shape, Starting, Capturing, Failing, Ending
<1>2. CASE top[t] = "signal_success"
  BY <1>1, <1>2 DEF SignalStopCode
<1>3. CASE top[t] = "signal_failed"
  BY <1>1, <1>3 DEF SignalStopCode
<1>4. CASE top[t] = "signal_lost"
  BY <1>1, <1>4 DEF SignalStopCode
<1> QED
  BY <1>1, <1>2, <1>3, <1>4

\* What output_reconnect changes, at which label.
LEMMA ReconnectDoes ==
  ASSUME Stacked, NEW t \in Everyone, OutputReconnect(t)
  PROVE  \/ /\ reconnecting /\ reconnect_stop_event
                 /\ (\E b \in Rest : Goes(t, "output_reconnect", b))
            /\ ~reconnecting'
            /\ UNCHANGED <<handle, detached, end_data_capture_thread_active, active,
                           data_active, hooked, reconnects, events, frontend, history>>
         \/ /\ GiveUp /\ ~(reconnecting /\ reconnect_stop_event)
            /\ Goes(t, "output_reconnect", "end_capture")
            /\ ~reconnecting' /\ reconnect_retries' = Retries
            /\ UNCHANGED <<handle, detached, end_data_capture_thread_active, active,
                           data_active, hooked, reconnect_thread_active, events, frontend,
                           history>>
         \/ /\ ~GiveUp /\ reconnecting /\ ~reconnect_stop_event
            /\ Goes(t, "output_reconnect", "retry")
            /\ reconnect_retries' = Retries
            /\ UNCHANGED <<handle, detached, end_data_capture_thread_active, flags,
                           reconnect_thread_active, events, frontend, history>>
         \/ /\ ~GiveUp /\ ~reconnecting /\ Goes(t, "output_reconnect", "reset_stop")
            /\ reconnecting' /\ reconnect_retries' = Retries
            /\ UNCHANGED <<handle, detached, end_data_capture_thread_active, active,
                           data_active, hooked, reconnect_thread_active, events, frontend,
                           history>>
         \/ /\ Goes(t, "reset_stop", "retry")
            /\ ~reconnect_stop_event'
            /\ UNCHANGED <<handle, detached, end_data_capture_thread_active, flags,
                           reconnects, stopping_event, frontend, history>>
         \/ /\ (\E b \in Rest : Creates(t, "retry", b, New("reconnect"), "reconnect"))
            /\ reconnect_retries' = reconnect_retries + 1
            /\ UNCHANGED <<end_data_capture_thread_active, flags, reconnect_thread_active,
                           events, frontend, history>>
<1>1. \/ reconnecting /\ reconnect_stop_event /\ (\E b \in Rest : Goes(t, "output_reconnect", b))
      \/ GiveUp /\ ~(reconnecting /\ reconnect_stop_event)
           /\ Goes(t, "output_reconnect", "end_capture")
      \/ ~GiveUp /\ reconnecting /\ ~reconnect_stop_event
           /\ Goes(t, "output_reconnect", "retry")
      \/ ~GiveUp /\ ~reconnecting /\ Goes(t, "output_reconnect", "reset_stop")
      \/ Goes(t, "reset_stop", "retry")
      \/ (\E b \in Rest : Creates(t, "retry", b, New("reconnect"), "reconnect"))
  BY ReconnectMoves, Domains DEF Stacked, Shapes, Shape, Starting, Capturing, Failing, Ending
<1>2. CASE top[t] = "output_reconnect"
  <2>1. ~At(t, "reset_stop") /\ ~At(t, "retry")
    BY <1>2, AtLabel, LabelsListed, UiIsThere DEF Stacked
  <2> QED
    BY <1>1, <1>2, <2>1 DEF OutputReconnect, Create
<1>3. CASE top[t] = "reset_stop"
  <2>1. ~At(t, "output_reconnect") /\ ~At(t, "retry")
    BY <1>3, AtLabel, LabelsListed, UiIsThere DEF Stacked
  <2> QED
    BY <1>1, <1>3, <2>1 DEF OutputReconnect, Create
<1>4. CASE top[t] = "retry"
  <2>1. ~At(t, "output_reconnect") /\ ~At(t, "reset_stop")
    BY <1>4, AtLabel, LabelsListed, UiIsThere DEF Stacked
  <2> QED
    BY <1>1, <1>4, <2>1 DEF OutputReconnect, Create
<1> QED
  BY <1>1, <1>2, <1>3, <1>4

\* What reconnect_thread changes, at which label.
LEMMA ReconnectThreadDoes ==
  ASSUME Stacked, NEW t \in Everyone, ReconnectThread(t)
  PROVE  \/ /\ Goes(t, "reconnect", "timed_wait")
            /\ reconnect_thread_active'
            /\ UNCHANGED <<handle, detached, end_data_capture_thread_active, flags,
                           reconnect_retries, events, frontend, history>>
         \/ /\ ~reconnect_stop_event /\ Goes(t, "timed_wait", "actual_start")
            /\ After(DOMAIN pc \ {t})
            /\ UNCHANGED output
         \/ /\ reconnect_stop_event /\ Goes(t, "timed_wait", "reconnect_end")
            /\ UNCHANGED output
         \/ /\ Goes(t, "reconnect_end", "reconnect_done")
            /\ IF reconnect_stop_event THEN ~reconnecting' ELSE UNCHANGED reconnecting
            /\ UNCHANGED <<handle, end_data_capture_thread_active, active, data_active,
                           hooked, reconnects, events, frontend, history>>
         \/ /\ Goes(t, "reconnect_done", "idle")
            /\ ~reconnect_thread_active'
            /\ UNCHANGED <<handle, detached, end_data_capture_thread_active, flags,
                           reconnect_retries, events, frontend, history>>
<1>1. \/ Goes(t, "reconnect", "timed_wait")
      \/ ~reconnect_stop_event /\ Goes(t, "timed_wait", "actual_start")
      \/ reconnect_stop_event /\ Goes(t, "timed_wait", "reconnect_end")
      \/ Goes(t, "reconnect_end", "reconnect_done")
      \/ Goes(t, "reconnect_done", "idle")
  BY ReconnectThreadMoves, Domains DEF Stacked, Shapes, Shape, Starting, Capturing,
     Failing, Ending
<1>2. CASE top[t] = "reconnect"
  <2>1. ~At(t, "timed_wait") /\ ~At(t, "reconnect_end") /\ ~At(t, "reconnect_done")
    BY <1>2, AtLabel, LabelsListed, UiIsThere DEF Stacked
  <2> QED
    BY <1>1, <1>2, <2>1 DEF ReconnectThread, Current
<1>3. CASE top[t] = "timed_wait"
  <2>1. ~At(t, "reconnect") /\ ~At(t, "reconnect_end") /\ ~At(t, "reconnect_done")
    BY <1>3, AtLabel, LabelsListed, UiIsThere DEF Stacked
  <2> QED
    BY <1>1, <1>3, <2>1 DEF ReconnectThread, Current
<1>4. CASE top[t] = "reconnect_end"
  <2>1. ~At(t, "reconnect") /\ ~At(t, "timed_wait") /\ ~At(t, "reconnect_done")
    BY <1>4, AtLabel, LabelsListed, UiIsThere DEF Stacked
  <2> QED
    BY <1>1, <1>4, <2>1 DEF ReconnectThread, Current
<1>5. CASE top[t] = "reconnect_done"
  <2>1. ~At(t, "reconnect") /\ ~At(t, "timed_wait") /\ ~At(t, "reconnect_end")
    BY <1>5, AtLabel, LabelsListed, UiIsThere DEF Stacked
  <2> QED
    BY <1>1, <1>5, <2>1 DEF ReconnectThread, Current
<1> QED
  BY <1>1, <1>2, <1>3, <1>4, <1>5

\* What rtmp_stream_start changes, at which label.
LEMMA StreamStartDoes ==
  ASSUME Stacked, NEW t \in Everyone, StreamStart(t)
  PROVE  \/ /\ active /\ Goes(t, "stream_start", "not_started")
            /\ UNCHANGED <<output, stream>>
         \/ /\ ~active
                 /\ (\E b \in {"started", "reconnect_end"} :
                   Creates(t, "stream_start", b, New("connect"), "init_connect"))
            /\ connecting'
            /\ UNCHANGED <<end_data_capture_thread_active, flags, reconnects, events,
                           frontend, history, sending, stop_event, stop_ts, disconnected,
                           send_sem, packet>>
<1>1. \/ active /\ Goes(t, "stream_start", "not_started")
      \/ ~active
           /\ (\E b \in {"started", "reconnect_end"} :
                   Creates(t, "stream_start", b, New("connect"), "init_connect"))
  BY StreamStartMoves, Domains DEF Stacked, Shapes, Shape, Starting, Capturing, Failing,
     Ending
<1> QED
  BY <1>1 DEF StreamStart, Create

\* What rtmp_stream_stop changes, at which label.
LEMMA StreamStopDoes ==
  ASSUME Stacked, StreamStop
  PROVE  \/ /\ (\E b \in {"idle", "join_connect", "stop_sending"} : Goes(ui, "stream_stop", b))
            /\ UNCHANGED stream
         \/ /\ Goes(ui, "join_connect", "stop_sending")
            /\ Joined("connect")
            /\ UNCHANGED stream
         \/ /\ \/ sending /\ Goes(ui, "stop_sending", "raise_stop")
               \/ ~sending /\ Goes(ui, "stop_sending", "signal_success")
            /\ stop_ts' = ~force
            /\ UNCHANGED <<connecting, sending, stop_event, disconnected, send_sem, packet>>
         \/ /\ (\E b \in {"idle", "post_stop"} : Goes(ui, "raise_stop", b))
            /\ stop_event'
            /\ UNCHANGED <<connecting, sending, stop_ts, disconnected, send_sem, packet>>
         \/ /\ Goes(ui, "post_stop", "idle")
            /\ send_sem' = send_sem + 1
            /\ UNCHANGED <<connecting, sending, stop_event, stop_ts, disconnected, packet>>
<1>1. \/ (\E b \in {"idle", "join_connect", "stop_sending"} : Goes(ui, "stream_stop", b))
      \/ Goes(ui, "join_connect", "stop_sending")
      \/ sending /\ Goes(ui, "stop_sending", "raise_stop")
      \/ ~sending /\ Goes(ui, "stop_sending", "signal_success")
      \/ (\E b \in {"idle", "post_stop"} : Goes(ui, "raise_stop", b))
      \/ Goes(ui, "post_stop", "idle")
  BY StreamStopMoves, Domains DEF Stacked, Shapes, Shape, Starting, Capturing, Failing, Ending
<1>2. CASE top[ui] = "stream_stop"
  <2>1. ~At(ui, "join_connect") /\ ~At(ui, "stop_sending") /\ ~At(ui, "raise_stop")
          /\ ~At(ui, "post_stop")
    BY <1>2, AtLabel, LabelsListed, UiIsThere DEF Stacked
  <2> QED
    BY <1>1, <1>2, <2>1 DEF StreamStop
<1>3. CASE top[ui] = "join_connect"
  <2>1. ~At(ui, "stream_stop") /\ ~At(ui, "stop_sending") /\ ~At(ui, "raise_stop")
          /\ ~At(ui, "post_stop")
    BY <1>3, AtLabel, LabelsListed, UiIsThere DEF Stacked
  <2> QED
    BY <1>1, <1>3, <2>1 DEF StreamStop
<1>4. CASE top[ui] = "stop_sending"
  <2>1. ~At(ui, "stream_stop") /\ ~At(ui, "join_connect") /\ ~At(ui, "raise_stop")
          /\ ~At(ui, "post_stop")
    BY <1>4, AtLabel, LabelsListed, UiIsThere DEF Stacked
  <2> QED
    BY <1>1, <1>4, <2>1 DEF StreamStop
<1>5. CASE top[ui] = "raise_stop"
  <2>1. ~At(ui, "stream_stop") /\ ~At(ui, "join_connect") /\ ~At(ui, "stop_sending")
          /\ ~At(ui, "post_stop")
    BY <1>5, AtLabel, LabelsListed, UiIsThere DEF Stacked
  <2> QED
    BY <1>1, <1>5, <2>1 DEF StreamStop
<1>6. CASE top[ui] = "post_stop"
  <2>1. ~At(ui, "stream_stop") /\ ~At(ui, "join_connect") /\ ~At(ui, "stop_sending")
          /\ ~At(ui, "raise_stop")
    BY <1>6, AtLabel, LabelsListed, UiIsThere DEF Stacked
  <2> QED
    BY <1>1, <1>6, <2>1 DEF StreamStop
<1> QED
  BY <1>1, <1>2, <1>3, <1>4, <1>5, <1>6

\* What init_connect changes, at which label.
LEMMA InitConnectDoes ==
  ASSUME Stacked, NEW t \in Everyone, InitConnect(t)
  PROVE  /\ Goes(t, "init_connect", "try_connect")
         /\ ~disconnected' /\ ~packet'
         /\ UNCHANGED <<connecting, sending, stop_event, stop_ts, send_sem>>
<1>1. Goes(t, "init_connect", "try_connect")
  BY InitConnectMoves, Domains DEF Stacked, Shapes, Shape, Starting, Capturing, Failing,
     Ending
<1> QED
  BY <1>1 DEF InitConnect

\* What try_connect changes, at which label.
LEMMA TryConnectDoes ==
  ASSUME Stacked, NEW t \in Everyone, TryConnect(t)
  PROVE  /\ UNCHANGED <<end_data_capture_thread_active, flags, reconnects, events,
                        frontend, answers, connecting, sending, stop_event, stop_ts,
                        disconnected, packet>>
         /\ \/ /\ UNCHANGED send_sem /\ Goes(t, "try_connect", "signal_failed")
               /\ attempts' = attempts + 1
            \/ /\ send_sem' = 0
               /\ Creates(t, "try_connect", "stream_active", New("send"), "send")
               /\ attempts' = attempts + 1
<1>1. \/ UNCHANGED send_sem /\ Goes(t, "try_connect", "signal_failed")
      \/ send_sem' = 0 /\ Creates(t, "try_connect", "stream_active", New("send"), "send")
  BY TryConnectMoves, Domains DEF Stacked, Shapes, Shape, Starting, Capturing, Failing, Ending
<1> QED
  BY <1>1 DEF TryConnect, Create

\* What init_send changes, at which label.
LEMMA StreamActiveDoes ==
  ASSUME Stacked, NEW t \in Everyone, StreamActive(t)
  PROVE  \/ /\ Goes(t, "stream_active", "send_meta_data")
            /\ sending'
            /\ UNCHANGED <<connecting, stop_event, stop_ts, disconnected, send_sem, packet>>
         \/ /\ \/ Goes(t, "send_meta_data", "begin_data_capture")
               \/ MetaMayFail /\ Goes(t, "send_meta_data", "signal_lost")
            /\ UNCHANGED stream
<1>1. \/ Goes(t, "stream_active", "send_meta_data")
      \/ Goes(t, "send_meta_data", "begin_data_capture")
      \/ MetaMayFail /\ Goes(t, "send_meta_data", "signal_lost")
  BY StreamActiveMoves, Domains DEF Stacked, Shapes, Shape, Starting, Capturing, Failing,
     Ending
<1>2. CASE top[t] = "stream_active"
  <2>1. ~At(t, "send_meta_data")
    BY <1>2, AtLabel, LabelsListed, UiIsThere DEF Stacked
  <2> QED
    BY <1>1, <1>2, <2>1 DEF StreamActive
<1>3. CASE top[t] = "send_meta_data"
  <2>1. ~At(t, "stream_active")
    BY <1>3, AtLabel, LabelsListed, UiIsThere DEF Stacked
  <2> QED
    BY <1>1, <1>3, <2>1 DEF StreamActive
<1> QED
  BY <1>1, <1>2, <1>3

\* What the end of connect_thread changes, at which label.
LEMMA ConnectEndDoes ==
  ASSUME Stacked, NEW t \in Everyone, ConnectEnd(t)
  PROVE  \/ /\ Goes(t, "connect_end", "connect_done")
            /\ UNCHANGED <<handle, end_data_capture_thread_active, flags, reconnects,
                           events, frontend, history, stream>>
         \/ /\ Goes(t, "connect_done", "idle")
            /\ ~connecting'
            /\ UNCHANGED <<output, sending, stop_event, stop_ts, disconnected, send_sem,
                           packet>>
<1>1. \/ Goes(t, "connect_end", "connect_done")
      \/ Goes(t, "connect_done", "idle")
  BY ConnectEndMoves, Domains DEF Stacked, Shapes, Shape, Starting, Capturing, Failing, Ending
<1>2. CASE top[t] = "connect_end"
  <2>1. ~At(t, "connect_done")
    BY <1>2, AtLabel, LabelsListed, UiIsThere DEF Stacked
  <2> QED
    BY <1>1, <1>2, <2>1 DEF ConnectEnd, Current
<1>3. CASE top[t] = "connect_done"
  <2>1. ~At(t, "connect_end")
    BY <1>3, AtLabel, LabelsListed, UiIsThere DEF Stacked
  <2> QED
    BY <1>1, <1>3, <2>1 DEF ConnectEnd, Current
<1> QED
  BY <1>1, <1>2, <1>3

\* What a turn of send_thread changes, at which label.
LEMMA SendDoes ==
  ASSUME Stacked, NEW t \in Everyone, Send(t)
  PROVE  /\ \/ Goes(t, "send", "send")
            \/ UNCHANGED disconnected /\ stop_event /\ Goes(t, "send", "send_exit")
            \/ disconnected' /\ LinkMayDrop /\ Goes(t, "send", "send_exit")
         /\ send_sem > 0 /\ send_sem' = send_sem - 1
         /\ UNCHANGED <<connecting, sending, stop_event, stop_ts>>
<1>1. \/ Goes(t, "send", "send")
      \/ UNCHANGED disconnected /\ stop_event /\ Goes(t, "send", "send_exit")
      \/ disconnected' /\ LinkMayDrop /\ Goes(t, "send", "send_exit")
  BY SendMoves, Domains DEF Stacked, Shapes, Shape, Starting, Capturing, Failing, Ending
<1> QED
  BY <1>1 DEF Send

\* What a packet that cannot be sent changes, at which label.
LEMMA ShutdownDoes ==
  ASSUME Stacked, NEW t \in Everyone, Shutdown(t)
  PROVE  /\ Goes(t, "send", "send_exit")
         /\ stop_event /\ packet /\ send_sem > 0 /\ send_sem' = send_sem - 1 /\ ~packet'
         /\ UNCHANGED <<output, connecting, sending, stop_event, stop_ts, disconnected>>
<1>1. Goes(t, "send", "send_exit")
  BY ShutdownMoves, Domains DEF Stacked, Shapes, Shape, Starting, Capturing, Failing, Ending
<1> QED
  BY <1>1 DEF Shutdown

\* What the end of the send loop changes, at which label.
LEMMA SendExitDoes ==
  ASSUME Stacked, NEW t \in Everyone, SendExit(t)
  PROVE  /\ \/ stop_event /\ Goes(t, "send_exit", "end_capture")
            \/ ~stop_event /\ Goes(t, "send_exit", "signal_lost")
         /\ UNCHANGED <<handle, end_data_capture_thread_active, flags, reconnects, events,
                        frontend, history, stream>>
<1>1. \/ stop_event /\ Goes(t, "send_exit", "end_capture")
      \/ ~stop_event /\ Goes(t, "send_exit", "signal_lost")
  BY SendExitMoves, Domains DEF Stacked, Shapes, Shape, Starting, Capturing, Failing, Ending
<1> QED
  BY <1>1 DEF SendExit, Current

\* What the end of send_thread changes, at which label.
LEMMA SendDoneDoes ==
  ASSUME Stacked, NEW t \in Everyone, SendDone(t)
  PROVE  \/ /\ Goes(t, "reset_stop_event", "send_done")
            /\ ~stop_event' /\ ~packet'
            /\ UNCHANGED <<connecting, sending, stop_ts, disconnected, send_sem>>
         \/ /\ Goes(t, "send_done", "idle")
            /\ ~sending'
            /\ UNCHANGED <<connecting, stop_event, stop_ts, disconnected, send_sem, packet>>
<1>1. \/ Goes(t, "reset_stop_event", "send_done")
      \/ Goes(t, "send_done", "idle")
  BY SendDoneMoves, Domains DEF Stacked, Shapes, Shape, Starting, Capturing, Failing, Ending
<1>2. CASE top[t] = "reset_stop_event"
  <2>1. ~At(t, "send_done")
    BY <1>2, AtLabel, LabelsListed, UiIsThere DEF Stacked
  <2> QED
    BY <1>1, <1>2, <2>1 DEF SendDone
<1>3. CASE top[t] = "send_done"
  <2>1. ~At(t, "reset_stop_event")
    BY <1>3, AtLabel, LabelsListed, UiIsThere DEF Stacked
  <2> QED
    BY <1>1, <1>3, <2>1 DEF SendDone
<1> QED
  BY <1>1, <1>2, <1>3

\* What the frontend's start finds and changes.
LEMMA UserStartDoes ==
  ASSUME Stacked, UserStart
  PROVE  /\ Goes(ui, "idle", "actual_start")
         /\ ~active /\ ~reconnecting /\ ~streamingStarting
         /\ After(Threads)
         /\ streamingStarting' /\ starts' = starts + 1 /\ stops' = 0 /\ attempts' = 0
         /\ UNCHANGED <<handle, detached, flags, reconnects, events, force, told,
                        answers, end_data_capture_thread_active>>
<1>1. Goes(ui, "idle", "actual_start")
  BY UserMoves, Domains
<1> QED
  BY <1>1 DEF UserStart

\* What the frontend's stop finds and changes.
LEMMA UserStopDoes ==
  ASSUME Stacked, NEW forced \in BOOLEAN, UserStop(forced)
  PROVE  /\ Goes(ui, "idle", "actual_stop") \/ UNCHANGED <<top, mid>>
         /\ stops < StopsPerStart
         /\ active \/ reconnecting
         /\ stops' = stops + 1
         /\ UNCHANGED <<handle, detached, flags, reconnects, events, history,
                        end_data_capture_thread_active, streamingStarting, starts>>
<1>1. Goes(ui, "idle", "actual_stop") \/ UNCHANGED <<top, mid>>
  BY UserMoves, Domains
<1> QED
  BY <1>1 DEF UserStop

\* What a packet of the encoders finds and changes.
LEMMA DataDoes ==
  ASSUME Stacked, Data
  PROVE  /\ UNCHANGED <<top, mid>>
         /\ hooked /\ sending /\ ~disconnected /\ ~packet
         /\ After({"connect"} \X {0, 1})
         /\ packet' /\ send_sem' = send_sem + 1
         /\ UNCHANGED <<output, connecting, sending, stop_event, stop_ts, disconnected>>
  BY Still DEF Data, Stacked

\* A step that changes nothing.
LEMMA IdleDoes ==
  ASSUME Stacked, UNCHANGED vars
  PROVE  UNCHANGED <<top, mid, output, stream>>
  BY Still DEF vars, Stacked

\* Every step keeps the stacks as they are described.
LEMMA ShapesKept ==
  ASSUME Stacked, [Next]_vars
  PROVE  StacksOK' /\ Shapes'
<1> USE DEF Stacked, Shapes, Shape, Starting, Capturing, Failing, Ending
<1>1. ASSUME UserStart, UNCHANGED stream
      PROVE  StacksOK' /\ Shapes'
  BY <1>1, UserMoves, Domains
<1>2. ASSUME NEW forced \in BOOLEAN, UserStop(forced), UNCHANGED stream
      PROVE  StacksOK' /\ Shapes'
  BY <1>2, UserMoves, Domains
<1>3. ASSUME NEW t \in Everyone, ActualStart(t), UNCHANGED stream
      PROVE  StacksOK' /\ Shapes'
  BY <1>3, ActualStartMoves, Domains
<1>4. ASSUME NEW t \in Everyone, CanBegin(t), UNCHANGED stream
      PROVE  StacksOK' /\ Shapes'
  BY <1>4, CanBeginMoves, Domains
<1>5. ASSUME NEW t \in Everyone, NotStarted(t), UNCHANGED stream
      PROVE  StacksOK' /\ Shapes'
  BY <1>5, NotStartedMoves, Domains
<1>6. ASSUME Started, UNCHANGED stream
      PROVE  StacksOK' /\ Shapes'
  BY <1>6, StartedMoves, Domains
<1>7. ASSUME ActualStop, UNCHANGED stream
      PROVE  StacksOK' /\ Shapes'
  BY <1>7, ActualStopMoves, Domains
<1>8. ASSUME NEW t \in Everyone, BeginDataCapture(t), UNCHANGED stream
      PROVE  StacksOK' /\ Shapes'
  BY <1>8, BeginMoves, Domains
<1>9. ASSUME NEW t \in Everyone, EndDataCapture(t), UNCHANGED stream
      PROVE  StacksOK' /\ Shapes'
  BY <1>9, EndCaptureMoves, Domains
<1>10. ASSUME NEW t \in Everyone, EndThread(t), UNCHANGED stream
       PROVE  StacksOK' /\ Shapes'
  BY <1>10, EndThreadMoves, Domains
<1>11. ASSUME NEW t \in Everyone, NEW code \in Codes,
             SignalStopCode(t, code), UNCHANGED stream
       PROVE  StacksOK' /\ Shapes'
  BY <1>11, SignalStopMoves, Domains
<1>12. ASSUME NEW t \in Everyone, OutputReconnect(t), UNCHANGED stream
       PROVE  StacksOK' /\ Shapes'
  BY <1>12, ReconnectMoves, Domains
<1>13. ASSUME NEW t \in Everyone, ReconnectThread(t), UNCHANGED stream
       PROVE  StacksOK' /\ Shapes'
  BY <1>13, ReconnectThreadMoves, Domains
<1>14. ASSUME NEW t \in Everyone, StreamStart(t)
       PROVE  StacksOK' /\ Shapes'
  BY <1>14, StreamStartMoves, Domains
<1>15. ASSUME NEW t \in Everyone, TryConnect(t)
       PROVE  StacksOK' /\ Shapes'
  BY <1>15, TryConnectMoves, Domains
<1>16. ASSUME NEW t \in Everyone, ConnectEnd(t)
       PROVE  StacksOK' /\ Shapes'
  BY <1>16, ConnectEndMoves, Domains
<1>17. ASSUME NEW t \in Everyone, SendExit(t)
       PROVE  StacksOK' /\ Shapes'
  BY <1>17, SendExitMoves, Domains
<1>18. ASSUME NEW t \in Everyone, Shutdown(t)
       PROVE  StacksOK' /\ Shapes'
  BY <1>18, ShutdownMoves, Domains
<1>19. ASSUME StreamStop, UNCHANGED output
       PROVE  StacksOK' /\ Shapes'
  BY <1>19, StreamStopMoves, Domains
<1>20. ASSUME NEW t \in Everyone, InitConnect(t), UNCHANGED output
       PROVE  StacksOK' /\ Shapes'
  BY <1>20, InitConnectMoves, Domains
<1>21. ASSUME NEW t \in Everyone, StreamActive(t), UNCHANGED output
       PROVE  StacksOK' /\ Shapes'
  BY <1>21, StreamActiveMoves, Domains
<1>22. ASSUME NEW t \in Everyone, Send(t), UNCHANGED output
       PROVE  StacksOK' /\ Shapes'
  BY <1>22, SendMoves, Domains
<1>23. ASSUME NEW t \in Everyone, SendDone(t), UNCHANGED output
       PROVE  StacksOK' /\ Shapes'
  BY <1>23, SendDoneMoves, Domains
<1>24. ASSUME Data
       PROVE  StacksOK' /\ Shapes'
  BY <1>24, Still DEF Data
<1>25. ASSUME UNCHANGED vars
       PROVE  StacksOK' /\ Shapes'
  BY <1>25, Still DEF vars
<1> QED
  BY <1>1, <1>2, <1>3, <1>4, <1>5, <1>6, <1>7, <1>8, <1>9, <1>10, <1>11, <1>12, <1>13,
     <1>14, <1>15, <1>16, <1>17, <1>18, <1>19, <1>20, <1>21, <1>22, <1>23, <1>24, <1>25
     DEF Next, Frontend, Step, OutputStep, StreamStep, Everyone

HIDE DEF Leaves, Turns, Calls, LeavesCreating, TurnsCreating, Everyone
USE UiIsThere

-----------------------------------------------------------------------------
(* Types.                                                                  *)

\* The types of the flags, a few at a time.
OutputFlags ==
    /\ active \in BOOLEAN /\ data_active \in BOOLEAN /\ reconnecting \in BOOLEAN
    /\ hooked \in BOOLEAN
ThreadFlags ==
    /\ reconnect_thread_active \in BOOLEAN
    /\ end_data_capture_thread_active \in BOOLEAN /\ stopping_event \in BOOLEAN
    /\ reconnect_stop_event \in BOOLEAN
FrontendFlags ==
    force \in BOOLEAN /\ streamingStarting \in BOOLEAN /\ told \in BOOLEAN
StreamFlags ==
    /\ connecting \in BOOLEAN /\ sending \in BOOLEAN /\ stop_event \in BOOLEAN
    /\ stop_ts \in BOOLEAN /\ disconnected \in BOOLEAN /\ packet \in BOOLEAN

\* The type invariant, in these parts,
LEMMA TypesSplit ==
  TypeOK <=> /\ OutputFlags /\ ThreadFlags /\ FrontendFlags /\ StreamFlags
             /\ NumbersTyped
             /\ pc \in [Everyone -> Seq(Labels)]
  BY DEF TypeOK, OutputTypeOK, OutputFlags, ThreadFlags, FrontendFlags, StreamFlags,
         NumbersTyped, Everyone

\* which every step keeps: the flags of the output,
LEMMA OutputFlagsKept ==
  ASSUME OutputFlags, [Next]_vars
  PROVE  OutputFlags'
<1> USE DEF OutputFlags
<1>1. ASSUME UserStart, UNCHANGED stream
      PROVE  OutputFlags'
  BY <1>1 DEF UserStart
<1>2. ASSUME NEW forced \in BOOLEAN, UserStop(forced), UNCHANGED stream
      PROVE  OutputFlags'
  BY <1>2 DEF UserStop
<1>3. ASSUME NEW t \in Everyone, ActualStart(t), UNCHANGED stream
      PROVE  OutputFlags'
  BY <1>3 DEF ActualStart
<1>4. ASSUME NEW t \in Everyone, CanBegin(t), UNCHANGED stream
      PROVE  OutputFlags'
  BY <1>4 DEF CanBegin
<1>5. ASSUME NEW t \in Everyone, NotStarted(t), UNCHANGED stream
      PROVE  OutputFlags'
  BY <1>5 DEF NotStarted
<1>6. ASSUME Started, UNCHANGED stream
      PROVE  OutputFlags'
  BY <1>6 DEF Started
<1>7. ASSUME ActualStop, UNCHANGED stream
      PROVE  OutputFlags'
  BY <1>7 DEF ActualStop
<1>8. ASSUME NEW t \in Everyone, BeginDataCapture(t), UNCHANGED stream
      PROVE  OutputFlags'
  BY <1>8 DEF BeginDataCapture, SignalStart
<1>9. ASSUME NEW t \in Everyone, EndDataCapture(t), UNCHANGED stream
      PROVE  OutputFlags'
  BY <1>9 DEF EndDataCapture, SignalsStop, Create
<1>10. ASSUME NEW t \in Everyone, EndThread(t), UNCHANGED stream
       PROVE  OutputFlags'
  BY <1>10 DEF EndThread, StopEncoders, Stopped
<1>11. ASSUME NEW t \in Everyone, NEW code \in Codes,
             SignalStopCode(t, code), UNCHANGED stream
       PROVE  OutputFlags'
  BY <1>11 DEF SignalStopCode
<1>12. ASSUME NEW t \in Everyone, OutputReconnect(t), UNCHANGED stream
       PROVE  OutputFlags'
  BY <1>12 DEF OutputReconnect, Create, Retries
<1>13. ASSUME NEW t \in Everyone, ReconnectThread(t), UNCHANGED stream
       PROVE  OutputFlags'
  BY <1>13 DEF ReconnectThread, Current
<1>14. ASSUME NEW t \in Everyone, StreamStart(t)
       PROVE  OutputFlags'
  BY <1>14 DEF StreamStart, Create
<1>15. ASSUME NEW t \in Everyone, TryConnect(t)
       PROVE  OutputFlags'
  BY <1>15 DEF TryConnect, Create
<1>16. ASSUME NEW t \in Everyone, ConnectEnd(t)
       PROVE  OutputFlags'
  BY <1>16 DEF ConnectEnd, Current
<1>17. ASSUME NEW t \in Everyone, SendExit(t)
       PROVE  OutputFlags'
  BY <1>17 DEF SendExit, Current
<1>18. ASSUME NEW t \in Everyone, Shutdown(t)
       PROVE  OutputFlags'
  BY <1>18 DEF Shutdown
<1>19. ASSUME StreamStop, UNCHANGED output
       PROVE  OutputFlags'
  BY <1>19 DEF StreamStop
<1>20. ASSUME NEW t \in Everyone, InitConnect(t), UNCHANGED output
       PROVE  OutputFlags'
  BY <1>20 DEF InitConnect
<1>21. ASSUME NEW t \in Everyone, StreamActive(t), UNCHANGED output
       PROVE  OutputFlags'
  BY <1>21 DEF StreamActive
<1>22. ASSUME NEW t \in Everyone, Send(t), UNCHANGED output
       PROVE  OutputFlags'
  BY <1>22 DEF Send
<1>23. ASSUME NEW t \in Everyone, SendDone(t), UNCHANGED output
       PROVE  OutputFlags'
  BY <1>23 DEF SendDone
<1>24. ASSUME Data
       PROVE  OutputFlags'
  BY <1>24 DEF Data
<1>25. ASSUME UNCHANGED vars
       PROVE  OutputFlags'
  BY <1>25 DEF vars
<1> QED
  BY <1>1, <1>2, <1>3, <1>4, <1>5, <1>6, <1>7, <1>8, <1>9, <1>10, <1>11, <1>12, <1>13,
     <1>14, <1>15, <1>16, <1>17, <1>18, <1>19, <1>20, <1>21, <1>22, <1>23, <1>24, <1>25
     DEF Next, Frontend, Step, OutputStep, StreamStep, Everyone

\* those its threads share,
LEMMA ThreadFlagsKept ==
  ASSUME ThreadFlags, [Next]_vars
  PROVE  ThreadFlags'
<1> USE DEF ThreadFlags
<1>1. ASSUME UserStart, UNCHANGED stream
      PROVE  ThreadFlags'
  BY <1>1 DEF UserStart
<1>2. ASSUME NEW forced \in BOOLEAN, UserStop(forced), UNCHANGED stream
      PROVE  ThreadFlags'
  BY <1>2 DEF UserStop
<1>3. ASSUME NEW t \in Everyone, ActualStart(t), UNCHANGED stream
      PROVE  ThreadFlags'
  BY <1>3 DEF ActualStart
<1>4. ASSUME NEW t \in Everyone, CanBegin(t), UNCHANGED stream
      PROVE  ThreadFlags'
  BY <1>4 DEF CanBegin
<1>5. ASSUME NEW t \in Everyone, NotStarted(t), UNCHANGED stream
      PROVE  ThreadFlags'
  BY <1>5 DEF NotStarted
<1>6. ASSUME Started, UNCHANGED stream
      PROVE  ThreadFlags'
  BY <1>6 DEF Started
<1>7. ASSUME ActualStop, UNCHANGED stream
      PROVE  ThreadFlags'
  BY <1>7 DEF ActualStop
<1>8. ASSUME NEW t \in Everyone, BeginDataCapture(t), UNCHANGED stream
      PROVE  ThreadFlags'
  BY <1>8 DEF BeginDataCapture, SignalStart
<1>9. ASSUME NEW t \in Everyone, EndDataCapture(t), UNCHANGED stream
      PROVE  ThreadFlags'
  BY <1>9 DEF EndDataCapture, SignalsStop, Create
<1>10. ASSUME NEW t \in Everyone, EndThread(t), UNCHANGED stream
       PROVE  ThreadFlags'
  BY <1>10 DEF EndThread, StopEncoders, Stopped
<1>11. ASSUME NEW t \in Everyone, NEW code \in Codes,
             SignalStopCode(t, code), UNCHANGED stream
       PROVE  ThreadFlags'
  BY <1>11 DEF SignalStopCode
<1>12. ASSUME NEW t \in Everyone, OutputReconnect(t), UNCHANGED stream
       PROVE  ThreadFlags'
  BY <1>12 DEF OutputReconnect, Create, Retries
<1>13. ASSUME NEW t \in Everyone, ReconnectThread(t), UNCHANGED stream
       PROVE  ThreadFlags'
  BY <1>13 DEF ReconnectThread, Current
<1>14. ASSUME NEW t \in Everyone, StreamStart(t)
       PROVE  ThreadFlags'
  BY <1>14 DEF StreamStart, Create
<1>15. ASSUME NEW t \in Everyone, TryConnect(t)
       PROVE  ThreadFlags'
  BY <1>15 DEF TryConnect, Create
<1>16. ASSUME NEW t \in Everyone, ConnectEnd(t)
       PROVE  ThreadFlags'
  BY <1>16 DEF ConnectEnd, Current
<1>17. ASSUME NEW t \in Everyone, SendExit(t)
       PROVE  ThreadFlags'
  BY <1>17 DEF SendExit, Current
<1>18. ASSUME NEW t \in Everyone, Shutdown(t)
       PROVE  ThreadFlags'
  BY <1>18 DEF Shutdown
<1>19. ASSUME StreamStop, UNCHANGED output
       PROVE  ThreadFlags'
  BY <1>19 DEF StreamStop
<1>20. ASSUME NEW t \in Everyone, InitConnect(t), UNCHANGED output
       PROVE  ThreadFlags'
  BY <1>20 DEF InitConnect
<1>21. ASSUME NEW t \in Everyone, StreamActive(t), UNCHANGED output
       PROVE  ThreadFlags'
  BY <1>21 DEF StreamActive
<1>22. ASSUME NEW t \in Everyone, Send(t), UNCHANGED output
       PROVE  ThreadFlags'
  BY <1>22 DEF Send
<1>23. ASSUME NEW t \in Everyone, SendDone(t), UNCHANGED output
       PROVE  ThreadFlags'
  BY <1>23 DEF SendDone
<1>24. ASSUME Data
       PROVE  ThreadFlags'
  BY <1>24 DEF Data
<1>25. ASSUME UNCHANGED vars
       PROVE  ThreadFlags'
  BY <1>25 DEF vars
<1> QED
  BY <1>1, <1>2, <1>3, <1>4, <1>5, <1>6, <1>7, <1>8, <1>9, <1>10, <1>11, <1>12, <1>13,
     <1>14, <1>15, <1>16, <1>17, <1>18, <1>19, <1>20, <1>21, <1>22, <1>23, <1>24, <1>25
     DEF Next, Frontend, Step, OutputStep, StreamStep, Everyone

\* those of the frontend,
LEMMA FrontendFlagsKept ==
  ASSUME FrontendFlags, [Next]_vars
  PROVE  FrontendFlags'
<1> USE DEF FrontendFlags
<1>1. ASSUME UserStart, UNCHANGED stream
      PROVE  FrontendFlags'
  BY <1>1 DEF UserStart
<1>2. ASSUME NEW forced \in BOOLEAN, UserStop(forced), UNCHANGED stream
      PROVE  FrontendFlags'
  BY <1>2 DEF UserStop
<1>3. ASSUME NEW t \in Everyone, ActualStart(t), UNCHANGED stream
      PROVE  FrontendFlags'
  BY <1>3 DEF ActualStart
<1>4. ASSUME NEW t \in Everyone, CanBegin(t), UNCHANGED stream
      PROVE  FrontendFlags'
  BY <1>4 DEF CanBegin
<1>5. ASSUME NEW t \in Everyone, NotStarted(t), UNCHANGED stream
      PROVE  FrontendFlags'
  BY <1>5 DEF NotStarted
<1>6. ASSUME Started, UNCHANGED stream
      PROVE  FrontendFlags'
  BY <1>6 DEF Started
<1>7. ASSUME ActualStop, UNCHANGED stream
      PROVE  FrontendFlags'
  BY <1>7 DEF ActualStop
<1>8. ASSUME NEW t \in Everyone, BeginDataCapture(t), UNCHANGED stream
      PROVE  FrontendFlags'
  BY <1>8 DEF BeginDataCapture, SignalStart
<1>9. ASSUME NEW t \in Everyone, EndDataCapture(t), UNCHANGED stream
      PROVE  FrontendFlags'
  BY <1>9 DEF EndDataCapture, SignalsStop, Create
<1>10. ASSUME NEW t \in Everyone, EndThread(t), UNCHANGED stream
       PROVE  FrontendFlags'
  BY <1>10 DEF EndThread, StopEncoders, Stopped
<1>11. ASSUME NEW t \in Everyone, NEW code \in Codes,
             SignalStopCode(t, code), UNCHANGED stream
       PROVE  FrontendFlags'
  BY <1>11 DEF SignalStopCode
<1>12. ASSUME NEW t \in Everyone, OutputReconnect(t), UNCHANGED stream
       PROVE  FrontendFlags'
  BY <1>12 DEF OutputReconnect, Create, Retries
<1>13. ASSUME NEW t \in Everyone, ReconnectThread(t), UNCHANGED stream
       PROVE  FrontendFlags'
  BY <1>13 DEF ReconnectThread, Current
<1>14. ASSUME NEW t \in Everyone, StreamStart(t)
       PROVE  FrontendFlags'
  BY <1>14 DEF StreamStart, Create
<1>15. ASSUME NEW t \in Everyone, TryConnect(t)
       PROVE  FrontendFlags'
  BY <1>15 DEF TryConnect, Create
<1>16. ASSUME NEW t \in Everyone, ConnectEnd(t)
       PROVE  FrontendFlags'
  BY <1>16 DEF ConnectEnd, Current
<1>17. ASSUME NEW t \in Everyone, SendExit(t)
       PROVE  FrontendFlags'
  BY <1>17 DEF SendExit, Current
<1>18. ASSUME NEW t \in Everyone, Shutdown(t)
       PROVE  FrontendFlags'
  BY <1>18 DEF Shutdown
<1>19. ASSUME StreamStop, UNCHANGED output
       PROVE  FrontendFlags'
  BY <1>19 DEF StreamStop
<1>20. ASSUME NEW t \in Everyone, InitConnect(t), UNCHANGED output
       PROVE  FrontendFlags'
  BY <1>20 DEF InitConnect
<1>21. ASSUME NEW t \in Everyone, StreamActive(t), UNCHANGED output
       PROVE  FrontendFlags'
  BY <1>21 DEF StreamActive
<1>22. ASSUME NEW t \in Everyone, Send(t), UNCHANGED output
       PROVE  FrontendFlags'
  BY <1>22 DEF Send
<1>23. ASSUME NEW t \in Everyone, SendDone(t), UNCHANGED output
       PROVE  FrontendFlags'
  BY <1>23 DEF SendDone
<1>24. ASSUME Data
       PROVE  FrontendFlags'
  BY <1>24 DEF Data
<1>25. ASSUME UNCHANGED vars
       PROVE  FrontendFlags'
  BY <1>25 DEF vars
<1> QED
  BY <1>1, <1>2, <1>3, <1>4, <1>5, <1>6, <1>7, <1>8, <1>9, <1>10, <1>11, <1>12, <1>13,
     <1>14, <1>15, <1>16, <1>17, <1>18, <1>19, <1>20, <1>21, <1>22, <1>23, <1>24, <1>25
     DEF Next, Frontend, Step, OutputStep, StreamStep, Everyone

\* those of the stream,
LEMMA StreamFlagsKept ==
  ASSUME StreamFlags, [Next]_vars
  PROVE  StreamFlags'
<1> USE DEF StreamFlags
<1>1. ASSUME UserStart, UNCHANGED stream
      PROVE  StreamFlags'
  BY <1>1 DEF UserStart
<1>2. ASSUME NEW forced \in BOOLEAN, UserStop(forced), UNCHANGED stream
      PROVE  StreamFlags'
  BY <1>2 DEF UserStop
<1>3. ASSUME NEW t \in Everyone, ActualStart(t), UNCHANGED stream
      PROVE  StreamFlags'
  BY <1>3 DEF ActualStart
<1>4. ASSUME NEW t \in Everyone, CanBegin(t), UNCHANGED stream
      PROVE  StreamFlags'
  BY <1>4 DEF CanBegin
<1>5. ASSUME NEW t \in Everyone, NotStarted(t), UNCHANGED stream
      PROVE  StreamFlags'
  BY <1>5 DEF NotStarted
<1>6. ASSUME Started, UNCHANGED stream
      PROVE  StreamFlags'
  BY <1>6 DEF Started
<1>7. ASSUME ActualStop, UNCHANGED stream
      PROVE  StreamFlags'
  BY <1>7 DEF ActualStop
<1>8. ASSUME NEW t \in Everyone, BeginDataCapture(t), UNCHANGED stream
      PROVE  StreamFlags'
  BY <1>8 DEF BeginDataCapture, SignalStart
<1>9. ASSUME NEW t \in Everyone, EndDataCapture(t), UNCHANGED stream
      PROVE  StreamFlags'
  BY <1>9 DEF EndDataCapture, SignalsStop, Create
<1>10. ASSUME NEW t \in Everyone, EndThread(t), UNCHANGED stream
       PROVE  StreamFlags'
  BY <1>10 DEF EndThread, StopEncoders, Stopped
<1>11. ASSUME NEW t \in Everyone, NEW code \in Codes,
             SignalStopCode(t, code), UNCHANGED stream
       PROVE  StreamFlags'
  BY <1>11 DEF SignalStopCode
<1>12. ASSUME NEW t \in Everyone, OutputReconnect(t), UNCHANGED stream
       PROVE  StreamFlags'
  BY <1>12 DEF OutputReconnect, Create, Retries
<1>13. ASSUME NEW t \in Everyone, ReconnectThread(t), UNCHANGED stream
       PROVE  StreamFlags'
  BY <1>13 DEF ReconnectThread, Current
<1>14. ASSUME NEW t \in Everyone, StreamStart(t)
       PROVE  StreamFlags'
  BY <1>14 DEF StreamStart, Create
<1>15. ASSUME NEW t \in Everyone, TryConnect(t)
       PROVE  StreamFlags'
  BY <1>15 DEF TryConnect, Create
<1>16. ASSUME NEW t \in Everyone, ConnectEnd(t)
       PROVE  StreamFlags'
  BY <1>16 DEF ConnectEnd, Current
<1>17. ASSUME NEW t \in Everyone, SendExit(t)
       PROVE  StreamFlags'
  BY <1>17 DEF SendExit, Current
<1>18. ASSUME NEW t \in Everyone, Shutdown(t)
       PROVE  StreamFlags'
  BY <1>18 DEF Shutdown
<1>19. ASSUME StreamStop, UNCHANGED output
       PROVE  StreamFlags'
  BY <1>19 DEF StreamStop
<1>20. ASSUME NEW t \in Everyone, InitConnect(t), UNCHANGED output
       PROVE  StreamFlags'
  BY <1>20 DEF InitConnect
<1>21. ASSUME NEW t \in Everyone, StreamActive(t), UNCHANGED output
       PROVE  StreamFlags'
  BY <1>21 DEF StreamActive
<1>22. ASSUME NEW t \in Everyone, Send(t), UNCHANGED output
       PROVE  StreamFlags'
  BY <1>22 DEF Send
<1>23. ASSUME NEW t \in Everyone, SendDone(t), UNCHANGED output
       PROVE  StreamFlags'
  BY <1>23 DEF SendDone
<1>24. ASSUME Data
       PROVE  StreamFlags'
  BY <1>24 DEF Data
<1>25. ASSUME UNCHANGED vars
       PROVE  StreamFlags'
  BY <1>25 DEF vars
<1> QED
  BY <1>1, <1>2, <1>3, <1>4, <1>5, <1>6, <1>7, <1>8, <1>9, <1>10, <1>11, <1>12, <1>13,
     <1>14, <1>15, <1>16, <1>17, <1>18, <1>19, <1>20, <1>21, <1>22, <1>23, <1>24, <1>25
     DEF Next, Frontend, Step, OutputStep, StreamStep, Everyone

\* and the counters.
LEMMA NumbersKept ==
  ASSUME NumbersTyped, [Next]_vars
  PROVE  NumbersTyped'
<1> USE BoundsAssumption DEF NumbersTyped, Kinds, Threads
<1>1. ASSUME UserStart, UNCHANGED stream
      PROVE  NumbersTyped'
  BY <1>1 DEF UserStart
<1>2. ASSUME NEW forced \in BOOLEAN, UserStop(forced), UNCHANGED stream
      PROVE  NumbersTyped'
  BY <1>2 DEF UserStop
<1>3. ASSUME NEW t \in Everyone, ActualStart(t), UNCHANGED stream
      PROVE  NumbersTyped'
  BY <1>3 DEF ActualStart
<1>4. ASSUME NEW t \in Everyone, CanBegin(t), UNCHANGED stream
      PROVE  NumbersTyped'
  BY <1>4 DEF CanBegin
<1>5. ASSUME NEW t \in Everyone, NotStarted(t), UNCHANGED stream
      PROVE  NumbersTyped'
  BY <1>5 DEF NotStarted
<1>6. ASSUME Started, UNCHANGED stream
      PROVE  NumbersTyped'
  BY <1>6 DEF Started
<1>7. ASSUME ActualStop, UNCHANGED stream
      PROVE  NumbersTyped'
  BY <1>7 DEF ActualStop
<1>8. ASSUME NEW t \in Everyone, BeginDataCapture(t), UNCHANGED stream
      PROVE  NumbersTyped'
  BY <1>8 DEF BeginDataCapture, SignalStart
<1>9. ASSUME NEW t \in Everyone, EndDataCapture(t), UNCHANGED stream
      PROVE  NumbersTyped'
  BY <1>9 DEF EndDataCapture, SignalsStop, Create
<1>10. ASSUME NEW t \in Everyone, EndThread(t), UNCHANGED stream
       PROVE  NumbersTyped'
  BY <1>10 DEF EndThread, StopEncoders, Stopped
<1>11. ASSUME NEW t \in Everyone, NEW code \in Codes,
             SignalStopCode(t, code), UNCHANGED stream
       PROVE  NumbersTyped'
  BY <1>11 DEF SignalStopCode
<1>12. ASSUME NEW t \in Everyone, OutputReconnect(t), UNCHANGED stream
       PROVE  NumbersTyped'
  BY <1>12 DEF OutputReconnect, Create, Retries
<1>13. ASSUME NEW t \in Everyone, ReconnectThread(t), UNCHANGED stream
       PROVE  NumbersTyped'
  BY <1>13 DEF ReconnectThread, Current
<1>14. ASSUME NEW t \in Everyone, StreamStart(t)
       PROVE  NumbersTyped'
  BY <1>14 DEF StreamStart, Create
<1>15. ASSUME NEW t \in Everyone, TryConnect(t)
       PROVE  NumbersTyped'
  BY <1>15 DEF TryConnect, Create
<1>16. ASSUME NEW t \in Everyone, ConnectEnd(t)
       PROVE  NumbersTyped'
  BY <1>16 DEF ConnectEnd, Current
<1>17. ASSUME NEW t \in Everyone, SendExit(t)
       PROVE  NumbersTyped'
  BY <1>17 DEF SendExit, Current
<1>18. ASSUME NEW t \in Everyone, Shutdown(t)
       PROVE  NumbersTyped'
  BY <1>18 DEF Shutdown
<1>19. ASSUME StreamStop, UNCHANGED output
       PROVE  NumbersTyped'
  BY <1>19 DEF StreamStop
<1>20. ASSUME NEW t \in Everyone, InitConnect(t), UNCHANGED output
       PROVE  NumbersTyped'
  BY <1>20 DEF InitConnect
<1>21. ASSUME NEW t \in Everyone, StreamActive(t), UNCHANGED output
       PROVE  NumbersTyped'
  BY <1>21 DEF StreamActive
<1>22. ASSUME NEW t \in Everyone, Send(t), UNCHANGED output
       PROVE  NumbersTyped'
  BY <1>22 DEF Send
<1>23. ASSUME NEW t \in Everyone, SendDone(t), UNCHANGED output
       PROVE  NumbersTyped'
  BY <1>23 DEF SendDone
<1>24. ASSUME Data
       PROVE  NumbersTyped'
  BY <1>24 DEF Data
<1>25. ASSUME UNCHANGED vars
       PROVE  NumbersTyped'
  BY <1>25 DEF vars
<1> QED
  BY <1>1, <1>2, <1>3, <1>4, <1>5, <1>6, <1>7, <1>8, <1>9, <1>10, <1>11, <1>12, <1>13,
     <1>14, <1>15, <1>16, <1>17, <1>18, <1>19, <1>20, <1>21, <1>22, <1>23, <1>24, <1>25
     DEF Next, Frontend, Step, OutputStep, StreamStep, Everyone

\* Every step keeps what is known of the stacks and the counters,
LEMMA StackedKept ==
  ASSUME Stacked, [Next]_vars
  PROVE  Stacked'
  BY ShapesKept, NumbersKept DEF Stacked

\* and the type invariant, which holds of them together.
LEMMA TypeKept ==
  ASSUME Stacked, TypeOK, [Next]_vars
  PROVE  Stacked' /\ TypeOK'
<1>1. StacksOK' /\ Shapes'
  BY ShapesKept
<1>2. OutputFlags' /\ ThreadFlags' /\ FrontendFlags' /\ StreamFlags' /\ NumbersTyped'
  BY TypesSplit, OutputFlagsKept, ThreadFlagsKept, FrontendFlagsKept, StreamFlagsKept,
     NumbersKept
<1>3. (pc \in [Everyone -> Seq(Labels)])'
  BY <1>1 DEF StacksOK, Stacks
<1>4. TypeOK'
  BY <1>2, <1>3 DEF TypeOK, OutputTypeOK, OutputFlags, ThreadFlags, FrontendFlags,
                    StreamFlags, NumbersTyped, Everyone
<1> QED
  BY <1>1, <1>2, <1>4 DEF Stacked, NumbersTyped

\* Both hold at first.
LEMMA TypeAtFirst ==
  ASSUME Init
  PROVE  Stacked /\ TypeOK
<1>1. \A t \in Everyone : pc[t] = <<>>
  BY DEF Init, OutputInit, Everyone
<1>2. StacksOK
  BY DEF Init, OutputInit, StacksOK, Stacks, Everyone
<1>3. \A t \in Everyone : top[t] = "idle" /\ mid[t] = "idle" /\ low[t] = "idle"
  BY <1>1 DEF top, mid, low, Label
<1>4. Shapes
  BY <1>3 DEF Shapes, Shape, Starting, Capturing, Failing, Ending, Rest
<1>6. (pc \in [Everyone -> Seq(Labels)])
  BY <1>2 DEF StacksOK, Stacks
<1>7. OutputFlags /\ ThreadFlags /\ FrontendFlags /\ StreamFlags
  BY DEF Init, OutputInit, OutputFlags, ThreadFlags, FrontendFlags, StreamFlags
<1>8. NumbersTyped
  BY BoundsAssumption DEF Init, OutputInit, NumbersTyped
<1> QED
  BY <1>2, <1>4, <1>6, <1>7, <1>8, TypesSplit DEF Stacked

\* The variables have their types, however the network, the threads and the
\* user behave (the flags and counters of obs-output.c and rtmp-stream.c, and
\* what each thread has still to run).
THEOREM TypeCorrect == Spec => []TypeOK
<1>1. Init => Stacked /\ TypeOK
  BY TypeAtFirst
<1>2. Stacked /\ TypeOK /\ [Next]_vars => Stacked' /\ TypeOK'
  BY TypeKept
<1> QED
  BY <1>1, <1>2, PTL DEF Spec

-----------------------------------------------------------------------------
(* The encoders are connected to active outputs only.                      *)

Closing == {"end_thread", "stop_encoders", "deactivate"}

\* At most one capture is being ended, of an output that is active until then,
\* and the encoders are disconnected when it stops being active.
OneClosing ==
    /\ \A t \in Everyone : top[t] \in Closing => active /\ ~data_active
    /\ \A t, u \in Everyone : top[t] \in Closing /\ top[u] \in Closing => t = u
    /\ \A t \in Everyone : top[t] = "deactivate" => ~hooked

\* An output that has the encoders and is not active is about to be.
HookedIsActive == hooked => active \/ \E t \in Everyone : top[t] = "activate"

\* The end of a capture runs on one thread: only the one that finds the output
\* active creates it.
LEMMA OneClosingKept ==
  ASSUME Stacked, OneClosing, [Next]_vars
  PROVE  OneClosing'
<1> USE DEF OneClosing, Closing
<1>1. ASSUME UserStart, UNCHANGED stream
      PROVE  OneClosing'
  BY <1>1, UserStartDoes
<1>2. ASSUME NEW forced \in BOOLEAN, UserStop(forced), UNCHANGED stream
      PROVE  OneClosing'
  BY <1>2, UserStopDoes
<1>3. ASSUME NEW t \in Everyone, ActualStart(t), UNCHANGED stream
      PROVE  OneClosing'
  BY <1>3, ActualStartDoes
<1>4. ASSUME NEW t \in Everyone, CanBegin(t), UNCHANGED stream
      PROVE  OneClosing'
  BY <1>4, CanBeginDoes
<1>5. ASSUME NEW t \in Everyone, NotStarted(t), UNCHANGED stream
      PROVE  OneClosing'
  BY <1>5, NotStartedDoes
<1>6. ASSUME Started, UNCHANGED stream
      PROVE  OneClosing'
  BY <1>6, StartedDoes
<1>7. ASSUME ActualStop, UNCHANGED stream
      PROVE  OneClosing'
  BY <1>7, ActualStopDoes
<1>8. ASSUME NEW t \in Everyone, BeginDataCapture(t), UNCHANGED stream
      PROVE  OneClosing'
  BY <1>8, BeginDoes
<1>9. ASSUME NEW t \in Everyone, EndDataCapture(t), UNCHANGED stream
      PROVE  OneClosing'
  BY <1>9, EndCaptureDoes
<1>10. ASSUME NEW t \in Everyone, EndThread(t), UNCHANGED stream
       PROVE  OneClosing'
  BY <1>10, EndThreadDoes
<1>11. ASSUME NEW t \in Everyone, NEW code \in Codes,
             SignalStopCode(t, code), UNCHANGED stream
       PROVE  OneClosing'
  BY <1>11, SignalStopDoes
<1>12. ASSUME NEW t \in Everyone, OutputReconnect(t), UNCHANGED stream
       PROVE  OneClosing'
  BY <1>12, ReconnectDoes
<1>13. ASSUME NEW t \in Everyone, ReconnectThread(t), UNCHANGED stream
       PROVE  OneClosing'
  <2>1. /\ UNCHANGED <<active, data_active, hooked>>
        /\ top'[t] \notin Closing
        /\ \A u \in Everyone \ {t} : top'[u] = top[u]
    BY <1>13, ReconnectThreadDoes
  <2> QED
    BY <2>1
<1>14. ASSUME NEW t \in Everyone, StreamStart(t)
       PROVE  OneClosing'
  BY <1>14, StreamStartDoes
<1>15. ASSUME NEW t \in Everyone, TryConnect(t)
       PROVE  OneClosing'
  BY <1>15, TryConnectDoes
<1>16. ASSUME NEW t \in Everyone, ConnectEnd(t)
       PROVE  OneClosing'
  BY <1>16, ConnectEndDoes
<1>17. ASSUME NEW t \in Everyone, SendExit(t)
       PROVE  OneClosing'
  BY <1>17, SendExitDoes
<1>18. ASSUME NEW t \in Everyone, Shutdown(t)
       PROVE  OneClosing'
  BY <1>18, ShutdownDoes
<1>19. ASSUME StreamStop, UNCHANGED output
       PROVE  OneClosing'
  BY <1>19, StreamStopDoes
<1>20. ASSUME NEW t \in Everyone, InitConnect(t), UNCHANGED output
       PROVE  OneClosing'
  BY <1>20, InitConnectDoes
<1>21. ASSUME NEW t \in Everyone, StreamActive(t), UNCHANGED output
       PROVE  OneClosing'
  BY <1>21, StreamActiveDoes
<1>22. ASSUME NEW t \in Everyone, Send(t), UNCHANGED output
       PROVE  OneClosing'
  BY <1>22, SendDoes
<1>23. ASSUME NEW t \in Everyone, SendDone(t), UNCHANGED output
       PROVE  OneClosing'
  BY <1>23, SendDoneDoes
<1>24. ASSUME Data
       PROVE  OneClosing'
  BY <1>24, DataDoes
<1>25. ASSUME UNCHANGED vars
       PROVE  OneClosing'
  BY <1>25, IdleDoes
<1> QED
  BY <1>1, <1>2, <1>3, <1>4, <1>5, <1>6, <1>7, <1>8, <1>9, <1>10, <1>11, <1>12, <1>13,
     <1>14, <1>15, <1>16, <1>17, <1>18, <1>19, <1>20, <1>21, <1>22, <1>23, <1>24, <1>25
     DEF Next, Frontend, Step, OutputStep, StreamStep, Everyone

\* The packets are hooked after the output is active, and unhooked before it is
\* no longer.
LEMMA HookedIsActiveKept ==
  ASSUME Stacked, OneClosing, HookedIsActive, [Next]_vars
  PROVE  HookedIsActive'
<1> USE DEF OneClosing, Closing, HookedIsActive
<1>1. ASSUME UserStart, UNCHANGED stream
      PROVE  HookedIsActive'
  BY <1>1, UserStartDoes
<1>2. ASSUME NEW forced \in BOOLEAN, UserStop(forced), UNCHANGED stream
      PROVE  HookedIsActive'
  BY <1>2, UserStopDoes
<1>3. ASSUME NEW t \in Everyone, ActualStart(t), UNCHANGED stream
      PROVE  HookedIsActive'
  BY <1>3, ActualStartDoes
<1>4. ASSUME NEW t \in Everyone, CanBegin(t), UNCHANGED stream
      PROVE  HookedIsActive'
  BY <1>4, CanBeginDoes
<1>5. ASSUME NEW t \in Everyone, NotStarted(t), UNCHANGED stream
      PROVE  HookedIsActive'
  BY <1>5, NotStartedDoes
<1>6. ASSUME Started, UNCHANGED stream
      PROVE  HookedIsActive'
  BY <1>6, StartedDoes
<1>7. ASSUME ActualStop, UNCHANGED stream
      PROVE  HookedIsActive'
  BY <1>7, ActualStopDoes
<1>8. ASSUME NEW t \in Everyone, BeginDataCapture(t), UNCHANGED stream
      PROVE  HookedIsActive'
  BY <1>8, BeginDoes
<1>9. ASSUME NEW t \in Everyone, EndDataCapture(t), UNCHANGED stream
      PROVE  HookedIsActive'
  BY <1>9, EndCaptureDoes
<1>10. ASSUME NEW t \in Everyone, EndThread(t), UNCHANGED stream
       PROVE  HookedIsActive'
  BY <1>10, EndThreadDoes
<1>11. ASSUME NEW t \in Everyone, NEW code \in Codes,
             SignalStopCode(t, code), UNCHANGED stream
       PROVE  HookedIsActive'
  BY <1>11, SignalStopDoes
<1>12. ASSUME NEW t \in Everyone, OutputReconnect(t), UNCHANGED stream
       PROVE  HookedIsActive'
  BY <1>12, ReconnectDoes
<1>13. ASSUME NEW t \in Everyone, ReconnectThread(t), UNCHANGED stream
       PROVE  HookedIsActive'
  BY <1>13, ReconnectThreadDoes
<1>14. ASSUME NEW t \in Everyone, StreamStart(t)
       PROVE  HookedIsActive'
  BY <1>14, StreamStartDoes
<1>15. ASSUME NEW t \in Everyone, TryConnect(t)
       PROVE  HookedIsActive'
  BY <1>15, TryConnectDoes
<1>16. ASSUME NEW t \in Everyone, ConnectEnd(t)
       PROVE  HookedIsActive'
  BY <1>16, ConnectEndDoes
<1>17. ASSUME NEW t \in Everyone, SendExit(t)
       PROVE  HookedIsActive'
  BY <1>17, SendExitDoes
<1>18. ASSUME NEW t \in Everyone, Shutdown(t)
       PROVE  HookedIsActive'
  BY <1>18, ShutdownDoes
<1>19. ASSUME StreamStop, UNCHANGED output
       PROVE  HookedIsActive'
  BY <1>19, StreamStopDoes
<1>20. ASSUME NEW t \in Everyone, InitConnect(t), UNCHANGED output
       PROVE  HookedIsActive'
  BY <1>20, InitConnectDoes
<1>21. ASSUME NEW t \in Everyone, StreamActive(t), UNCHANGED output
       PROVE  HookedIsActive'
  BY <1>21, StreamActiveDoes
<1>22. ASSUME NEW t \in Everyone, Send(t), UNCHANGED output
       PROVE  HookedIsActive'
  BY <1>22, SendDoes
<1>23. ASSUME NEW t \in Everyone, SendDone(t), UNCHANGED output
       PROVE  HookedIsActive'
  BY <1>23, SendDoneDoes
<1>24. ASSUME Data
       PROVE  HookedIsActive'
  BY <1>24, DataDoes
<1>25. ASSUME UNCHANGED vars
       PROVE  HookedIsActive'
  BY <1>25, IdleDoes
<1> QED
  BY <1>1, <1>2, <1>3, <1>4, <1>5, <1>6, <1>7, <1>8, <1>9, <1>10, <1>11, <1>12, <1>13,
     <1>14, <1>15, <1>16, <1>17, <1>18, <1>19, <1>20, <1>21, <1>22, <1>23, <1>24, <1>25
     DEF Next, Frontend, Step, OutputStep, StreamStep, Everyone

\* When no thread is busy the encoders are connected to active outputs only,
\* whatever the pace of the threads and the losses: end_data_capture_thread
\* disconnects them before active is cleared, and one begin_data_capture at
\* most connects them before it is set.
THEOREM OnlyActiveHooked == Spec => []HookedWhileActive
<1>1. Init => Stacked /\ OneClosing /\ HookedIsActive
  <2> SUFFICES ASSUME Init PROVE Stacked /\ OneClosing /\ HookedIsActive
    OBVIOUS
  <2>1. Stacked /\ ~hooked /\ \A t \in Everyone : top[t] = "idle"
    BY TypeAtFirst, AtTop DEF Init, OutputInit, Everyone, Finished, Stacked
  <2> QED
    BY <2>1 DEF OneClosing, HookedIsActive, Closing
<1>2. Stacked /\ OneClosing /\ HookedIsActive /\ [Next]_vars
        => Stacked' /\ OneClosing' /\ HookedIsActive'
  BY StackedKept, OneClosingKept, HookedIsActiveKept
<1>3. Stacked /\ HookedIsActive => HookedWhileActive
  <2> SUFFICES ASSUME Stacked, HookedIsActive, \A t \in DOMAIN pc : ~Busy(t), hooked
               PROVE  active
    BY DEF HookedWhileActive
  <2>1. SUFFICES ASSUME NEW t \in Everyone, top[t] = "activate" PROVE FALSE
    BY DEF HookedIsActive
  <2>2. t \in DOMAIN pc
    BY DEF Stacked, StacksOK
  <2> QED
    BY <2>1, <2>2, AtTop DEF Stacked, Waits
<1> QED
  BY <1>1, <1>2, <1>3, PTL DEF Spec

-----------------------------------------------------------------------------
(* Connections are made one at a time.                                     *)

Linking == {"stream_active", "send_meta_data", "begin_data_capture", "activate"}

\* With prompt threads one thread at most is past try_connect and not active.
OneLink ==
    Prompt => \A t, u \in Everyone : top[t] \in Linking /\ top[u] \in Linking => t = u

\* A connection is made when the output before it has ended.
LEMMA OneLinkKept ==
  ASSUME Stacked, OneLink, [Next]_vars
  PROVE  OneLink'
<1> USE DEF OneLink, Linking
<1>1. ASSUME UserStart, UNCHANGED stream
      PROVE  OneLink'
  BY <1>1, UserStartDoes
<1>2. ASSUME NEW forced \in BOOLEAN, UserStop(forced), UNCHANGED stream
      PROVE  OneLink'
  BY <1>2, UserStopDoes
<1>3. ASSUME NEW t \in Everyone, ActualStart(t), UNCHANGED stream
      PROVE  OneLink'
  BY <1>3, ActualStartDoes
<1>4. ASSUME NEW t \in Everyone, CanBegin(t), UNCHANGED stream
      PROVE  OneLink'
  BY <1>4, CanBeginDoes
<1>5. ASSUME NEW t \in Everyone, NotStarted(t), UNCHANGED stream
      PROVE  OneLink'
  BY <1>5, NotStartedDoes
<1>6. ASSUME Started, UNCHANGED stream
      PROVE  OneLink'
  BY <1>6, StartedDoes
<1>7. ASSUME ActualStop, UNCHANGED stream
      PROVE  OneLink'
  BY <1>7, ActualStopDoes
<1>8. ASSUME NEW t \in Everyone, BeginDataCapture(t), UNCHANGED stream
      PROVE  OneLink'
  BY <1>8, BeginDoes
<1>9. ASSUME NEW t \in Everyone, EndDataCapture(t), UNCHANGED stream
      PROVE  OneLink'
  BY <1>9, EndCaptureDoes
<1>10. ASSUME NEW t \in Everyone, EndThread(t), UNCHANGED stream
       PROVE  OneLink'
  BY <1>10, EndThreadDoes
<1>11. ASSUME NEW t \in Everyone, NEW code \in Codes,
             SignalStopCode(t, code), UNCHANGED stream
       PROVE  OneLink'
  BY <1>11, SignalStopDoes
<1>12. ASSUME NEW t \in Everyone, OutputReconnect(t), UNCHANGED stream
       PROVE  OneLink'
  BY <1>12, ReconnectDoes
<1>13. ASSUME NEW t \in Everyone, ReconnectThread(t), UNCHANGED stream
       PROVE  OneLink'
  BY <1>13, ReconnectThreadDoes
<1>14. ASSUME NEW t \in Everyone, StreamStart(t)
       PROVE  OneLink'
  BY <1>14, StreamStartDoes
<1>15. ASSUME NEW t \in Everyone, TryConnect(t)
       PROVE  OneLink'
  <2>1. Prompt => \A u \in Everyone \ {t} : top[u] \notin Linking
    BY <1>15, AtTop DEF TryConnect, After, Linking, Waits, Stacked, StacksOK
  <2> QED
    BY <1>15, <2>1, TryConnectDoes
<1>16. ASSUME NEW t \in Everyone, ConnectEnd(t)
       PROVE  OneLink'
  BY <1>16, ConnectEndDoes
<1>17. ASSUME NEW t \in Everyone, SendExit(t)
       PROVE  OneLink'
  BY <1>17, SendExitDoes
<1>18. ASSUME NEW t \in Everyone, Shutdown(t)
       PROVE  OneLink'
  BY <1>18, ShutdownDoes
<1>19. ASSUME StreamStop, UNCHANGED output
       PROVE  OneLink'
  BY <1>19, StreamStopDoes
<1>20. ASSUME NEW t \in Everyone, InitConnect(t), UNCHANGED output
       PROVE  OneLink'
  BY <1>20, InitConnectDoes
<1>21. ASSUME NEW t \in Everyone, StreamActive(t), UNCHANGED output
       PROVE  OneLink'
  BY <1>21, StreamActiveDoes
<1>22. ASSUME NEW t \in Everyone, Send(t), UNCHANGED output
       PROVE  OneLink'
  BY <1>22, SendDoes
<1>23. ASSUME NEW t \in Everyone, SendDone(t), UNCHANGED output
       PROVE  OneLink'
  BY <1>23, SendDoneDoes
<1>24. ASSUME Data
       PROVE  OneLink'
  BY <1>24, DataDoes
<1>25. ASSUME UNCHANGED vars
       PROVE  OneLink'
  BY <1>25, IdleDoes
<1> QED
  BY <1>1, <1>2, <1>3, <1>4, <1>5, <1>6, <1>7, <1>8, <1>9, <1>10, <1>11, <1>12, <1>13,
     <1>14, <1>15, <1>16, <1>17, <1>18, <1>19, <1>20, <1>21, <1>22, <1>23, <1>24, <1>25
     DEF Next, Frontend, Step, OutputStep, StreamStep, Everyone

\* With prompt threads the encoders are connected to an output once at most,
\* whatever is lost, stopped and started again: obs_output_begin_data_capture
\* tests active before it sets it, but a second connection takes longer.
THEOREM HookedAtMostOnce == Prompt => (Spec => []HookedOnce)
<1> SUFFICES ASSUME Prompt PROVE Spec => []HookedOnce
  OBVIOUS
<1>1. Init => Stacked /\ OneClosing /\ HookedIsActive /\ OneLink
  <2> SUFFICES ASSUME Init PROVE Stacked /\ OneClosing /\ HookedIsActive /\ OneLink
    OBVIOUS
  <2>1. Stacked /\ ~hooked /\ \A t \in Everyone : top[t] = "idle"
    BY TypeAtFirst, AtTop DEF Init, OutputInit, Everyone, Finished, Stacked
  <2> QED
    BY <2>1 DEF OneClosing, HookedIsActive, Closing, OneLink, Linking
<1>2. Stacked /\ OneClosing /\ HookedIsActive /\ OneLink /\ [Next]_vars
        => Stacked' /\ OneClosing' /\ HookedIsActive' /\ OneLink'
  BY StackedKept, OneClosingKept, HookedIsActiveKept, OneLinkKept
<1>3. Stacked /\ HookedIsActive /\ OneLink => HookedOnce
  <2> SUFFICES ASSUME Stacked, HookedIsActive, OneLink,
                      NEW t \in Threads, At(t, "begin_data_capture"), ~active, hooked
               PROVE  FALSE
    BY DEF HookedOnce
  <2>1. top[t] = "begin_data_capture" /\ t \in Everyone
    BY AtLabel, LabelsListed DEF Stacked, Everyone
  <2>2. PICK u \in Everyone : top[u] = "activate"
    BY DEF HookedIsActive
  <2> QED
    BY <2>1, <2>2 DEF OneLink, Linking
<1> QED
  BY <1>1, <1>2, <1>3, PTL DEF Spec

-----------------------------------------------------------------------------
(* A stream that nobody stops.                                             *)

Undisturbed == Prompt /\ StopsPerStart = 0

\* Nobody is on the way of a stop.
Stopping == {"actual_stop", "cancel_reconnect", "join_reconnect", "stream_stop",
             "join_connect", "stop_sending", "raise_stop", "post_stop",
             "signal_success"}
NoStops ==
    /\ \A t \in Everyone : top[t] \notin Stopping
    /\ ~stop_event
    /\ ~reconnect_stop_event

\* connect_thread runs on the connect threads.
Connecting ==
    \A t \in Everyone : top[t] \in {"init_connect", "try_connect", "signal_start"} \cup Linking
                          => t \in {"connect"} \X {0, 1}

\* The labels of a start before it connects, after it, and of its failure.
Waiting == {"reconnect", "timed_wait"}
Opening == {"actual_start", "can_begin", "join_end", "stream_start"}
Trying == {"init_connect", "try_connect"}
Leaving == {"send_exit", "signal_failed", "signal_lost", "suspend_capture", "output_reconnect"}
Retrying == {"reset_stop", "retry"}
Answering == {"end_capture", "end_thread", "signal_stop"}
Carrying == Waiting \cup Opening \cup Trying \cup Linking \cup {"signal_start"}
              \cup Leaving \cup Retrying \cup Answering

\* One thread at most is on the way of a connection or of its end.
OneCarries ==
    \A t, u \in Everyone : top[t] \in Carrying /\ top[u] \in Carrying => t = u

\* The encoders' packets reach the send threads.
Live == hooked /\ ~disconnected

\* Only then is a send thread woken, and by one packet at a time.
WokenByPackets ==
    /\ send_sem <= 1
    /\ send_sem = 1 => packet /\ Live

\* While a thread carries the stream no send thread is or will be woken.
SendersSleep ==
    /\ \A t \in Everyone : top[t] \in Carrying => send_sem = 0
    /\ \A t \in Everyone : top[t] \in Carrying /\ Live => top[t] \in {"activate", "signal_start"}
    /\ \A t \in Everyone : top[t] \in Closing => ~Live
    /\ \A t \in Everyone : top[t] \in {"reset_stop_event", "send_done"} =>
         /\ ~Live
         /\ \A u \in Everyone : top[u] \in Carrying => top[u] \in Waiting

\* A stream is connected once the output before it is no longer active.
ConnectsInactive ==
    /\ \A t \in Everyone :
         top[t] \in ({"join_end", "stream_start"} \cup Trying \cup Linking) \ {"activate"}
           => ~active /\ ~hooked
    /\ top[ui] \in Opening => ~active
    /\ top[ui] \notin Waiting \cup {"not_started"}

\* Whoever waits to connect does it for a start or a reconnect.
KnownStart ==
    \A t \in Everyone :
      /\ top[t] \in Opening \cup Trying => reconnecting \/ streamingStarting
      /\ top[t] \in Waiting \cup Retrying => reconnecting

\* A stream that connects, sends or ends still owes its answer.
AnswerOwed ==
    /\ \A t \in Everyone : top[t] \in Carrying => answers < starts
    /\ Live => answers < starts
    /\ answers <= starts

\* The retries of the current loss: none if the output does not reconnect.
Tries == IF reconnecting THEN reconnect_retries ELSE 0

\* Each retry pays for one connection after the first.
TriesCounted ==
    /\ reconnect_retries <= RetryMax
    /\ attempts <= RetryMax + 1
    /\ Live /\ (\A t \in Everyone : top[t] \notin Carrying) => attempts = 0 /\ ~reconnecting
    /\ \A t \in Everyone :
         /\ top[t] \in Waiting \cup Opening \cup Trying => attempts <= Tries
         /\ top[t] \in Linking \cup {"signal_start"} \cup Leaving => attempts <= Tries + 1
         /\ top[t] = "end_thread" /\ mid[t] = "output_reconnect" => attempts <= Tries + 1
         /\ top[t] \in Retrying => attempts <= reconnect_retries + 1 /\ reconnect_retries < RetryMax

Calm ==
    /\ NoStops /\ Connecting /\ OneCarries /\ WokenByPackets /\ SendersSleep
    /\ ConnectsInactive /\ KnownStart /\ AnswerOwed /\ TriesCounted

\* The frontend does not stop the stream.
LEMMA NobodyStops ==
  ASSUME Stacked, Undisturbed, NEW forced \in BOOLEAN
  PROVE  ~UserStop(forced)
  BY BoundsAssumption DEF Stacked, NumbersTyped, Undisturbed, UserStop

\* The end of a capture tells the frontend at most once, and then its thread
\* rests.
LEMMA EndCaptureAnswers ==
  ASSUME Stacked, NEW t \in Everyone, EndDataCapture(t)
  PROVE  answers' = answers \/ (answers' = answers + 1 /\ top'[t] \in Rest)
<1>1. ASSUME top[t] = "suspend_capture" PROVE answers' = answers
  BY <1>1, EndCaptureDoes
<1>2. ASSUME top[t] = "end_thread" PROVE answers' = answers
  BY <1>2, EndCaptureDoes
<1>3. ASSUME top[t] = "end_capture", active /\ data_active PROVE answers' = answers
  BY <1>3, EndCaptureDoes
<1>4. ASSUME top[t] = "end_capture", ~(active /\ data_active)
      PROVE  answers' = answers + 1 /\ top'[t] \in Rest
  BY <1>4, EndCaptureDoes DEF SignalsStop
<1>5. ASSUME top[t] = "signal_stop" PROVE answers' = answers + 1 /\ top'[t] \in Rest
  BY <1>5, EndCaptureDoes DEF SignalsStop
<1>6. top[t] \in {"suspend_capture", "end_thread", "end_capture", "signal_stop"}
  BY EndCaptureDoes
<1> QED
  BY <1>1, <1>2, <1>3, <1>4, <1>5, <1>6

\* So no step of a stop is taken.
LEMMA NoStopRuns ==
  ASSUME Stacked, Calm
  PROVE  ~ActualStop /\ ~StreamStop
<1>1. top[ui] \notin Stopping
  BY DEF Calm, NoStops
<1> QED
  BY <1>1, ActualStopDoes, StreamStopDoes DEF Stopping

\* What a thread does that another one waits for is done.
LEMMA OthersRest ==
  ASSUME StacksOK, Prompt, NEW us, After(us), NEW u \in Everyone, u \in us
  PROVE  top[u] \in Waits \cup {"idle"}
  BY AtTop DEF After

\* When the frontend starts the output nothing of the stream before is left to
\* do.
LEMMA NobodyCarries ==
  ASSUME Stacked, Undisturbed, OneClosing, HookedIsActive, Calm, UserStart
  PROVE  /\ \A u \in Everyone : top[u] \notin Carrying \cup {"reset_stop_event", "send_done"}
         /\ ~Live
         /\ send_sem = 0
<1>1. top[ui] = "idle"
  BY AtTop, UiIsThere DEF UserStart, Stacked
<1>2. \A u \in Everyone : top[u] \in Waits \cup {"idle"}
  BY <1>1, OthersRest DEF UserStart, Undisturbed, Stacked, Everyone
<1>3. ~active /\ ~reconnecting /\ ~streamingStarting
  BY DEF UserStart
<1>4. ASSUME NEW u \in Everyone
      PROVE  top[u] \notin Carrying \cup {"reset_stop_event", "send_done", "activate"}
  <2>1. top[u] \notin Opening \cup Trying \cup Waiting \cup Closing
    BY <1>3 DEF Calm, KnownStart, OneClosing
  <2> QED
    BY <1>2, <2>1 DEF Waits, Carrying, Waiting, Opening, Trying, Linking, Leaving, Retrying,
                      Answering, Closing
<1>5. ~Live
  BY <1>3, <1>4 DEF HookedIsActive, Live
<1> QED
  BY <1>4, <1>5 DEF Calm, WokenByPackets, Stacked, NumbersTyped

\* A send thread wakes for a packet of a stream that is connected.
LEMMA SendWoken ==
  ASSUME Stacked, Calm, send_sem > 0
  PROVE  /\ send_sem = 1 /\ packet /\ Live
         /\ \A u \in Everyone : top[u] \notin Carrying \cup {"reset_stop_event", "send_done"}
  BY DEF Stacked, NumbersTyped, Calm, WokenByPackets, SendersSleep

\* A packet arrives while no thread is on the way of a connection.
LEMMA DataAlone ==
  ASSUME Stacked, Undisturbed, Calm, Data
  PROVE  /\ send_sem = 0 /\ Live
         /\ \A u \in Everyone : top[u] \notin Carrying
<1>1. Live /\ ~packet
  BY DEF Data, Live
<1>2. send_sem = 0
  BY <1>1 DEF Stacked, NumbersTyped, Calm, WokenByPackets
<1>3. ASSUME NEW u \in Everyone, top[u] \in Carrying
      PROVE  FALSE
  <2>1. top[u] \in {"activate", "signal_start"}
    BY <1>1, <1>3 DEF Calm, SendersSleep
  <2>2. u \in {"connect"} \X {0, 1}
    BY <2>1 DEF Calm, Connecting, Linking
  <2> QED
    BY <2>1, <2>2, OthersRest DEF Data, Undisturbed, Stacked, Waits
<1> QED
  BY <1>1, <1>2, <1>3

\* The wait before a retry is long enough for all others to rest.
LEMMA WaitsAlone ==
  ASSUME Stacked, Prompt, NEW t, After(DOMAIN pc \ {t}), NEW u \in Everyone \ {t}
  PROVE  top[u] \in Waits \cup {"idle"}
<1>1. u \in DOMAIN pc \ {t}
  BY DEF Stacked, StacksOK
<1> QED
  BY <1>1, OthersRest DEF Stacked

\* Nobody is on the way of a stop.
LEMMA NoStopsKept ==
  ASSUME Stacked, Undisturbed, OneClosing, HookedIsActive, Calm, [Next]_vars
  PROVE  NoStops'
<1> USE DEF Calm, NoStops, Stopping
<1>1. ASSUME UserStart, UNCHANGED stream
      PROVE  NoStops'
  BY <1>1, UserStartDoes, NobodyCarries
<1>2. ASSUME NEW forced \in BOOLEAN, UserStop(forced), UNCHANGED stream
      PROVE  NoStops'
  BY <1>2, NobodyStops
<1>3. ASSUME NEW t \in Everyone, ActualStart(t), UNCHANGED stream
      PROVE  NoStops'
  BY <1>3, ActualStartDoes
<1>4. ASSUME NEW t \in Everyone, CanBegin(t), UNCHANGED stream
      PROVE  NoStops'
  BY <1>4, CanBeginDoes
<1>5. ASSUME NEW t \in Everyone, NotStarted(t), UNCHANGED stream
      PROVE  NoStops'
  BY <1>5, NotStartedDoes
<1>6. ASSUME Started, UNCHANGED stream
      PROVE  NoStops'
  BY <1>6, StartedDoes
<1>7. ASSUME ActualStop, UNCHANGED stream
      PROVE  NoStops'
  BY <1>7, NoStopRuns
<1>8. ASSUME NEW t \in Everyone, BeginDataCapture(t), UNCHANGED stream
      PROVE  NoStops'
  BY <1>8, BeginDoes
<1>9. ASSUME NEW t \in Everyone, EndDataCapture(t), UNCHANGED stream
      PROVE  NoStops'
  BY <1>9, EndCaptureDoes
<1>10. ASSUME NEW t \in Everyone, EndThread(t), UNCHANGED stream
       PROVE  NoStops'
  BY <1>10, EndThreadDoes
<1>11. ASSUME NEW t \in Everyone, NEW code \in Codes,
             SignalStopCode(t, code), UNCHANGED stream
       PROVE  NoStops'
  BY <1>11, SignalStopDoes
<1>12. ASSUME NEW t \in Everyone, OutputReconnect(t), UNCHANGED stream
       PROVE  NoStops'
  BY <1>12, ReconnectDoes
<1>13. ASSUME NEW t \in Everyone, ReconnectThread(t), UNCHANGED stream
       PROVE  NoStops'
  BY <1>13, ReconnectThreadDoes
<1>14. ASSUME NEW t \in Everyone, StreamStart(t)
       PROVE  NoStops'
  BY <1>14, StreamStartDoes
<1>15. ASSUME NEW t \in Everyone, TryConnect(t)
       PROVE  NoStops'
  BY <1>15, TryConnectDoes
<1>16. ASSUME NEW t \in Everyone, ConnectEnd(t)
       PROVE  NoStops'
  BY <1>16, ConnectEndDoes
<1>17. ASSUME NEW t \in Everyone, SendExit(t)
       PROVE  NoStops'
  BY <1>17, SendExitDoes
<1>18. ASSUME NEW t \in Everyone, Shutdown(t)
       PROVE  NoStops'
  <2>1. /\ send_sem = 1 /\ packet /\ Live
        /\ \A u \in Everyone : top[u] \notin Carrying \cup {"reset_stop_event", "send_done"}
    BY <1>18, ShutdownDoes, SendWoken
  <2> QED
    BY <1>18, <2>1, ShutdownDoes
<1>19. ASSUME StreamStop, UNCHANGED output
       PROVE  NoStops'
  BY <1>19, NoStopRuns
<1>20. ASSUME NEW t \in Everyone, InitConnect(t), UNCHANGED output
       PROVE  NoStops'
  BY <1>20, InitConnectDoes
<1>21. ASSUME NEW t \in Everyone, StreamActive(t), UNCHANGED output
       PROVE  NoStops'
  BY <1>21, StreamActiveDoes
<1>22. ASSUME NEW t \in Everyone, Send(t), UNCHANGED output
       PROVE  NoStops'
  <2>1. /\ send_sem = 1 /\ packet /\ Live
        /\ \A u \in Everyone : top[u] \notin Carrying \cup {"reset_stop_event", "send_done"}
    BY <1>22, SendDoes, SendWoken
  <2> QED
    BY <1>22, <2>1, SendDoes
<1>23. ASSUME NEW t \in Everyone, SendDone(t), UNCHANGED output
       PROVE  NoStops'
  BY <1>23, SendDoneDoes
<1>24. ASSUME Data
       PROVE  NoStops'
  BY <1>24, DataDoes, DataAlone
<1>25. ASSUME UNCHANGED vars
       PROVE  NoStops'
  BY <1>25, IdleDoes
<1> QED
  BY <1>1, <1>2, <1>3, <1>4, <1>5, <1>6, <1>7, <1>8, <1>9, <1>10, <1>11, <1>12, <1>13,
     <1>14, <1>15, <1>16, <1>17, <1>18, <1>19, <1>20, <1>21, <1>22, <1>23, <1>24, <1>25
     DEF Next, Frontend, Step, OutputStep, StreamStep, Everyone

\* Only connect threads connect.
LEMMA ConnectingKept ==
  ASSUME Stacked, Undisturbed, OneClosing, HookedIsActive, Calm, [Next]_vars
  PROVE  Connecting'
<1> USE DEF Calm, Connecting, Linking
<1>1. ASSUME UserStart, UNCHANGED stream
      PROVE  Connecting'
  BY <1>1, UserStartDoes, NobodyCarries
<1>2. ASSUME NEW forced \in BOOLEAN, UserStop(forced), UNCHANGED stream
      PROVE  Connecting'
  BY <1>2, NobodyStops
<1>3. ASSUME NEW t \in Everyone, ActualStart(t), UNCHANGED stream
      PROVE  Connecting'
  BY <1>3, ActualStartDoes
<1>4. ASSUME NEW t \in Everyone, CanBegin(t), UNCHANGED stream
      PROVE  Connecting'
  BY <1>4, CanBeginDoes
<1>5. ASSUME NEW t \in Everyone, NotStarted(t), UNCHANGED stream
      PROVE  Connecting'
  BY <1>5, NotStartedDoes
<1>6. ASSUME Started, UNCHANGED stream
      PROVE  Connecting'
  BY <1>6, StartedDoes
<1>7. ASSUME ActualStop, UNCHANGED stream
      PROVE  Connecting'
  BY <1>7, NoStopRuns
<1>8. ASSUME NEW t \in Everyone, BeginDataCapture(t), UNCHANGED stream
      PROVE  Connecting'
  BY <1>8, BeginDoes
<1>9. ASSUME NEW t \in Everyone, EndDataCapture(t), UNCHANGED stream
      PROVE  Connecting'
  BY <1>9, EndCaptureDoes
<1>10. ASSUME NEW t \in Everyone, EndThread(t), UNCHANGED stream
       PROVE  Connecting'
  BY <1>10, EndThreadDoes
<1>11. ASSUME NEW t \in Everyone, NEW code \in Codes,
             SignalStopCode(t, code), UNCHANGED stream
       PROVE  Connecting'
  BY <1>11, SignalStopDoes
<1>12. ASSUME NEW t \in Everyone, OutputReconnect(t), UNCHANGED stream
       PROVE  Connecting'
  BY <1>12, ReconnectDoes
<1>13. ASSUME NEW t \in Everyone, ReconnectThread(t), UNCHANGED stream
       PROVE  Connecting'
  BY <1>13, ReconnectThreadDoes
<1>14. ASSUME NEW t \in Everyone, StreamStart(t)
       PROVE  Connecting'
  <2>1. New("connect") \in {"connect"} \X {0, 1}
    BY DEF New, Stacked, NumbersTyped, Kinds
  <2> QED
    BY <1>14, <2>1, StreamStartDoes
<1>15. ASSUME NEW t \in Everyone, TryConnect(t)
       PROVE  Connecting'
  BY <1>15, TryConnectDoes
<1>16. ASSUME NEW t \in Everyone, ConnectEnd(t)
       PROVE  Connecting'
  BY <1>16, ConnectEndDoes
<1>17. ASSUME NEW t \in Everyone, SendExit(t)
       PROVE  Connecting'
  BY <1>17, SendExitDoes
<1>18. ASSUME NEW t \in Everyone, Shutdown(t)
       PROVE  Connecting'
  <2>1. /\ send_sem = 1 /\ packet /\ Live
        /\ \A u \in Everyone : top[u] \notin Carrying \cup {"reset_stop_event", "send_done"}
    BY <1>18, ShutdownDoes, SendWoken
  <2> QED
    BY <1>18, <2>1, ShutdownDoes
<1>19. ASSUME StreamStop, UNCHANGED output
       PROVE  Connecting'
  BY <1>19, NoStopRuns
<1>20. ASSUME NEW t \in Everyone, InitConnect(t), UNCHANGED output
       PROVE  Connecting'
  BY <1>20, InitConnectDoes
<1>21. ASSUME NEW t \in Everyone, StreamActive(t), UNCHANGED output
       PROVE  Connecting'
  BY <1>21, StreamActiveDoes
<1>22. ASSUME NEW t \in Everyone, Send(t), UNCHANGED output
       PROVE  Connecting'
  <2>1. /\ send_sem = 1 /\ packet /\ Live
        /\ \A u \in Everyone : top[u] \notin Carrying \cup {"reset_stop_event", "send_done"}
    BY <1>22, SendDoes, SendWoken
  <2> QED
    BY <1>22, <2>1, SendDoes
<1>23. ASSUME NEW t \in Everyone, SendDone(t), UNCHANGED output
       PROVE  Connecting'
  BY <1>23, SendDoneDoes
<1>24. ASSUME Data
       PROVE  Connecting'
  BY <1>24, DataDoes, DataAlone
<1>25. ASSUME UNCHANGED vars
       PROVE  Connecting'
  BY <1>25, IdleDoes
<1> QED
  BY <1>1, <1>2, <1>3, <1>4, <1>5, <1>6, <1>7, <1>8, <1>9, <1>10, <1>11, <1>12, <1>13,
     <1>14, <1>15, <1>16, <1>17, <1>18, <1>19, <1>20, <1>21, <1>22, <1>23, <1>24, <1>25
     DEF Next, Frontend, Step, OutputStep, StreamStep, Everyone

\* A thread that carries the stream hands it to one other at most.
LEMMA OneCarriesKept ==
  ASSUME Stacked, Undisturbed, OneClosing, HookedIsActive, Calm, [Next]_vars
  PROVE  OneCarries'
<1> USE DEF Calm, OneCarries, NoStops, Stopping, SendersSleep, Carrying, Waiting, Opening,
        Trying, Linking, Leaving, Retrying, Answering
<1>1. ASSUME UserStart, UNCHANGED stream
      PROVE  OneCarries'
  BY <1>1, UserStartDoes, NobodyCarries
<1>2. ASSUME NEW forced \in BOOLEAN, UserStop(forced), UNCHANGED stream
      PROVE  OneCarries'
  BY <1>2, NobodyStops
<1>3. ASSUME NEW t \in Everyone, ActualStart(t), UNCHANGED stream
      PROVE  OneCarries'
  BY <1>3, ActualStartDoes
<1>4. ASSUME NEW t \in Everyone, CanBegin(t), UNCHANGED stream
      PROVE  OneCarries'
  BY <1>4, CanBeginDoes
<1>5. ASSUME NEW t \in Everyone, NotStarted(t), UNCHANGED stream
      PROVE  OneCarries'
  BY <1>5, NotStartedDoes
<1>6. ASSUME Started, UNCHANGED stream
      PROVE  OneCarries'
  BY <1>6, StartedDoes
<1>7. ASSUME ActualStop, UNCHANGED stream
      PROVE  OneCarries'
  BY <1>7, NoStopRuns
<1>8. ASSUME NEW t \in Everyone, BeginDataCapture(t), UNCHANGED stream
      PROVE  OneCarries'
  BY <1>8, BeginDoes
<1>9. ASSUME NEW t \in Everyone, EndDataCapture(t), UNCHANGED stream
      PROVE  OneCarries'
  BY <1>9, EndCaptureDoes
<1>10. ASSUME NEW t \in Everyone, EndThread(t), UNCHANGED stream
       PROVE  OneCarries'
  BY <1>10, EndThreadDoes
<1>11. ASSUME NEW t \in Everyone, NEW code \in Codes,
             SignalStopCode(t, code), UNCHANGED stream
       PROVE  OneCarries'
  BY <1>11, SignalStopDoes
<1>12. ASSUME NEW t \in Everyone, OutputReconnect(t), UNCHANGED stream
       PROVE  OneCarries'
  BY <1>12, ReconnectDoes
<1>13. ASSUME NEW t \in Everyone, ReconnectThread(t), UNCHANGED stream
       PROVE  OneCarries'
  <2>1. /\ \/ Goes(t, "reconnect", "timed_wait")
           \/ Goes(t, "timed_wait", "actual_start")
           \/ Goes(t, "reconnect_end", "reconnect_done")
           \/ Goes(t, "reconnect_done", "idle")
    BY <1>13, ReconnectThreadDoes DEF Calm, NoStops
  <2> QED
    BY <2>1
<1>14. ASSUME NEW t \in Everyone, StreamStart(t)
       PROVE  OneCarries'
  BY <1>14, StreamStartDoes
<1>15. ASSUME NEW t \in Everyone, TryConnect(t)
       PROVE  OneCarries'
  BY <1>15, TryConnectDoes
<1>16. ASSUME NEW t \in Everyone, ConnectEnd(t)
       PROVE  OneCarries'
  BY <1>16, ConnectEndDoes
<1>17. ASSUME NEW t \in Everyone, SendExit(t)
       PROVE  OneCarries'
  BY <1>17, SendExitDoes
<1>18. ASSUME NEW t \in Everyone, Shutdown(t)
       PROVE  OneCarries'
  <2>1. /\ send_sem = 1 /\ packet /\ Live
        /\ \A u \in Everyone : top[u] \notin Carrying \cup {"reset_stop_event", "send_done"}
    BY <1>18, ShutdownDoes, SendWoken
  <2> QED
    BY <1>18, <2>1, ShutdownDoes
<1>19. ASSUME StreamStop, UNCHANGED output
       PROVE  OneCarries'
  BY <1>19, NoStopRuns
<1>20. ASSUME NEW t \in Everyone, InitConnect(t), UNCHANGED output
       PROVE  OneCarries'
  BY <1>20, InitConnectDoes
<1>21. ASSUME NEW t \in Everyone, StreamActive(t), UNCHANGED output
       PROVE  OneCarries'
  BY <1>21, StreamActiveDoes
<1>22. ASSUME NEW t \in Everyone, Send(t), UNCHANGED output
       PROVE  OneCarries'
  <2>1. /\ send_sem = 1 /\ packet /\ Live
        /\ \A u \in Everyone : top[u] \notin Carrying \cup {"reset_stop_event", "send_done"}
    BY <1>22, SendDoes, SendWoken
  <2> QED
    BY <1>22, <2>1, SendDoes
<1>23. ASSUME NEW t \in Everyone, SendDone(t), UNCHANGED output
       PROVE  OneCarries'
  BY <1>23, SendDoneDoes
<1>24. ASSUME Data
       PROVE  OneCarries'
  BY <1>24, DataDoes, DataAlone
<1>25. ASSUME UNCHANGED vars
       PROVE  OneCarries'
  BY <1>25, IdleDoes
<1> QED
  BY <1>1, <1>2, <1>3, <1>4, <1>5, <1>6, <1>7, <1>8, <1>9, <1>10, <1>11, <1>12, <1>13,
     <1>14, <1>15, <1>16, <1>17, <1>18, <1>19, <1>20, <1>21, <1>22, <1>23, <1>24, <1>25
     DEF Next, Frontend, Step, OutputStep, StreamStep, Everyone

\* The send threads are woken by packets alone.
LEMMA WokenByPacketsKept ==
  ASSUME Stacked, Undisturbed, OneClosing, HookedIsActive, Calm, [Next]_vars
  PROVE  WokenByPackets'
<1> USE DEF Calm, WokenByPackets, NoStops, Stopping, SendersSleep, Closing, Live, Carrying,
        Waiting, Opening, Trying, Linking, Leaving, Retrying, Answering
<1>1. ASSUME UserStart, UNCHANGED stream
      PROVE  WokenByPackets'
  BY <1>1, UserStartDoes, NobodyCarries
<1>2. ASSUME NEW forced \in BOOLEAN, UserStop(forced), UNCHANGED stream
      PROVE  WokenByPackets'
  BY <1>2, NobodyStops
<1>3. ASSUME NEW t \in Everyone, ActualStart(t), UNCHANGED stream
      PROVE  WokenByPackets'
  BY <1>3, ActualStartDoes
<1>4. ASSUME NEW t \in Everyone, CanBegin(t), UNCHANGED stream
      PROVE  WokenByPackets'
  BY <1>4, CanBeginDoes
<1>5. ASSUME NEW t \in Everyone, NotStarted(t), UNCHANGED stream
      PROVE  WokenByPackets'
  BY <1>5, NotStartedDoes
<1>6. ASSUME Started, UNCHANGED stream
      PROVE  WokenByPackets'
  BY <1>6, StartedDoes
<1>7. ASSUME ActualStop, UNCHANGED stream
      PROVE  WokenByPackets'
  BY <1>7, NoStopRuns
<1>8. ASSUME NEW t \in Everyone, BeginDataCapture(t), UNCHANGED stream
      PROVE  WokenByPackets'
  BY <1>8, BeginDoes
<1>9. ASSUME NEW t \in Everyone, EndDataCapture(t), UNCHANGED stream
      PROVE  WokenByPackets'
  BY <1>9, EndCaptureDoes
<1>10. ASSUME NEW t \in Everyone, EndThread(t), UNCHANGED stream
       PROVE  WokenByPackets'
  BY <1>10, EndThreadDoes
<1>11. ASSUME NEW t \in Everyone, NEW code \in Codes,
             SignalStopCode(t, code), UNCHANGED stream
       PROVE  WokenByPackets'
  BY <1>11, SignalStopDoes
<1>12. ASSUME NEW t \in Everyone, OutputReconnect(t), UNCHANGED stream
       PROVE  WokenByPackets'
  BY <1>12, ReconnectDoes
<1>13. ASSUME NEW t \in Everyone, ReconnectThread(t), UNCHANGED stream
       PROVE  WokenByPackets'
  BY <1>13, ReconnectThreadDoes
<1>14. ASSUME NEW t \in Everyone, StreamStart(t)
       PROVE  WokenByPackets'
  BY <1>14, StreamStartDoes
<1>15. ASSUME NEW t \in Everyone, TryConnect(t)
       PROVE  WokenByPackets'
  BY <1>15, TryConnectDoes
<1>16. ASSUME NEW t \in Everyone, ConnectEnd(t)
       PROVE  WokenByPackets'
  BY <1>16, ConnectEndDoes
<1>17. ASSUME NEW t \in Everyone, SendExit(t)
       PROVE  WokenByPackets'
  BY <1>17, SendExitDoes
<1>18. ASSUME NEW t \in Everyone, Shutdown(t)
       PROVE  WokenByPackets'
  <2>1. /\ send_sem = 1 /\ packet /\ Live
        /\ \A u \in Everyone : top[u] \notin Carrying \cup {"reset_stop_event", "send_done"}
    BY <1>18, ShutdownDoes, SendWoken
  <2> QED
    BY <1>18, <2>1, ShutdownDoes
<1>19. ASSUME StreamStop, UNCHANGED output
       PROVE  WokenByPackets'
  BY <1>19, NoStopRuns
<1>20. ASSUME NEW t \in Everyone, InitConnect(t), UNCHANGED output
       PROVE  WokenByPackets'
  BY <1>20, InitConnectDoes
<1>21. ASSUME NEW t \in Everyone, StreamActive(t), UNCHANGED output
       PROVE  WokenByPackets'
  BY <1>21, StreamActiveDoes
<1>22. ASSUME NEW t \in Everyone, Send(t), UNCHANGED output
       PROVE  WokenByPackets'
  <2>1. /\ send_sem = 1 /\ packet /\ Live
        /\ \A u \in Everyone : top[u] \notin Carrying \cup {"reset_stop_event", "send_done"}
    BY <1>22, SendDoes, SendWoken
  <2> QED
    BY <1>22, <2>1, SendDoes
<1>23. ASSUME NEW t \in Everyone, SendDone(t), UNCHANGED output
       PROVE  WokenByPackets'
  BY <1>23, SendDoneDoes
<1>24. ASSUME Data
       PROVE  WokenByPackets'
  BY <1>24, DataDoes, DataAlone
<1>25. ASSUME UNCHANGED vars
       PROVE  WokenByPackets'
  BY <1>25, IdleDoes
<1> QED
  BY <1>1, <1>2, <1>3, <1>4, <1>5, <1>6, <1>7, <1>8, <1>9, <1>10, <1>11, <1>12, <1>13,
     <1>14, <1>15, <1>16, <1>17, <1>18, <1>19, <1>20, <1>21, <1>22, <1>23, <1>24, <1>25
     DEF Next, Frontend, Step, OutputStep, StreamStep, Everyone

\* What a thread waits to connect for stays known until it has connected.
LEMMA KnownStartKept ==
  ASSUME Stacked, Undisturbed, OneClosing, HookedIsActive, Calm, [Next]_vars
  PROVE  KnownStart'
<1> USE DEF Calm, OneCarries, KnownStart, NoStops, Stopping, ConnectsInactive, Carrying,
        Waiting, Opening, Trying, Linking, Leaving, Retrying, Answering
<1>1. ASSUME UserStart, UNCHANGED stream
      PROVE  KnownStart'
  BY <1>1, UserStartDoes, NobodyCarries
<1>2. ASSUME NEW forced \in BOOLEAN, UserStop(forced), UNCHANGED stream
      PROVE  KnownStart'
  BY <1>2, NobodyStops
<1>3. ASSUME NEW t \in Everyone, ActualStart(t), UNCHANGED stream
      PROVE  KnownStart'
  BY <1>3, ActualStartDoes
<1>4. ASSUME NEW t \in Everyone, CanBegin(t), UNCHANGED stream
      PROVE  KnownStart'
  BY <1>4, CanBeginDoes
<1>5. ASSUME NEW t \in Everyone, NotStarted(t), UNCHANGED stream
      PROVE  KnownStart'
  <2>1. t # ui
    BY <1>5, NotStartedDoes
  <2>2. UNCHANGED reconnecting /\ (streamingStarting => streamingStarting')
    BY <1>5, <2>1, NotStartedDoes
  <2>3. \E b \in {"started", "reconnect_end"} : Goes(t, "not_started", b)
    BY <1>5, NotStartedDoes
  <2> QED
    BY <2>2, <2>3
<1>6. ASSUME Started, UNCHANGED stream
      PROVE  KnownStart'
  BY <1>6, StartedDoes
<1>7. ASSUME ActualStop, UNCHANGED stream
      PROVE  KnownStart'
  BY <1>7, NoStopRuns
<1>8. ASSUME NEW t \in Everyone, BeginDataCapture(t), UNCHANGED stream
      PROVE  KnownStart'
  BY <1>8, BeginDoes
<1>9. ASSUME NEW t \in Everyone, EndDataCapture(t), UNCHANGED stream
      PROVE  KnownStart'
  BY <1>9, EndCaptureDoes
<1>10. ASSUME NEW t \in Everyone, EndThread(t), UNCHANGED stream
       PROVE  KnownStart'
  BY <1>10, EndThreadDoes
<1>11. ASSUME NEW t \in Everyone, NEW code \in Codes,
             SignalStopCode(t, code), UNCHANGED stream
       PROVE  KnownStart'
  BY <1>11, SignalStopDoes
<1>12. ASSUME NEW t \in Everyone, OutputReconnect(t), UNCHANGED stream
       PROVE  KnownStart'
  BY <1>12, ReconnectDoes
<1>13. ASSUME NEW t \in Everyone, ReconnectThread(t), UNCHANGED stream
       PROVE  KnownStart'
  <2>1. /\ UNCHANGED <<reconnecting, streamingStarting>>
        /\ \/ Goes(t, "reconnect", "timed_wait")
           \/ Goes(t, "timed_wait", "actual_start")
           \/ Goes(t, "reconnect_end", "reconnect_done")
           \/ Goes(t, "reconnect_done", "idle")
    BY <1>13, ReconnectThreadDoes DEF Calm, NoStops
  <2> QED
    BY <2>1
<1>14. ASSUME NEW t \in Everyone, StreamStart(t)
       PROVE  KnownStart'
  BY <1>14, StreamStartDoes
<1>15. ASSUME NEW t \in Everyone, TryConnect(t)
       PROVE  KnownStart'
  BY <1>15, TryConnectDoes
<1>16. ASSUME NEW t \in Everyone, ConnectEnd(t)
       PROVE  KnownStart'
  BY <1>16, ConnectEndDoes
<1>17. ASSUME NEW t \in Everyone, SendExit(t)
       PROVE  KnownStart'
  BY <1>17, SendExitDoes
<1>18. ASSUME NEW t \in Everyone, Shutdown(t)
       PROVE  KnownStart'
  <2>1. /\ send_sem = 1 /\ packet /\ Live
        /\ \A u \in Everyone : top[u] \notin Carrying \cup {"reset_stop_event", "send_done"}
    BY <1>18, ShutdownDoes, SendWoken
  <2> QED
    BY <1>18, <2>1, ShutdownDoes
<1>19. ASSUME StreamStop, UNCHANGED output
       PROVE  KnownStart'
  BY <1>19, NoStopRuns
<1>20. ASSUME NEW t \in Everyone, InitConnect(t), UNCHANGED output
       PROVE  KnownStart'
  BY <1>20, InitConnectDoes
<1>21. ASSUME NEW t \in Everyone, StreamActive(t), UNCHANGED output
       PROVE  KnownStart'
  BY <1>21, StreamActiveDoes
<1>22. ASSUME NEW t \in Everyone, Send(t), UNCHANGED output
       PROVE  KnownStart'
  <2>1. /\ send_sem = 1 /\ packet /\ Live
        /\ \A u \in Everyone : top[u] \notin Carrying \cup {"reset_stop_event", "send_done"}
    BY <1>22, SendDoes, SendWoken
  <2> QED
    BY <1>22, <2>1, SendDoes
<1>23. ASSUME NEW t \in Everyone, SendDone(t), UNCHANGED output
       PROVE  KnownStart'
  BY <1>23, SendDoneDoes
<1>24. ASSUME Data
       PROVE  KnownStart'
  BY <1>24, DataDoes, DataAlone
<1>25. ASSUME UNCHANGED vars
       PROVE  KnownStart'
  BY <1>25, IdleDoes
<1> QED
  BY <1>1, <1>2, <1>3, <1>4, <1>5, <1>6, <1>7, <1>8, <1>9, <1>10, <1>11, <1>12, <1>13,
     <1>14, <1>15, <1>16, <1>17, <1>18, <1>19, <1>20, <1>21, <1>22, <1>23, <1>24, <1>25
     DEF Next, Frontend, Step, OutputStep, StreamStep, Everyone

\* No send thread wakes between two connections.
LEMMA SendersSleepKept ==
  ASSUME Stacked, Undisturbed, OneClosing, HookedIsActive, Calm, [Next]_vars
  PROVE  SendersSleep'
<1> USE DEF Calm, OneCarries, SendersSleep, NoStops, Stopping, ConnectsInactive,
        WokenByPackets, OneClosing, Closing, Live, Carrying, Waiting, Opening, Trying,
        Linking, Leaving, Retrying, Answering
<1>1. ASSUME UserStart, UNCHANGED stream
      PROVE  SendersSleep'
  BY <1>1, UserStartDoes, NobodyCarries
<1>2. ASSUME NEW forced \in BOOLEAN, UserStop(forced), UNCHANGED stream
      PROVE  SendersSleep'
  BY <1>2, NobodyStops
<1>3. ASSUME NEW t \in Everyone, ActualStart(t), UNCHANGED stream
      PROVE  SendersSleep'
  BY <1>3, ActualStartDoes
<1>4. ASSUME NEW t \in Everyone, CanBegin(t), UNCHANGED stream
      PROVE  SendersSleep'
  BY <1>4, CanBeginDoes
<1>5. ASSUME NEW t \in Everyone, NotStarted(t), UNCHANGED stream
      PROVE  SendersSleep'
  BY <1>5, NotStartedDoes
<1>6. ASSUME Started, UNCHANGED stream
      PROVE  SendersSleep'
  BY <1>6, StartedDoes
<1>7. ASSUME ActualStop, UNCHANGED stream
      PROVE  SendersSleep'
  BY <1>7, NoStopRuns
<1>8. ASSUME NEW t \in Everyone, BeginDataCapture(t), UNCHANGED stream
      PROVE  SendersSleep'
  BY <1>8, BeginDoes
<1>9. ASSUME NEW t \in Everyone, EndDataCapture(t), UNCHANGED stream
      PROVE  SendersSleep'
  BY <1>9, EndCaptureDoes
<1>10. ASSUME NEW t \in Everyone, EndThread(t), UNCHANGED stream
       PROVE  SendersSleep'
  BY <1>10, EndThreadDoes
<1>11. ASSUME NEW t \in Everyone, NEW code \in Codes,
             SignalStopCode(t, code), UNCHANGED stream
       PROVE  SendersSleep'
  BY <1>11, SignalStopDoes
<1>12. ASSUME NEW t \in Everyone, OutputReconnect(t), UNCHANGED stream
       PROVE  SendersSleep'
  BY <1>12, ReconnectDoes
<1>13. ASSUME NEW t \in Everyone, ReconnectThread(t), UNCHANGED stream
       PROVE  SendersSleep'
  <2>1. /\ UNCHANGED <<disconnected, hooked, send_sem>>
        /\ \/ Goes(t, "reconnect", "timed_wait")
           \/ /\ Goes(t, "timed_wait", "actual_start")
              /\ \A u \in Everyone \ {t} : top[u] \in Waits \cup {"idle"}
           \/ Goes(t, "reconnect_end", "reconnect_done")
           \/ Goes(t, "reconnect_done", "idle")
    BY <1>13, ReconnectThreadDoes, WaitsAlone DEF Calm, NoStops, Undisturbed
  <2> QED
    BY <2>1 DEF Waits
<1>14. ASSUME NEW t \in Everyone, StreamStart(t)
       PROVE  SendersSleep'
  BY <1>14, StreamStartDoes
<1>15. ASSUME NEW t \in Everyone, TryConnect(t)
       PROVE  SendersSleep'
  BY <1>15, TryConnectDoes
<1>16. ASSUME NEW t \in Everyone, ConnectEnd(t)
       PROVE  SendersSleep'
  BY <1>16, ConnectEndDoes
<1>17. ASSUME NEW t \in Everyone, SendExit(t)
       PROVE  SendersSleep'
  BY <1>17, SendExitDoes
<1>18. ASSUME NEW t \in Everyone, Shutdown(t)
       PROVE  SendersSleep'
  <2>1. /\ send_sem = 1 /\ packet /\ Live
        /\ \A u \in Everyone : top[u] \notin Carrying \cup {"reset_stop_event", "send_done"}
    BY <1>18, ShutdownDoes, SendWoken
  <2> QED
    BY <1>18, <2>1, ShutdownDoes
<1>19. ASSUME StreamStop, UNCHANGED output
       PROVE  SendersSleep'
  BY <1>19, NoStopRuns
<1>20. ASSUME NEW t \in Everyone, InitConnect(t), UNCHANGED output
       PROVE  SendersSleep'
  BY <1>20, InitConnectDoes
<1>21. ASSUME NEW t \in Everyone, StreamActive(t), UNCHANGED output
       PROVE  SendersSleep'
  BY <1>21, StreamActiveDoes
<1>22. ASSUME NEW t \in Everyone, Send(t), UNCHANGED output
       PROVE  SendersSleep'
  <2>1. /\ send_sem = 1 /\ packet /\ Live
        /\ \A u \in Everyone : top[u] \notin Carrying \cup {"reset_stop_event", "send_done"}
    BY <1>22, SendDoes, SendWoken
  <2> QED
    BY <1>22, <2>1, SendDoes
<1>23. ASSUME NEW t \in Everyone, SendDone(t), UNCHANGED output
       PROVE  SendersSleep'
  BY <1>23, SendDoneDoes
<1>24. ASSUME Data
       PROVE  SendersSleep'
  BY <1>24, DataDoes, DataAlone
<1>25. ASSUME UNCHANGED vars
       PROVE  SendersSleep'
  BY <1>25, IdleDoes
<1> QED
  BY <1>1, <1>2, <1>3, <1>4, <1>5, <1>6, <1>7, <1>8, <1>9, <1>10, <1>11, <1>12, <1>13,
     <1>14, <1>15, <1>16, <1>17, <1>18, <1>19, <1>20, <1>21, <1>22, <1>23, <1>24, <1>25
     DEF Next, Frontend, Step, OutputStep, StreamStep, Everyone

\* Until the next connection is made the output is not active.
LEMMA ConnectsInactiveKept ==
  ASSUME Stacked, Undisturbed, OneClosing, HookedIsActive, Calm, [Next]_vars
  PROVE  ConnectsInactive'
<1> USE DEF Calm, OneCarries, ConnectsInactive, HookedIsActive, Carrying, Waiting, Opening,
        Trying, Linking, Leaving, Retrying, Answering
<1>1. ASSUME UserStart, UNCHANGED stream
      PROVE  ConnectsInactive'
  BY <1>1, UserStartDoes, NobodyCarries
<1>2. ASSUME NEW forced \in BOOLEAN, UserStop(forced), UNCHANGED stream
      PROVE  ConnectsInactive'
  BY <1>2, NobodyStops
<1>3. ASSUME NEW t \in Everyone, ActualStart(t), UNCHANGED stream
      PROVE  ConnectsInactive'
  BY <1>3, ActualStartDoes
<1>4. ASSUME NEW t \in Everyone, CanBegin(t), UNCHANGED stream
      PROVE  ConnectsInactive'
  BY <1>4, CanBeginDoes
<1>5. ASSUME NEW t \in Everyone, NotStarted(t), UNCHANGED stream
      PROVE  ConnectsInactive'
  BY <1>5, NotStartedDoes
<1>6. ASSUME Started, UNCHANGED stream
      PROVE  ConnectsInactive'
  BY <1>6, StartedDoes
<1>7. ASSUME ActualStop, UNCHANGED stream
      PROVE  ConnectsInactive'
  BY <1>7, NoStopRuns
<1>8. ASSUME NEW t \in Everyone, BeginDataCapture(t), UNCHANGED stream
      PROVE  ConnectsInactive'
  BY <1>8, BeginDoes
<1>9. ASSUME NEW t \in Everyone, EndDataCapture(t), UNCHANGED stream
      PROVE  ConnectsInactive'
  BY <1>9, EndCaptureDoes
<1>10. ASSUME NEW t \in Everyone, EndThread(t), UNCHANGED stream
       PROVE  ConnectsInactive'
  BY <1>10, EndThreadDoes
<1>11. ASSUME NEW t \in Everyone, NEW code \in Codes,
             SignalStopCode(t, code), UNCHANGED stream
       PROVE  ConnectsInactive'
  BY <1>11, SignalStopDoes
<1>12. ASSUME NEW t \in Everyone, OutputReconnect(t), UNCHANGED stream
       PROVE  ConnectsInactive'
  <2>1. New("reconnect") # ui
    BY DEF New, ui
  <2> QED
    BY <1>12, <2>1, ReconnectDoes
<1>13. ASSUME NEW t \in Everyone, ReconnectThread(t), UNCHANGED stream
       PROVE  ConnectsInactive'
  BY <1>13, ReconnectThreadDoes
<1>14. ASSUME NEW t \in Everyone, StreamStart(t)
       PROVE  ConnectsInactive'
  BY <1>14, StreamStartDoes
<1>15. ASSUME NEW t \in Everyone, TryConnect(t)
       PROVE  ConnectsInactive'
  BY <1>15, TryConnectDoes
<1>16. ASSUME NEW t \in Everyone, ConnectEnd(t)
       PROVE  ConnectsInactive'
  BY <1>16, ConnectEndDoes
<1>17. ASSUME NEW t \in Everyone, SendExit(t)
       PROVE  ConnectsInactive'
  BY <1>17, SendExitDoes
<1>18. ASSUME NEW t \in Everyone, Shutdown(t)
       PROVE  ConnectsInactive'
  <2>1. /\ send_sem = 1 /\ packet /\ Live
        /\ \A u \in Everyone : top[u] \notin Carrying \cup {"reset_stop_event", "send_done"}
    BY <1>18, ShutdownDoes, SendWoken
  <2> QED
    BY <1>18, <2>1, ShutdownDoes
<1>19. ASSUME StreamStop, UNCHANGED output
       PROVE  ConnectsInactive'
  BY <1>19, NoStopRuns
<1>20. ASSUME NEW t \in Everyone, InitConnect(t), UNCHANGED output
       PROVE  ConnectsInactive'
  BY <1>20, InitConnectDoes
<1>21. ASSUME NEW t \in Everyone, StreamActive(t), UNCHANGED output
       PROVE  ConnectsInactive'
  BY <1>21, StreamActiveDoes
<1>22. ASSUME NEW t \in Everyone, Send(t), UNCHANGED output
       PROVE  ConnectsInactive'
  <2>1. /\ send_sem = 1 /\ packet /\ Live
        /\ \A u \in Everyone : top[u] \notin Carrying \cup {"reset_stop_event", "send_done"}
    BY <1>22, SendDoes, SendWoken
  <2> QED
    BY <1>22, <2>1, SendDoes
<1>23. ASSUME NEW t \in Everyone, SendDone(t), UNCHANGED output
       PROVE  ConnectsInactive'
  BY <1>23, SendDoneDoes
<1>24. ASSUME Data
       PROVE  ConnectsInactive'
  BY <1>24, DataDoes, DataAlone
<1>25. ASSUME UNCHANGED vars
       PROVE  ConnectsInactive'
  BY <1>25, IdleDoes
<1> QED
  BY <1>1, <1>2, <1>3, <1>4, <1>5, <1>6, <1>7, <1>8, <1>9, <1>10, <1>11, <1>12, <1>13,
     <1>14, <1>15, <1>16, <1>17, <1>18, <1>19, <1>20, <1>21, <1>22, <1>23, <1>24, <1>25
     DEF Next, Frontend, Step, OutputStep, StreamStep, Everyone

\* Each start is answered once: the answer is the end of what carries the
\* stream.
LEMMA AnswerOwedKept ==
  ASSUME Stacked, Undisturbed, OneClosing, HookedIsActive, Calm, [Next]_vars
  PROVE  AnswerOwed'
<1> USE DEF Calm, OneCarries, AnswerOwed, NoStops, Stopping, ConnectsInactive,
        SendersSleep, Stacked, NumbersTyped, Live, SignalsStop, Carrying, Waiting, Opening,
        Trying, Linking, Leaving, Retrying, Answering
<1>1. ASSUME UserStart, UNCHANGED stream
      PROVE  AnswerOwed'
  BY <1>1, UserStartDoes, NobodyCarries
<1>2. ASSUME NEW forced \in BOOLEAN, UserStop(forced), UNCHANGED stream
      PROVE  AnswerOwed'
  BY <1>2, NobodyStops
<1>3. ASSUME NEW t \in Everyone, ActualStart(t), UNCHANGED stream
      PROVE  AnswerOwed'
  BY <1>3, ActualStartDoes
<1>4. ASSUME NEW t \in Everyone, CanBegin(t), UNCHANGED stream
      PROVE  AnswerOwed'
  BY <1>4, CanBeginDoes
<1>5. ASSUME NEW t \in Everyone, NotStarted(t), UNCHANGED stream
      PROVE  AnswerOwed'
  BY <1>5, NotStartedDoes
<1>6. ASSUME Started, UNCHANGED stream
      PROVE  AnswerOwed'
  BY <1>6, StartedDoes
<1>7. ASSUME ActualStop, UNCHANGED stream
      PROVE  AnswerOwed'
  BY <1>7, NoStopRuns
<1>8. ASSUME NEW t \in Everyone, BeginDataCapture(t), UNCHANGED stream
      PROVE  AnswerOwed'
  BY <1>8, BeginDoes
<1>9. ASSUME NEW t \in Everyone, EndDataCapture(t), UNCHANGED stream
      PROVE  AnswerOwed'
  <2>1. top[t] \in Carrying /\ ~Live
    BY <1>9, EndCaptureDoes
  <2>2. \A u \in Everyone \ {t} : top'[u] \notin Carrying
    BY <1>9, <2>1, EndCaptureDoes
  <2>3. answers' = answers \/ (answers' = answers + 1 /\ top'[t] \in Rest)
    BY <1>9, EndCaptureAnswers
  <2>4. UNCHANGED <<hooked, disconnected, starts>>
    BY <1>9, EndCaptureDoes
  <2> QED
    BY <2>1, <2>2, <2>3, <2>4
<1>10. ASSUME NEW t \in Everyone, EndThread(t), UNCHANGED stream
       PROVE  AnswerOwed'
  BY <1>10, EndThreadDoes
<1>11. ASSUME NEW t \in Everyone, NEW code \in Codes,
             SignalStopCode(t, code), UNCHANGED stream
       PROVE  AnswerOwed'
  BY <1>11, SignalStopDoes
<1>12. ASSUME NEW t \in Everyone, OutputReconnect(t), UNCHANGED stream
       PROVE  AnswerOwed'
  BY <1>12, ReconnectDoes
<1>13. ASSUME NEW t \in Everyone, ReconnectThread(t), UNCHANGED stream
       PROVE  AnswerOwed'
  BY <1>13, ReconnectThreadDoes
<1>14. ASSUME NEW t \in Everyone, StreamStart(t)
       PROVE  AnswerOwed'
  BY <1>14, StreamStartDoes
<1>15. ASSUME NEW t \in Everyone, TryConnect(t)
       PROVE  AnswerOwed'
  BY <1>15, TryConnectDoes
<1>16. ASSUME NEW t \in Everyone, ConnectEnd(t)
       PROVE  AnswerOwed'
  BY <1>16, ConnectEndDoes
<1>17. ASSUME NEW t \in Everyone, SendExit(t)
       PROVE  AnswerOwed'
  BY <1>17, SendExitDoes
<1>18. ASSUME NEW t \in Everyone, Shutdown(t)
       PROVE  AnswerOwed'
  <2>1. /\ send_sem = 1 /\ packet /\ Live
        /\ \A u \in Everyone : top[u] \notin Carrying \cup {"reset_stop_event", "send_done"}
    BY <1>18, ShutdownDoes, SendWoken
  <2> QED
    BY <1>18, <2>1, ShutdownDoes
<1>19. ASSUME StreamStop, UNCHANGED output
       PROVE  AnswerOwed'
  BY <1>19, NoStopRuns
<1>20. ASSUME NEW t \in Everyone, InitConnect(t), UNCHANGED output
       PROVE  AnswerOwed'
  BY <1>20, InitConnectDoes
<1>21. ASSUME NEW t \in Everyone, StreamActive(t), UNCHANGED output
       PROVE  AnswerOwed'
  BY <1>21, StreamActiveDoes
<1>22. ASSUME NEW t \in Everyone, Send(t), UNCHANGED output
       PROVE  AnswerOwed'
  <2>1. /\ send_sem = 1 /\ packet /\ Live
        /\ \A u \in Everyone : top[u] \notin Carrying \cup {"reset_stop_event", "send_done"}
    BY <1>22, SendDoes, SendWoken
  <2> QED
    BY <1>22, <2>1, SendDoes
<1>23. ASSUME NEW t \in Everyone, SendDone(t), UNCHANGED output
       PROVE  AnswerOwed'
  BY <1>23, SendDoneDoes
<1>24. ASSUME Data
       PROVE  AnswerOwed'
  BY <1>24, DataDoes, DataAlone
<1>25. ASSUME UNCHANGED vars
       PROVE  AnswerOwed'
  BY <1>25, IdleDoes
<1> QED
  BY <1>1, <1>2, <1>3, <1>4, <1>5, <1>6, <1>7, <1>8, <1>9, <1>10, <1>11, <1>12, <1>13,
     <1>14, <1>15, <1>16, <1>17, <1>18, <1>19, <1>20, <1>21, <1>22, <1>23, <1>24, <1>25
     DEF Next, Frontend, Step, OutputStep, StreamStep, Everyone

\* A connection is tried once at first and once for each retry.
LEMMA TriesCountedKept ==
  ASSUME Stacked, Undisturbed, OneClosing, HookedIsActive, Calm, [Next]_vars
  PROVE  TriesCounted'
<1> USE DEF Calm, OneCarries, TriesCounted, NoStops, Stopping, ConnectsInactive,
        SendersSleep, KnownStart, Stacked, NumbersTyped, Live, Retries, Tries, GiveUp,
        Carrying, Waiting, Opening, Trying, Linking, Leaving, Retrying, Answering
<1>1. ASSUME UserStart, UNCHANGED stream
      PROVE  TriesCounted'
  <2>1. ~Live /\ \A u \in Everyone : top[u] \notin Carrying
    BY <1>1, NobodyCarries
  <2>2. /\ Goes(ui, "idle", "actual_start")
        /\ ~reconnecting /\ attempts' = 0
        /\ UNCHANGED <<reconnecting, reconnect_retries, hooked, disconnected>>
    BY <1>1, UserStartDoes
  <2> QED
    BY <2>1, <2>2, RetryMaxAssumption
<1>2. ASSUME NEW forced \in BOOLEAN, UserStop(forced), UNCHANGED stream
      PROVE  TriesCounted'
  BY <1>2, NobodyStops
<1>3. ASSUME NEW t \in Everyone, ActualStart(t), UNCHANGED stream
      PROVE  TriesCounted'
  BY <1>3, ActualStartDoes
<1>4. ASSUME NEW t \in Everyone, CanBegin(t), UNCHANGED stream
      PROVE  TriesCounted'
  BY <1>4, CanBeginDoes
<1>5. ASSUME NEW t \in Everyone, NotStarted(t), UNCHANGED stream
      PROVE  TriesCounted'
  BY <1>5, NotStartedDoes
<1>6. ASSUME Started, UNCHANGED stream
      PROVE  TriesCounted'
  BY <1>6, StartedDoes
<1>7. ASSUME ActualStop, UNCHANGED stream
      PROVE  TriesCounted'
  BY <1>7, NoStopRuns
<1>8. ASSUME NEW t \in Everyone, BeginDataCapture(t), UNCHANGED stream
      PROVE  TriesCounted'
  <2>1. \A u \in Everyone \ {t} : top'[u] \notin Carrying
    BY <1>8, BeginDoes
  <2>2. CASE top[t] = "signal_start"
    <3>1. /\ top'[t] = "connect_end"
          /\ attempts' = 0 /\ ~reconnecting' /\ UNCHANGED reconnect_retries
      BY <1>8, <2>2, BeginDoes
    <3> QED
      BY <2>1, <3>1, RetryMaxAssumption
  <2>3. CASE top[t] # "signal_start"
    <3>1. /\ top[t] \in {"begin_data_capture", "activate"}
          /\ top'[t] \in {"activate", "signal_start"}
          /\ UNCHANGED <<attempts, reconnecting, reconnect_retries>>
      BY <1>8, <2>3, BeginDoes
    <3> QED
      BY <2>1, <3>1
  <2> QED
    BY <2>2, <2>3
<1>9. ASSUME NEW t \in Everyone, EndDataCapture(t), UNCHANGED stream
      PROVE  TriesCounted'
  BY <1>9, EndCaptureDoes
<1>10. ASSUME NEW t \in Everyone, EndThread(t), UNCHANGED stream
       PROVE  TriesCounted'
  BY <1>10, EndThreadDoes
<1>11. ASSUME NEW t \in Everyone, NEW code \in Codes,
             SignalStopCode(t, code), UNCHANGED stream
       PROVE  TriesCounted'
  BY <1>11, SignalStopDoes
<1>12. ASSUME NEW t \in Everyone, OutputReconnect(t), UNCHANGED stream
       PROVE  TriesCounted'
  <2>1. /\ top[t] \in {"output_reconnect", "reset_stop", "retry"} /\ ~Live
        /\ \A u \in Everyone \ {t} : top[u] \notin Carrying
    BY <1>12, ReconnectDoes
  <2>2. UNCHANGED <<attempts, hooked, disconnected>>
    BY <1>12, ReconnectDoes
  <2>3. CASE top[t] = "output_reconnect"
    <3>1. /\ \A u \in Everyone \ {t} : top'[u] = top[u]
          /\ reconnect_retries' = Retries
          /\ \/ Retries >= RetryMax /\ top'[t] = "end_capture" /\ ~reconnecting'
             \/ ~(Retries >= RetryMax) /\ top'[t] \in {"retry", "reset_stop"}
                  /\ reconnecting'
      BY <1>12, <2>3, ReconnectDoes DEF Retries
    <3> QED
      BY <2>1, <2>2, <2>3, <3>1, RetryMaxAssumption
  <2>4. CASE top[t] = "reset_stop"
    <3>1. Goes(t, "reset_stop", "retry") /\ UNCHANGED <<reconnecting, reconnect_retries>>
      BY <1>12, <2>4, ReconnectDoes
    <3> QED
      BY <2>1, <2>2, <3>1
  <2>5. CASE top[t] = "retry"
    <3>1. \E b \in Rest : Creates(t, "retry", b, New("reconnect"), "reconnect")
      BY <1>12, <2>5, ReconnectDoes
    <3>5. reconnect_retries' = reconnect_retries + 1 /\ UNCHANGED reconnecting
      BY <1>12, <2>5, ReconnectDoes
    <3>2. reconnecting /\ attempts <= reconnect_retries + 1 /\ reconnect_retries < RetryMax
      BY <2>5
    <3>3. \A u \in Everyone : top'[u] \in Carrying => top'[u] = "reconnect"
      BY <2>1, <3>1
    <3>4. \E u \in Everyone : top'[u] = "reconnect"
      BY <3>1
    <3> HIDE DEF Calm, OneCarries, NoStops, ConnectsInactive, SendersSleep, KnownStart
    <3>6. Tries' = reconnect_retries + 1
      BY <3>2, <3>5
    <3>7. \A u \in Everyone : top'[u] \in Carrying => attempts' <= Tries'
      BY <2>2, <3>2, <3>6
    <3>8. attempts' <= RetryMax + 1
      BY <2>2 DEF Calm
    <3>9. reconnect_retries' <= RetryMax
      BY <3>2, <3>5, RetryMaxAssumption
    <3>10. ~\A u \in Everyone : top'[u] \notin Carrying
      BY <3>4
    <3>11. ASSUME NEW u \in Everyone
           PROVE  /\ top'[u] \notin Linking \cup Leaving \cup Retrying
                  /\ top'[u] \notin {"signal_start", "end_thread"}
                  /\ top'[u] \in Waiting \cup Opening \cup Trying => attempts' <= Tries'
      BY <3>3, <3>7
    <3> QED
      BY <3>8, <3>9, <3>10, <3>11 DEF TriesCounted
  <2> QED
    BY <2>1, <2>3, <2>4, <2>5
<1>13. ASSUME NEW t \in Everyone, ReconnectThread(t), UNCHANGED stream
       PROVE  TriesCounted'
  <2>1. /\ UNCHANGED <<attempts, reconnecting, reconnect_retries, hooked, disconnected>>
        /\ \/ Goes(t, "reconnect", "timed_wait")
           \/ Goes(t, "timed_wait", "actual_start")
           \/ Goes(t, "reconnect_end", "reconnect_done")
           \/ Goes(t, "reconnect_done", "idle")
    BY <1>13, ReconnectThreadDoes DEF Calm, NoStops
  <2> QED
    BY <2>1
<1>14. ASSUME NEW t \in Everyone, StreamStart(t)
       PROVE  TriesCounted'
  BY <1>14, StreamStartDoes
<1>15. ASSUME NEW t \in Everyone, TryConnect(t)
       PROVE  TriesCounted'
  <2>1. /\ top[t] = "try_connect"
        /\ attempts' = attempts + 1
        /\ UNCHANGED <<reconnecting, reconnect_retries, hooked, disconnected>>
    BY <1>15, TryConnectDoes
  <2>2. \A u \in Everyone \ {t} : top[u] \notin Carrying
    BY <2>1
  <2>3. /\ top'[t] \in {"stream_active", "signal_failed"}
        /\ \A u \in Everyone \ {t} : top'[u] \notin Carrying
    BY <1>15, <2>2, TryConnectDoes
  <2> QED
    BY <2>1, <2>3, RetryMaxAssumption
<1>16. ASSUME NEW t \in Everyone, ConnectEnd(t)
       PROVE  TriesCounted'
  BY <1>16, ConnectEndDoes
<1>17. ASSUME NEW t \in Everyone, SendExit(t)
       PROVE  TriesCounted'
  BY <1>17, SendExitDoes
<1>18. ASSUME NEW t \in Everyone, Shutdown(t)
       PROVE  TriesCounted'
  <2>1. /\ send_sem = 1 /\ packet /\ Live
        /\ \A u \in Everyone : top[u] \notin Carrying \cup {"reset_stop_event", "send_done"}
    BY <1>18, ShutdownDoes, SendWoken
  <2> QED
    BY <1>18, <2>1, ShutdownDoes
<1>19. ASSUME StreamStop, UNCHANGED output
       PROVE  TriesCounted'
  BY <1>19, NoStopRuns
<1>20. ASSUME NEW t \in Everyone, InitConnect(t), UNCHANGED output
       PROVE  TriesCounted'
  BY <1>20, InitConnectDoes
<1>21. ASSUME NEW t \in Everyone, StreamActive(t), UNCHANGED output
       PROVE  TriesCounted'
  BY <1>21, StreamActiveDoes
<1>22. ASSUME NEW t \in Everyone, Send(t), UNCHANGED output
       PROVE  TriesCounted'
  <2>1. /\ send_sem = 1 /\ packet /\ Live
        /\ \A u \in Everyone : top[u] \notin Carrying \cup {"reset_stop_event", "send_done"}
    BY <1>22, SendDoes, SendWoken
  <2> QED
    BY <1>22, <2>1, SendDoes
<1>23. ASSUME NEW t \in Everyone, SendDone(t), UNCHANGED output
       PROVE  TriesCounted'
  BY <1>23, SendDoneDoes
<1>24. ASSUME Data
       PROVE  TriesCounted'
  BY <1>24, DataDoes, DataAlone
<1>25. ASSUME UNCHANGED vars
       PROVE  TriesCounted'
  BY <1>25, IdleDoes
<1> QED
  BY <1>1, <1>2, <1>3, <1>4, <1>5, <1>6, <1>7, <1>8, <1>9, <1>10, <1>11, <1>12, <1>13,
     <1>14, <1>15, <1>16, <1>17, <1>18, <1>19, <1>20, <1>21, <1>22, <1>23, <1>24, <1>25
     DEF Next, Frontend, Step, OutputStep, StreamStep, Everyone

\* Every step keeps all of it,
LEMMA CalmKept ==
  ASSUME Stacked, Undisturbed, OneClosing, HookedIsActive, Calm, [Next]_vars
  PROVE  Stacked' /\ OneClosing' /\ HookedIsActive' /\ Calm'
<1>1. Stacked' /\ OneClosing' /\ HookedIsActive'
  BY StackedKept, OneClosingKept, HookedIsActiveKept
<1>2. NoStops' /\ Connecting' /\ OneCarries' /\ WokenByPackets' /\ SendersSleep'
  BY NoStopsKept, ConnectingKept, OneCarriesKept, WokenByPacketsKept, SendersSleepKept
<1>3. ConnectsInactive' /\ KnownStart' /\ AnswerOwed' /\ TriesCounted'
  BY ConnectsInactiveKept, KnownStartKept, AnswerOwedKept, TriesCountedKept
<1> QED
  BY <1>1, <1>2, <1>3 DEF Calm

\* and it holds at first.
LEMMA CalmAtFirst ==
  ASSUME Init
  PROVE  Stacked /\ OneClosing /\ HookedIsActive /\ Calm
<1>1. Stacked /\ ~hooked /\ \A t \in Everyone : top[t] = "idle"
  BY TypeAtFirst, AtTop DEF Init, OutputInit, Everyone, Finished, Stacked
<1>2. OneClosing /\ HookedIsActive
  BY <1>1 DEF OneClosing, HookedIsActive, Closing
<1>3. NoStops /\ Connecting /\ OneCarries /\ WokenByPackets /\ SendersSleep
  BY <1>1 DEF Init, OutputInit, NoStops, Stopping, Connecting, Linking, OneCarries,
       WokenByPackets, SendersSleep, Closing, Carrying, Waiting, Opening, Trying, Leaving,
       Retrying, Answering
<1>4. ConnectsInactive /\ KnownStart /\ AnswerOwed
  BY <1>1, UiIsThere DEF Init, OutputInit, ConnectsInactive, KnownStart, AnswerOwed, Live,
       Linking, Carrying, Waiting, Opening, Trying, Leaving, Retrying, Answering
<1>5. TriesCounted
  BY <1>1, RetryMaxAssumption DEF Init, OutputInit, TriesCounted, Live, Linking, Waiting,
       Opening, Trying, Leaving, Retrying
<1> QED
  BY <1>1, <1>2, <1>3, <1>4, <1>5 DEF Calm

\* A stream that nobody stops is connected at most RetryMax times more before
\* the output gives up, and its retry counter stays below the limit, whatever
\* fails in which order: obs_output_signal_stop and output_reconnect test the
\* counter on one thread while another one increases it.
THEOREM RetriesAreBounded == Undisturbed => (Spec => []RetriesBounded)
<1> SUFFICES ASSUME Undisturbed PROVE Spec => []RetriesBounded
  OBVIOUS
<1>1. Init => Stacked /\ OneClosing /\ HookedIsActive /\ Calm
  BY CalmAtFirst
<1>2. Stacked /\ OneClosing /\ HookedIsActive /\ Calm /\ [Next]_vars
        => Stacked' /\ OneClosing' /\ HookedIsActive' /\ Calm'
  BY CalmKept
<1>3. Calm => RetriesBounded
  BY DEF Calm, TriesCounted, RetriesBounded
<1> QED
  BY <1>1, <1>2, <1>3, PTL DEF Spec

\* A stream that nobody stops tells the frontend of its end at most once for
\* each start, however often it is lost, connects again or fails to: signal_stop
\* runs at the end of one capture or for one failed connection.
THEOREM AnsweredAtMostOnce == Undisturbed => (Spec => []AnsweredOnce)
<1> SUFFICES ASSUME Undisturbed PROVE Spec => []AnsweredOnce
  OBVIOUS
<1>1. Init => Stacked /\ OneClosing /\ HookedIsActive /\ Calm
  BY CalmAtFirst
<1>2. Stacked /\ OneClosing /\ HookedIsActive /\ Calm /\ [Next]_vars
        => Stacked' /\ OneClosing' /\ HookedIsActive' /\ Calm'
  BY CalmKept
<1>3. Calm => AnsweredOnce
  BY DEF Calm, AnswerOwed, AnsweredOnce
<1> QED
  BY <1>1, <1>2, <1>3, PTL DEF Spec

-----------------------------------------------------------------------------
(* A stream that is stopped once, over a link that holds.                  *)

StoppedOnce == Prompt /\ StopsPerStart <= 1 /\ ~LinkMayDrop /\ ~MetaMayFail

\* What the function of each kind of thread is left with below its calls.
Home(t) ==
    CASE t[1] = "connect" -> "connect_end"
      [] t[1] = "send" -> "reset_stop_event"
      [] OTHER -> "idle"
Back(t) == IF t = ui THEN "started" ELSE "reconnect_end"

\* Threads run the labels of their own functions and come back to them.
Homes == \A t \in Everyone :
    /\ top[t] \in Starting => mid[t] = Back(t) /\ (t = ui \/ t[1] = "reconnect")
    /\ top[t] \in Failing => mid[t] = Home(t)
    /\ top[t] \in Ending => low[t] = Home(t)
    /\ top[t] \in {"init_connect", "try_connect", "stream_active", "send_meta_data",
                   "begin_data_capture", "activate", "signal_start", "connect_end",
                   "connect_done"} => t[1] = "connect"
    /\ top[t] \in {"send", "send_exit", "reset_stop_event", "send_done"} => t[1] = "send"
    /\ top[t] \in {"stop_encoders", "deactivate", "stopped", "end_done"} => t[1] = "end"
    /\ top[t] \in {"reconnect", "timed_wait", "reconnect_end", "reconnect_done"}
         => t[1] = "reconnect"

\* Every step keeps that: a call ends in the function that made it.
LEMMA HomesKept ==
  ASSUME Stacked, Homes, [Next]_vars
  PROVE  Homes'
<1> USE DEF Stacked, Shapes, Shape, Starting, Capturing, Failing, Ending, Homes, Home,
        Back, New, ui,
        Leaves, Turns, Calls, LeavesCreating, TurnsCreating
<1>1. ASSUME UserStart, UNCHANGED stream
      PROVE  Homes'
  BY <1>1, UserMoves, Domains
<1>2. ASSUME NEW forced \in BOOLEAN, UserStop(forced), UNCHANGED stream
      PROVE  Homes'
  BY <1>2, UserMoves, Domains
<1>3. ASSUME NEW t \in Everyone, ActualStart(t), UNCHANGED stream
      PROVE  Homes'
  BY <1>3, ActualStartMoves, Domains
<1>4. ASSUME NEW t \in Everyone, CanBegin(t), UNCHANGED stream
      PROVE  Homes'
  BY <1>4, CanBeginMoves, Domains
<1>5. ASSUME NEW t \in Everyone, NotStarted(t), UNCHANGED stream
      PROVE  Homes'
  BY <1>5, NotStartedMoves, Domains
<1>6. ASSUME Started, UNCHANGED stream
      PROVE  Homes'
  BY <1>6, StartedMoves, Domains
<1>7. ASSUME ActualStop, UNCHANGED stream
      PROVE  Homes'
  BY <1>7, ActualStopMoves, Domains
<1>8. ASSUME NEW t \in Everyone, BeginDataCapture(t), UNCHANGED stream
      PROVE  Homes'
  BY <1>8, BeginMoves, Domains
<1>9. ASSUME NEW t \in Everyone, EndDataCapture(t), UNCHANGED stream
      PROVE  Homes'
  BY <1>9, EndCaptureMoves, Domains
<1>10. ASSUME NEW t \in Everyone, EndThread(t), UNCHANGED stream
       PROVE  Homes'
  BY <1>10, EndThreadMoves, Domains
<1>11. ASSUME NEW t \in Everyone, NEW code \in Codes,
             SignalStopCode(t, code), UNCHANGED stream
       PROVE  Homes'
  BY <1>11, SignalStopMoves, Domains
<1>12. ASSUME NEW t \in Everyone, OutputReconnect(t), UNCHANGED stream
       PROVE  Homes'
  BY <1>12, ReconnectMoves, Domains
<1>13. ASSUME NEW t \in Everyone, ReconnectThread(t), UNCHANGED stream
       PROVE  Homes'
  BY <1>13, ReconnectThreadMoves, Domains
<1>14. ASSUME NEW t \in Everyone, StreamStart(t)
       PROVE  Homes'
  BY <1>14, StreamStartMoves, Domains
<1>15. ASSUME NEW t \in Everyone, TryConnect(t)
       PROVE  Homes'
  BY <1>15, TryConnectMoves, Domains
<1>16. ASSUME NEW t \in Everyone, ConnectEnd(t)
       PROVE  Homes'
  BY <1>16, ConnectEndMoves, Domains
<1>17. ASSUME NEW t \in Everyone, SendExit(t)
       PROVE  Homes'
  BY <1>17, SendExitMoves, Domains
<1>18. ASSUME NEW t \in Everyone, Shutdown(t)
       PROVE  Homes'
  BY <1>18, ShutdownMoves, Domains
<1>19. ASSUME StreamStop, UNCHANGED output
       PROVE  Homes'
  BY <1>19, StreamStopMoves, Domains
<1>20. ASSUME NEW t \in Everyone, InitConnect(t), UNCHANGED output
       PROVE  Homes'
  BY <1>20, InitConnectMoves, Domains
<1>21. ASSUME NEW t \in Everyone, StreamActive(t), UNCHANGED output
       PROVE  Homes'
  BY <1>21, StreamActiveMoves, Domains
<1>22. ASSUME NEW t \in Everyone, Send(t), UNCHANGED output
       PROVE  Homes'
  BY <1>22, SendMoves, Domains
<1>23. ASSUME NEW t \in Everyone, SendDone(t), UNCHANGED output
       PROVE  Homes'
  BY <1>23, SendDoneMoves, Domains
<1>24. ASSUME Data
       PROVE  Homes'
  BY <1>24, Still DEF Data
<1>25. ASSUME UNCHANGED vars
       PROVE  Homes'
  BY <1>25, Still DEF vars
<1> QED
  BY <1>1, <1>2, <1>3, <1>4, <1>5, <1>6, <1>7, <1>8, <1>9, <1>10, <1>11, <1>12, <1>13,
     <1>14, <1>15, <1>16, <1>17, <1>18, <1>19, <1>20, <1>21, <1>22, <1>23, <1>24, <1>25
     DEF Next, Frontend, Step, OutputStep, StreamStep, Everyone

\* What the frontend's thread runs, and the newest of each other kind.
Front == top[ui]
Connector == top[Current("connect")]
Sender == top[Current("send")]
Ender == top[Current("end")]
Retrier == top[Current("reconnect")]

\* What the frontend's thread runs when it stops the stream, and how the others end.
Asking == {"actual_stop", "cancel_reconnect", "stream_stop", "join_connect",
           "stop_sending", "raise_stop"}
Parting == {"send_exit", "end_capture"}
Answered == {"end_thread", "signal_stop"}
Clearing == {"reset_stop_event", "send_done"}

OldIdle == \A kind \in Kinds : top[New(kind)] = "idle"

\* Only the newest thread of each kind runs, the one for retries not at all.
Placed ==
    /\ OldIdle
    /\ Front \in Opening \cup {"started"} \cup Asking \cup {"post_stop", "idle"}
    /\ Connector \in Trying \cup Linking
         \cup {"signal_start", "signal_failed", "end_capture", "connect_end",
               "connect_done", "idle"}
    /\ Sender \in {"send"} \cup Parting \cup Answered \cup Clearing \cup {"idle"}
    /\ Ender \in {"stop_encoders", "deactivate", "stopped", "end_done", "idle"}
    /\ Retrier = "idle"
    /\ ~reconnecting

\* Whether the connect thread may be joined before it has ended.
Loose == Current("connect") \in detached

\* How far a start is.
StartsInOrder ==
    /\ Front \in Opening => Connector = "idle"
    /\ Front \in Opening \/ Connector \in Trying =>
         Sender = "idle" /\ Ender = "idle" /\ ~active /\ ~data_active
           /\ streamingStarting
    /\ Connector \in Trying => Front \in {"started", "idle"}
    /\ Connector \in Linking \cup {"signal_failed", "end_capture"} => Front = "idle"
    /\ Connector \in Linking \cup {"signal_start"} => Sender = "send"
    /\ Connector \in Linking => ~active /\ (data_active <=> Connector = "activate")
    /\ Connector = "signal_start" => active /\ data_active
    /\ Connector \in {"signal_failed", "end_capture"} =>
         Sender = "idle" /\ Ender = "idle" /\ ~active /\ ~data_active
    /\ Connector # "idle" => connecting
    /\ Loose => Connector \in {"connect_done", "idle"}

\* What runs while it captures, and after.
CapturesInOrder ==
    /\ data_active => Sender \in {"send"} \cup Parting /\ (active \/ Connector = "activate")
    /\ Sender = "send" => data_active \/ Connector \in Linking
    /\ Sender = "send" => sending \/ Connector = "stream_active"
    /\ Sender \in Parting => active /\ data_active
    /\ Sender = "end_thread" => active /\ ~data_active /\ Ender = "idle"
    /\ Ender # "idle" => ~data_active /\ Sender \notin {"send", "end_thread"}
    /\ Ender \in {"stop_encoders", "deactivate"} => active
    /\ Ender \in {"stopped", "end_done"} => ~active
    /\ active /\ ~data_active =>
         Sender = "end_thread" \/ Ender \in {"stop_encoders", "deactivate"}

\* How far a stop is.
StopsInOrder ==
    /\ Front \in Asking => active /\ data_active /\ Sender = "send" /\ ~stop_event
    /\ Front \in {"stop_sending", "raise_stop"} => Connector \in {"connect_done", "idle"}
    /\ stop_event => /\ Sender \notin {"send_done", "idle"}
                     /\ Connector \in {"connect_done", "idle"}
    /\ Sender \in Parting \cup Answered \cup {"reset_stop_event"} => stop_event
    /\ stops = 0 => /\ Front \notin Asking \cup {"post_stop"}
                    /\ Sender \in {"send", "idle"} /\ Ender = "idle" /\ ~stop_event

\* Who is on the way to an answer.
Owing ==
    \/ Front \in Opening
    \/ Connector \in Trying \cup Linking \cup {"signal_failed", "end_capture"}
    \/ Sender \in Answered
    \/ data_active
StillOwed ==
    /\ answers <= starts
    /\ Owing => answers < starts

InOrder == Placed /\ StartsInOrder /\ CapturesInOrder /\ StopsInOrder /\ StillOwed

HIDE DEF Goes, Creates

\* How one thread moves in terms of these.
FrontGoes(a, b) ==
    /\ Front = a /\ Front' = b
    /\ UNCHANGED <<Connector, Sender, Ender, Retrier>>
ConnectorGoes(a, b) ==
    /\ Connector = a /\ Connector' = b
    /\ UNCHANGED <<Front, Sender, Ender, Retrier>>
SenderGoes(a, b) ==
    /\ Sender = a /\ Sender' = b
    /\ UNCHANGED <<Front, Connector, Ender, Retrier>>
EnderGoes(a, b) ==
    /\ Ender = a /\ Ender' = b
    /\ UNCHANGED <<Front, Connector, Sender, Retrier>>

\* The two threads of a kind and the frontend's are all different.
LEMMA Named ==
  ASSUME NumbersTyped
  PROVE  /\ \A kind \in Kinds : /\ Current(kind) \in Threads /\ New(kind) \in Threads
                                /\ Current(kind) # New(kind)
         /\ \A t \in Everyone : \/ t = ui
                                \/ \E kind \in Kinds : t = Current(kind) \/ t = New(kind)
         /\ \A k1, k2 \in Kinds : k1 # k2 => /\ Current(k1) # Current(k2)
                                             /\ Current(k1) # New(k2) /\ New(k1) # New(k2)
         /\ ui \notin Threads
  BY DEF NumbersTyped, Kinds, Threads, ui, Current, New, Everyone

\* So are the newest of each kind.
LEMMA NewestNamed ==
  ASSUME NumbersTyped
  PROVE  /\ Current("connect") \in Everyone /\ Current("send") \in Everyone
         /\ Current("end") \in Everyone /\ Current("reconnect") \in Everyone
         /\ ui # Current("connect") /\ ui # Current("send") /\ ui # Current("end")
         /\ ui # Current("reconnect") /\ Current("connect") # Current("send")
         /\ Current("connect") # Current("end") /\ Current("connect") # Current("reconnect")
         /\ Current("send") # Current("end") /\ Current("send") # Current("reconnect")
         /\ Current("end") # Current("reconnect")
<1>1. "connect" \in Kinds /\ "send" \in Kinds /\ "end" \in Kinds /\ "reconnect" \in Kinds
  BY DEF Kinds
<1>2. \A kind \in Kinds : Current(kind) \in Everyone /\ Current(kind) # ui
  BY Named DEF Everyone
<1> QED
  BY <1>1, <1>2, Named

\* A thread that runs is the frontend's or the newest of its kind,
LEMMA Newest ==
  ASSUME NumbersTyped, OldIdle, NEW t \in Everyone, t = ui \/ top[t] # "idle"
  PROVE  \/ t = ui \/ t = Current("connect") \/ t = Current("send")
         \/ t = Current("end") \/ t = Current("reconnect")
<1>1. \A kind \in Kinds : t # New(kind)
  BY Named DEF OldIdle, Everyone
<1>2. PICK u \in {ui} \cup {Current(kind) : kind \in Kinds} : u = t
  BY <1>1, Named
<1> QED
  BY <1>2 DEF Kinds

\* and when it goes on, the others stay where they are.
LEMMA GoesOn ==
  ASSUME NumbersTyped, OldIdle, NEW t \in Everyone, NEW a, NEW b, Goes(t, a, b),
         a # "idle" \/ t = ui, UNCHANGED handle
  PROVE  /\ OldIdle'
         /\ \/ t = ui /\ FrontGoes(a, b)
            \/ t = Current("connect") /\ ConnectorGoes(a, b)
            \/ t = Current("send") /\ SenderGoes(a, b)
            \/ t = Current("end") /\ EnderGoes(a, b)
            \/ t = Current("reconnect") /\ Retrier = a
<1>1. \A kind \in Kinds : UNCHANGED <<New(kind), Current(kind)>>
  BY DEF New, Current
<1>2. \A kind \in Kinds : t # New(kind)
  BY Named DEF OldIdle, Goes, Everyone
<1>3. OldIdle'
  BY <1>1, <1>2, Named DEF OldIdle, Goes, Everyone
<1>4. UNCHANGED <<Current("connect"), Current("send"), Current("end"),
                  Current("reconnect")>>
  BY DEF Current
<1>5. \/ t = ui \/ t = Current("connect") \/ t = Current("send")
      \/ t = Current("end") \/ t = Current("reconnect")
  BY Newest DEF Goes
<1> QED
  BY <1>3, <1>4, <1>5, NewestNamed DEF Goes, FrontGoes, ConnectorGoes, SenderGoes,
     EnderGoes, Front,
     Connector, Sender, Ender, Retrier

\* A thread that creates another one of a kind whose threads have all ended.
LEMMA CreatesOn ==
  ASSUME NumbersTyped, OldIdle, NEW t \in Everyone, NEW a, NEW b,
         NEW kind \in Kinds, NEW label,
         Creates(t, a, b, New(kind), label), a # "idle", top[Current(kind)] = "idle",
         handle' = [handle EXCEPT ![kind] = 1 - handle[kind]]
  PROVE  /\ OldIdle'
         /\ Current(kind)' = New(kind)
<1>1. /\ \A other \in Kinds \ {kind} : UNCHANGED <<Current(other), New(other)>>
      /\ Current(kind)' = New(kind) /\ New(kind)' = Current(kind)
  BY DEF New, Current, NumbersTyped
<1>2. \A other \in Kinds : t # New(other)
  BY Named DEF OldIdle, Creates, Everyone
<1>3. t # Current(kind)
  BY DEF Creates
<1>4. \A other \in Kinds \ {kind} : New(other) # New(kind) /\ Current(other) # New(kind)
  BY Named
<1>5. \A other \in Kinds : /\ New(other) \in Everyone /\ Current(other) \in Everyone
                           /\ New(other) # ui
  BY Named DEF Everyone
<1>6. \A u \in Everyone \ {t, New(kind)} : top'[u] = top[u]
  BY DEF Creates
<1>7. OldIdle'
  <2> SUFFICES ASSUME NEW other \in Kinds PROVE top'[New(other)'] = "idle"
    BY DEF OldIdle
  <2>1. CASE other = kind
    <3>1. Current(kind) # New(kind)
      BY Named
    <3> QED
      BY <1>1, <1>3, <1>5, <1>6, <2>1, <3>1
  <2>2. CASE other # kind
    BY <1>1, <1>2, <1>4, <1>5, <1>6, <2>2 DEF OldIdle
  <2> QED
    BY <2>1, <2>2
<1> QED
  BY <1>1, <1>7

\* A thread that goes on is the newest of its kind.
LEMMA WhoGoes ==
  ASSUME Stacked, OldIdle, Retrier = "idle", NEW t \in Everyone, NEW a, NEW b,
         Goes(t, a, b), a # "idle" \/ t = ui, UNCHANGED <<handle, detached>>
  PROVE  /\ OldIdle'
         /\ \/ FrontGoes(a, b) \/ ConnectorGoes(a, b) \/ SenderGoes(a, b) \/ EnderGoes(a, b)
         /\ UNCHANGED Loose
         /\ t = ui => FrontGoes(a, b)
<1>1. NumbersTyped
  BY DEF Stacked
<1>2. OldIdle'
  BY <1>1, GoesOn
<1>3. \/ t = ui /\ FrontGoes(a, b)
      \/ t = Current("connect") /\ ConnectorGoes(a, b)
      \/ t = Current("send") /\ SenderGoes(a, b)
      \/ t = Current("end") /\ EnderGoes(a, b)
      \/ t = Current("reconnect") /\ Retrier = a
  BY <1>1, GoesOn
<1>4. UNCHANGED Loose
  BY DEF Loose, Current
<1>5. t # ui => Retrier # a
  OBVIOUS
<1> QED
  BY <1>1, <1>2, <1>3, <1>4, <1>5, NewestNamed

\* A step that moves no thread leaves all of them where they are.
LEMMA NobodyGoes ==
  ASSUME OldIdle, UNCHANGED <<top, handle, detached>>
  PROVE  /\ OldIdle'
         /\ UNCHANGED <<Front, Connector, Sender, Ender, Retrier, Loose>>
  BY DEF OldIdle, New, Current, Front, Connector, Sender, Ender, Retrier, Loose

\* A thread that runs is the newest of its kind.
LEMMA WhoRuns ==
  ASSUME Stacked, OldIdle, Retrier = "idle", NEW t \in Everyone, top[t] # "idle"
  PROVE  \/ t = ui /\ top[t] = Front
         \/ t = Current("connect") /\ top[t] = Connector
         \/ t = Current("send") /\ top[t] = Sender
         \/ t = Current("end") /\ top[t] = Ender
<1>1. NumbersTyped
  BY DEF Stacked
<1> QED
  BY <1>1, Newest DEF Front, Connector, Sender, Ender, Retrier

\* What that means when the frontend's thread starts the one that connects,
LEMMA ConnectorCreated ==
  ASSUME Stacked, OldIdle, Connector = "idle",
         Creates(ui, "stream_start", "started", New("connect"), "init_connect"),
         handle' = [handle EXCEPT !["connect"] = 1 - handle["connect"]],
         detached' = detached \ {New("connect")}
  PROVE  /\ OldIdle' /\ Front' = "started" /\ Connector' = "init_connect"
         /\ UNCHANGED <<Sender, Ender, Retrier>>
         /\ ~Loose'
<1>1. NumbersTyped /\ "connect" \in Kinds /\ ui \in Everyone
  BY NewestNamed DEF Stacked, Kinds
<1>2. OldIdle' /\ Current("connect")' = New("connect")
  <2>1. PICK t \in Everyone : t = ui
    BY <1>1
  <2>2. Creates(t, "stream_start", "started", New("connect"), "init_connect")
    BY <2>1
  <2> QED
    BY <1>1, <2>2, CreatesOn DEF Connector
<1>3. UNCHANGED <<Current("send"), Current("end"), Current("reconnect")>>
  BY <1>1 DEF NumbersTyped, Kinds, Current
<1>4. /\ New("connect") # Current("send") /\ New("connect") # Current("end")
      /\ New("connect") # Current("reconnect") /\ New("connect") # ui
  BY <1>1, Named DEF Kinds
<1>5. /\ top'[Current("send")] = top[Current("send")]
      /\ top'[Current("end")] = top[Current("end")]
      /\ top'[Current("reconnect")] = top[Current("reconnect")]
  BY <1>1, <1>4, NewestNamed DEF Creates
<1>6. top'[New("connect")] = "init_connect" /\ top'[ui] = "started"
  BY DEF Creates
<1>7. ~Loose'
  BY <1>2, <1>3 DEF Loose
<1> QED
  BY <1>2, <1>3, <1>5, <1>6, <1>7 DEF Front, Connector, Sender, Ender, Retrier

\* the one that connects starts the one that sends,
LEMMA SenderCreated ==
  ASSUME Stacked, OldIdle, Sender = "idle",
         Creates(Current("connect"), "try_connect", "stream_active", New("send"), "send"),
         handle' = [handle EXCEPT !["send"] = 1 - handle["send"]],
         detached' = detached \ {New("send")}
  PROVE  /\ OldIdle' /\ Connector' = "stream_active" /\ Sender' = "send"
         /\ UNCHANGED <<Front, Ender, Retrier>>
         /\ Loose' => Loose
<1>1. NumbersTyped /\ "send" \in Kinds /\ Current("connect") \in Everyone
  BY NewestNamed DEF Stacked, Kinds
<1>2. OldIdle' /\ Current("send")' = New("send")
  <2>1. PICK t \in Everyone : t = Current("connect")
    BY <1>1
  <2>2. Creates(t, "try_connect", "stream_active", New("send"), "send")
    BY <2>1
  <2> QED
    BY <1>1, <2>2, CreatesOn DEF Sender
<1>3. UNCHANGED <<Current("connect"), Current("end"), Current("reconnect")>>
  BY <1>1 DEF NumbersTyped, Kinds, Current
<1>4. /\ New("send") # Current("connect") /\ New("send") # Current("end")
      /\ New("send") # Current("reconnect") /\ New("send") # ui
  BY <1>1, Named DEF Kinds
<1>5. /\ top'[Current("end")] = top[Current("end")]
      /\ top'[Current("reconnect")] = top[Current("reconnect")]
      /\ top'[ui] = top[ui]
  BY <1>1, <1>4, NewestNamed DEF Creates
<1>6. top'[New("send")] = "send" /\ top'[Current("connect")] = "stream_active"
  BY DEF Creates
<1>7. Loose' => Loose
  BY <1>2, <1>3 DEF Loose
<1> QED
  BY <1>2, <1>3, <1>5, <1>6, <1>7 DEF Front, Connector, Sender, Ender, Retrier

\* and that one starts the one that ends the capture.
LEMMA EnderCreated ==
  ASSUME Stacked, OldIdle, Ender = "idle",
         Creates(Current("send"), "end_thread", "signal_stop", New("end"), "stop_encoders"),
         handle' = [handle EXCEPT !["end"] = 1 - handle["end"]],
         detached' = detached \ {New("end")}
  PROVE  /\ OldIdle' /\ Sender' = "signal_stop" /\ Ender' = "stop_encoders"
         /\ UNCHANGED <<Front, Connector, Retrier>>
         /\ Loose' => Loose
<1>1. NumbersTyped /\ "end" \in Kinds /\ Current("send") \in Everyone
  BY NewestNamed DEF Stacked, Kinds
<1>2. OldIdle' /\ Current("end")' = New("end")
  <2>1. PICK t \in Everyone : t = Current("send")
    BY <1>1
  <2>2. Creates(t, "end_thread", "signal_stop", New("end"), "stop_encoders")
    BY <2>1
  <2> QED
    BY <1>1, <2>2, CreatesOn DEF Ender
<1>3. UNCHANGED <<Current("connect"), Current("send"), Current("reconnect")>>
  BY <1>1 DEF NumbersTyped, Kinds, Current
<1>4. /\ New("end") # Current("connect") /\ New("end") # Current("send")
      /\ New("end") # Current("reconnect") /\ New("end") # ui
  BY <1>1, Named DEF Kinds
<1>5. /\ top'[Current("connect")] = top[Current("connect")]
      /\ top'[Current("reconnect")] = top[Current("reconnect")]
      /\ top'[ui] = top[ui]
  BY <1>1, <1>4, NewestNamed DEF Creates
<1>6. top'[New("end")] = "stop_encoders" /\ top'[Current("send")] = "signal_stop"
  BY DEF Creates
<1>7. Loose' => Loose
  BY <1>2, <1>3 DEF Loose
<1> QED
  BY <1>2, <1>3, <1>5, <1>6, <1>7 DEF Front, Connector, Sender, Ender, Retrier

\* A stop finds no reconnect thread to join when the output does not reconnect.
LEMMA CancelsNothing ==
  ASSUME Stacked, ActualStop, ~reconnecting
  PROVE  ~Goes(ui, "cancel_reconnect", "join_reconnect")
<1>1. SUFFICES ASSUME Goes(ui, "cancel_reconnect", "join_reconnect") PROVE FALSE
  OBVIOUS
<1>2. ~At(ui, "actual_stop") /\ ~At(ui, "join_reconnect")
  BY <1>1, AtTop, LabelsListed DEF Goes, Stacked
<1>3. Goto(ui, <<"stream_stop">>)
  BY <1>2 DEF ActualStop
<1>4. Turns(ui, "stream_stop")
  BY <1>1, <1>3, TurnMove, LabelsListed DEF Goes, Stacked
<1> QED
  BY <1>1, <1>4 DEF Goes, Turns, top

\* rtmp_stream_stop joins the connect thread while connecting is set, and wakes the
\* send thread only when it finds one.
LEMMA StopsUnconnected ==
  ASSUME Stacked, StreamStop
  PROVE  /\ Goes(ui, "stream_stop", "stop_sending") => ~connecting
         /\ Goes(ui, "join_connect", "stop_sending") => Connector = "idle" \/ Loose
         /\ Goes(ui, "stop_sending", "raise_stop") => sending
<1>1. ASSUME Goes(ui, "stream_stop", "stop_sending"), connecting PROVE FALSE
  <2>1. ~At(ui, "join_connect") /\ ~At(ui, "stop_sending") /\ ~At(ui, "raise_stop")
          /\ ~At(ui, "post_stop")
    BY <1>1, AtTop, LabelsListed DEF Goes, Stacked
  <2>2. Goto(ui, <<>>) \/ Goto(ui, <<"join_connect">>)
    BY <1>1, <2>1 DEF StreamStop
  <2>3. Leaves(ui) \/ Turns(ui, "join_connect")
    BY <1>1, <2>2, LeaveMove, TurnMove, LabelsListed DEF Goes, Stacked
  <2>4. mid[ui] = "idle"
    BY <1>1 DEF Goes, Stacked, Shapes, Shape, Starting, Capturing, Failing, Ending
  <2> QED
    BY <1>1, <2>3, <2>4 DEF Goes, Leaves, Turns, top
<1>2. ASSUME Goes(ui, "join_connect", "stop_sending")
      PROVE  Connector = "idle" \/ Loose
  <2>1. Joined("connect")
    BY <1>2, StreamStopDoes DEF Goes
  <2>2. Current("connect") \in Everyone
    BY NewestNamed DEF Stacked
  <2> QED
    BY <2>1, <2>2, AtTop DEF Joined, Connector, Loose, Stacked
<1>3. Goes(ui, "stop_sending", "raise_stop") => sending
  BY StreamStopDoes DEF Goes
<1> QED
  BY <1>1, <1>2, <1>3

\* What the end of a capture is followed by in the thread that sends.
Farewells == \A t \in Everyone : top[t] = "end_thread" => mid[t] = "signal_stop"

\* try_connect fails or starts the send thread.
LEMMA TryConnectFails ==
  ASSUME Stacked, NEW t \in Everyone, TryConnect(t)
  PROVE  \/ Goes(t, "try_connect", "signal_failed") /\ UNCHANGED <<handle, detached>>
         \/ /\ Creates(t, "try_connect", "stream_active", New("send"), "send")
            /\ handle' = [handle EXCEPT !["send"] = 1 - handle["send"]]
            /\ detached' = detached \ {New("send")}
<1>1. At(t, "try_connect")
  BY DEF TryConnect
<1>2. ASSUME UNCHANGED <<handle, detached>>
      PROVE  Goes(t, "try_connect", "signal_failed") /\ UNCHANGED <<handle, detached>>
  <2>1. ~ (handle' = [handle EXCEPT !["send"] = 1 - handle["send"]])
    BY <1>2 DEF Stacked, NumbersTyped, Kinds
  <2>2. Goto(t, <<"signal_failed", "connect_end">>)
    BY <2>1 DEF TryConnect, Create, SignalStop
  <2>3. top[t] = "try_connect" /\ low[t] = "idle"
    BY <1>1, AtLabel, LabelsListed, LowIdle DEF Stacked
  <2>4. Calls(t, "signal_failed", "connect_end")
    BY <2>2, <2>3, CallMove, LabelsListed DEF Stacked
  <2> QED
    BY <1>2, <2>3, <2>4, Domains DEF Goes, Calls
<1>3. ASSUME Create(t, <<"stream_active">>, "send", "send")
      PROVE  /\ Creates(t, "try_connect", "stream_active", New("send"), "send")
             /\ handle' = [handle EXCEPT !["send"] = 1 - handle["send"]]
             /\ detached' = detached \ {New("send")}
  <2>1. top[t] = "try_connect"
    BY <1>1, AtLabel, LabelsListed DEF Stacked
  <2>2. /\ TurnsCreating(t, "stream_active", New("send"), "send")
        /\ New("send") \in Threads /\ top[New("send")] = "idle"
    BY <1>3, <2>1, TurnCreateMove, LabelsListed DEF Stacked, NumbersTyped, Kinds
  <2> QED
    BY <1>3, <2>1, <2>2, Domains DEF Creates, TurnsCreating, Create, New, Everyone
<1> QED
  BY <1>2, <1>3 DEF TryConnect

\* Every step keeps a stream that is stopped once in order,
LEMMA InOrderKept ==
  ASSUME Stacked, StoppedOnce, Homes, Farewells, InOrder, [Next]_vars
  PROVE  InOrder'
<1> USE DEF InOrder, Placed, StartsInOrder, CapturesInOrder, StopsInOrder, Owing,
        StillOwed, Opening, Trying, Linking, Asking, Parting, Answered, Clearing
<1>1. ASSUME UserStart, UNCHANGED stream
      PROVE  InOrder'
  <2>1. UNCHANGED <<handle, detached>>
    BY <1>1, UserStartDoes
  <2>2. OldIdle' /\ UNCHANGED Loose /\ FrontGoes("idle", "actual_start")
    BY <1>1, <2>1, UserStartDoes, WhoGoes
  <2>3. \A kind \in Kinds : top[Current(kind)] \in Waits \cup {"idle"}
    BY <1>1, UserStartDoes, OthersRest, Named DEF StoppedOnce, Everyone, Stacked
  <2>4. Connector \in Waits \cup {"idle"} /\ Sender \in Waits \cup {"idle"}
          /\ Ender \in Waits \cup {"idle"}
    BY <2>3 DEF Kinds, Connector, Sender, Ender
  <2>5. ~active /\ ~streamingStarting
    BY <1>1, UserStartDoes
  <2>6. Connector = "idle" /\ Sender = "idle" /\ Ender = "idle"
    BY <2>4, <2>5 DEF Waits
  <2>7. ~data_active /\ ~stop_event
    BY <2>6
  <2>8. /\ streamingStarting' /\ starts' = starts + 1 /\ stops' = 0
        /\ UNCHANGED <<flags, answers, stream>>
    BY <1>1, UserStartDoes
  <2>9. answers \in Nat /\ starts \in Nat
    BY DEF Stacked, NumbersTyped
  <2> QED
    BY <2>2, <2>5, <2>6, <2>7, <2>8, <2>9 DEF FrontGoes
<1>2. ASSUME NEW forced \in BOOLEAN, UserStop(forced), UNCHANGED stream
      PROVE  InOrder'
  <2>1. UNCHANGED <<handle, detached>>
    BY <1>2, UserStopDoes
  <2>2. OldIdle' /\ UNCHANGED <<Loose, Connector, Sender, Ender, Retrier>>
          /\ Front = "idle" /\ Front' \in {"actual_stop", "idle"}
    <3>1. CASE Goes(ui, "idle", "actual_stop")
      BY <2>1, <3>1, WhoGoes DEF FrontGoes
    <3>2. CASE UNCHANGED <<top, mid>>
      <4>1. top[ui] = "idle"
        BY <1>2, AtTop DEF UserStop, Stacked
      <4> QED
        BY <2>1, <3>2, <4>1, NobodyGoes DEF Front
    <3> QED
      BY <1>2, <3>1, <3>2, UserStopDoes
  <2>3. stops = 0 /\ stops' = 1
    BY <1>2, UserStopDoes, BoundsAssumption DEF StoppedOnce, Stacked, NumbersTyped
  <2>4. active
    BY <1>2, UserStopDoes
  <2>5. UNCHANGED <<flags, answers, starts, streamingStarting, stream>>
    BY <1>2, UserStopDoes
  <2> QED
    BY <2>2, <2>3, <2>4, <2>5
<1>3. ASSUME NEW t \in Everyone, ActualStart(t), UNCHANGED stream
      PROVE  InOrder'
  <2>1. CASE Goes(t, "actual_start", "can_begin")
    <3>1. UNCHANGED <<output, stream>>
      BY <1>3, <2>1, ActualStartDoes
    <3>2. OldIdle' /\ UNCHANGED Loose /\ FrontGoes("actual_start", "can_begin")
      BY <2>1, <3>1, WhoGoes DEF ConnectorGoes, SenderGoes, EnderGoes
    <3> QED
      BY <3>1, <3>2 DEF FrontGoes
  <2> QED
    BY <1>3, <2>1, ActualStartDoes
<1>4. ASSUME NEW t \in Everyone, CanBegin(t), UNCHANGED stream
      PROVE  InOrder'
  <2>1. CASE Goes(t, "can_begin", "not_started")
    <3>1. active
      BY <1>4, <2>1, CanBeginDoes DEF Goes
    <3>2. \/ Front = "can_begin" \/ Connector = "can_begin"
          \/ Sender = "can_begin" \/ Ender = "can_begin"
      BY <2>1, WhoRuns DEF Goes
    <3> QED
      BY <3>1, <3>2
  <2>2. CASE Goes(t, "can_begin", "join_end")
    <3>1. UNCHANGED <<output, stream>>
      BY <1>4, <2>2, CanBeginDoes DEF Goes
    <3>2. OldIdle' /\ UNCHANGED Loose /\ FrontGoes("can_begin", "join_end")
      BY <2>2, <3>1, WhoGoes DEF ConnectorGoes, SenderGoes, EnderGoes
    <3> QED
      BY <3>1, <3>2 DEF FrontGoes
  <2>3. CASE Goes(t, "join_end", "stream_start")
    <3>1. UNCHANGED <<output, stream>>
      BY <1>4, <2>3, CanBeginDoes DEF Goes
    <3>2. OldIdle' /\ UNCHANGED Loose /\ FrontGoes("join_end", "stream_start")
      BY <2>3, <3>1, WhoGoes DEF ConnectorGoes, SenderGoes, EnderGoes
    <3> QED
      BY <3>1, <3>2 DEF FrontGoes
  <2> QED
    BY <1>4, <2>1, <2>2, <2>3, CanBeginDoes
<1>5. ASSUME NEW t \in Everyone, NotStarted(t), UNCHANGED stream
      PROVE  InOrder'
  <2>1. top[t] \in {"not_started"}
    BY <1>5, NotStartedDoes DEF Goes, Creates
  <2> QED
    BY <2>1, WhoRuns
<1>6. ASSUME Started, UNCHANGED stream
      PROVE  InOrder'
  <2>1. CASE Goes(ui, "started", "idle")
    <3>1. UNCHANGED <<output, stream>>
      BY <1>6, <2>1, StartedDoes
    <3>2. OldIdle' /\ UNCHANGED Loose /\ FrontGoes("started", "idle")
      BY <2>1, <3>1, WhoGoes
    <3> QED
      BY <3>1, <3>2 DEF FrontGoes
  <2> QED
    BY <1>6, <2>1, StartedDoes
<1>7. ASSUME ActualStop, UNCHANGED stream
      PROVE  InOrder'
  <2>1. CASE Goes(ui, "actual_stop", "idle")
    <3>1. UNCHANGED <<handle, detached, end_data_capture_thread_active, flags, reconnects,
                      reconnect_stop_event, frontend, history, stream>>
      BY <1>7, <2>1, ActualStopDoes DEF Goes
    <3>2. OldIdle' /\ UNCHANGED Loose /\ FrontGoes("actual_stop", "idle")
      BY <2>1, <3>1, WhoGoes
    <3> QED
      BY <3>1, <3>2 DEF FrontGoes
  <2>2. CASE Goes(ui, "actual_stop", "cancel_reconnect")
    <3>1. UNCHANGED <<handle, detached, end_data_capture_thread_active, flags, reconnects,
                      reconnect_stop_event, frontend, history, stream>>
      BY <1>7, <2>2, ActualStopDoes DEF Goes
    <3>2. OldIdle' /\ UNCHANGED Loose /\ FrontGoes("actual_stop", "cancel_reconnect")
      BY <2>2, <3>1, WhoGoes
    <3> QED
      BY <3>1, <3>2 DEF FrontGoes
  <2>3. CASE Goes(ui, "cancel_reconnect", "join_reconnect")
    <3>1. FALSE
      BY <1>7, <2>3, CancelsNothing DEF Goes
    <3>2. \/ Front = "cancel_reconnect" \/ Connector = "cancel_reconnect"
          \/ Sender = "cancel_reconnect" \/ Ender = "cancel_reconnect"
      BY <2>3, WhoRuns DEF Goes
    <3> QED
      BY <3>1, <3>2
  <2>4. CASE Goes(ui, "cancel_reconnect", "stream_stop")
    <3>1. /\ ~reconnecting => UNCHANGED reconnect_stop_event
          /\ UNCHANGED <<handle, detached, end_data_capture_thread_active, flags,
                         reconnects, stopping_event, frontend, history, stream>>
      BY <1>7, <2>4, ActualStopDoes DEF Goes
    <3>2. OldIdle' /\ UNCHANGED Loose /\ FrontGoes("cancel_reconnect", "stream_stop")
      BY <2>4, <3>1, WhoGoes
    <3> QED
      BY <3>1, <3>2 DEF FrontGoes
  <2>5. CASE Goes(ui, "join_reconnect", "stream_stop")
    <3>1. UNCHANGED <<output, stream>>
      BY <1>7, <2>5, ActualStopDoes DEF Goes
    <3>2. OldIdle' /\ UNCHANGED Loose /\ FrontGoes("join_reconnect", "stream_stop")
      BY <2>5, <3>1, WhoGoes
    <3> QED
      BY <3>1, <3>2 DEF FrontGoes
  <2> QED
    BY <1>7, <2>1, <2>2, <2>3, <2>4, <2>5, ActualStopDoes
<1>8. ASSUME NEW t \in Everyone, BeginDataCapture(t), UNCHANGED stream
      PROVE  InOrder'
  <2>1. CASE Goes(t, "begin_data_capture", "connect_end")
    <3>1. active
      BY <1>8, <2>1, BeginDoes DEF Goes
    <3>2. \/ Front = "begin_data_capture" \/ Connector = "begin_data_capture"
          \/ Sender = "begin_data_capture" \/ Ender = "begin_data_capture"
      BY <2>1, WhoRuns DEF Goes
    <3> QED
      BY <3>1, <3>2
  <2>2. CASE Goes(t, "begin_data_capture", "activate")
    <3>1. /\ data_active'
          /\ hooked'
          /\ UNCHANGED <<handle, detached, end_data_capture_thread_active, active,
                         reconnecting, reconnects, events, frontend, history, stream>>
      BY <1>8, <2>2, BeginDoes DEF Goes
    <3>2. OldIdle' /\ UNCHANGED Loose /\ ConnectorGoes("begin_data_capture", "activate")
      BY <2>2, <3>1, WhoGoes DEF FrontGoes, SenderGoes, EnderGoes
    <3> QED
      BY <3>1, <3>2 DEF ConnectorGoes
  <2>3. CASE Goes(t, "activate", "signal_start")
    <3>1. /\ active'
          /\ UNCHANGED <<handle, detached, end_data_capture_thread_active, data_active,
                         reconnecting, hooked, reconnects, events, frontend, history, stream>>
      BY <1>8, <2>3, BeginDoes DEF Goes
    <3>2. OldIdle' /\ UNCHANGED Loose /\ ConnectorGoes("activate", "signal_start")
      BY <2>3, <3>1, WhoGoes DEF FrontGoes, SenderGoes, EnderGoes
    <3> QED
      BY <3>1, <3>2 DEF ConnectorGoes
  <2>4. CASE Goes(t, "signal_start", "connect_end")
    <3>1. /\ ~reconnecting'
          /\ streamingStarting' = (streamingStarting /\ reconnecting)
          /\ attempts' = 0
          /\ UNCHANGED <<handle, detached, end_data_capture_thread_active, active,
                         data_active, hooked, reconnects, events, force, starts, stops,
                         told, answers, stream>>
      BY <1>8, <2>4, BeginDoes DEF Goes
    <3>2. OldIdle' /\ UNCHANGED Loose /\ ConnectorGoes("signal_start", "connect_end")
      BY <2>4, <3>1, WhoGoes DEF FrontGoes, SenderGoes, EnderGoes
    <3> QED
      BY <3>1, <3>2 DEF ConnectorGoes
  <2> QED
    BY <1>8, <2>1, <2>2, <2>3, <2>4, BeginDoes
<1>9. ASSUME NEW t \in Everyone, EndDataCapture(t), UNCHANGED stream
      PROVE  InOrder'
  <2>1. top[t] \in {"end_capture", "suspend_capture", "end_thread", "signal_stop"}
    BY <1>9, EndCaptureDoes DEF Goes, Creates
  <2>2. \/ t = Current("connect") /\ top[t] = Connector
        \/ t = Current("send") /\ top[t] = Sender
    BY <2>1, WhoRuns
  <2>3. CASE Connector = "end_capture" /\ t = Current("connect")
    <3>1. ~active /\ top[t] = "end_capture"
      BY <2>3, <2>2 DEF Connector
    <3>2. top'[t] = "connect_end"
      BY <1>9, <2>3, <3>1, EndCaptureMoves, Domains
         DEF Homes, Home, Failing, Leaves, Current
    <3>3. /\ Goes(t, "end_capture", "connect_end")
          /\ answers' = answers + 1
          /\ UNCHANGED <<handle, detached, flags, starts, stops, stream>>
      BY <1>9, <3>1, <3>2, EndCaptureDoes DEF SignalsStop, Goes, Creates
    <3>4. OldIdle' /\ UNCHANGED Loose /\ ConnectorGoes("end_capture", "connect_end")
      BY <2>3, <3>3, WhoGoes DEF FrontGoes, SenderGoes, EnderGoes
    <3> QED
      BY <2>3, <3>3, <3>4 DEF ConnectorGoes, Stacked, NumbersTyped
  <2>4. CASE Sender = "end_capture" /\ t = Current("send")
    <3>1. active /\ data_active /\ top[t] = "end_capture"
      BY <2>4 DEF Sender
    <3>2. /\ Goes(t, "end_capture", "end_thread") /\ ~data_active'
          /\ UNCHANGED <<handle, detached, active, reconnecting, frontend, history, stream>>
      BY <1>9, <3>1, EndCaptureDoes DEF Goes, Creates
    <3>3. /\ OldIdle' /\ UNCHANGED Loose
          /\ \/ FrontGoes("end_capture", "end_thread")
             \/ ConnectorGoes("end_capture", "end_thread")
             \/ SenderGoes("end_capture", "end_thread")
             \/ EnderGoes("end_capture", "end_thread")
      BY <3>2, WhoGoes
    <3> QED
      BY <2>4, <3>1, <3>2, <3>3 DEF FrontGoes, ConnectorGoes, SenderGoes, EnderGoes
  <2>5. CASE Sender = "end_thread" /\ t = Current("send")
    <3>1. top[t] = "end_thread" /\ Ender = "idle"
      BY <2>5 DEF Sender
    <3>2. /\ Creates(t, "end_thread", "signal_stop", New("end"), "stop_encoders")
          /\ UNCHANGED <<flags, frontend, history, stream>>
      BY <1>9, <3>1, EndCaptureDoes DEF Goes, Creates, Farewells
    <3>3. /\ handle' = [handle EXCEPT !["end"] = 1 - handle["end"]]
          /\ detached' = detached \ {New("end")}
      BY <1>9, <3>1, AtTop, LabelsListed DEF Stacked, EndDataCapture, Create, New
    <3>4. /\ OldIdle' /\ Sender' = "signal_stop" /\ Ender' = "stop_encoders"
          /\ UNCHANGED <<Front, Connector, Retrier>>
          /\ Loose' => Loose
      BY <2>5, <3>1, <3>2, <3>3, EnderCreated
    <3> QED
      BY <2>5, <3>1, <3>2, <3>4
  <2>6. CASE Sender = "signal_stop" /\ t = Current("send")
    <3>1. top[t] = "signal_stop"
      BY <2>6 DEF Sender
    <3>2. top'[t] = "reset_stop_event"
      BY <1>9, <2>6, <3>1, EndCaptureMoves, Domains
         DEF Homes, Home, Failing, Leaves, Current
    <3>3. /\ Goes(t, "signal_stop", "reset_stop_event")
          /\ answers' = answers + 1 /\ ~streamingStarting'
          /\ UNCHANGED <<handle, detached, flags, starts, stops, stream>>
      BY <1>9, <3>1, <3>2, EndCaptureDoes DEF SignalsStop, Goes, Creates
    <3>4. /\ OldIdle' /\ UNCHANGED Loose
          /\ \/ FrontGoes("signal_stop", "reset_stop_event")
             \/ ConnectorGoes("signal_stop", "reset_stop_event")
             \/ SenderGoes("signal_stop", "reset_stop_event")
             \/ EnderGoes("signal_stop", "reset_stop_event")
      BY <3>3, WhoGoes
    <3> QED
      BY <2>6, <3>3, <3>4
         DEF FrontGoes, ConnectorGoes, SenderGoes, EnderGoes, Stacked, NumbersTyped
  <2> QED
    BY <2>1, <2>2, <2>3, <2>4, <2>5, <2>6
<1>10. ASSUME NEW t \in Everyone, EndThread(t), UNCHANGED stream
       PROVE  InOrder'
  <2>1. CASE Goes(t, "stop_encoders", "deactivate")
    <3>1. /\ ~hooked'
          /\ UNCHANGED <<handle, detached, end_data_capture_thread_active, active,
                         data_active, reconnecting, reconnects, events, frontend, history,
                         stream>>
      BY <1>10, <2>1, EndThreadDoes DEF Goes
    <3>2. OldIdle' /\ UNCHANGED Loose /\ EnderGoes("stop_encoders", "deactivate")
      BY <2>1, <3>1, WhoGoes DEF FrontGoes, ConnectorGoes, SenderGoes
    <3> QED
      BY <3>1, <3>2 DEF EnderGoes
  <2>2. CASE Goes(t, "deactivate", "stopped")
    <3>1. /\ ~active'
          /\ UNCHANGED <<handle, detached, end_data_capture_thread_active, data_active,
                         reconnecting, hooked, reconnects, events, frontend, history, stream>>
      BY <1>10, <2>2, EndThreadDoes DEF Goes
    <3>2. OldIdle' /\ UNCHANGED Loose /\ EnderGoes("deactivate", "stopped")
      BY <2>2, <3>1, WhoGoes DEF FrontGoes, ConnectorGoes, SenderGoes
    <3> QED
      BY <3>1, <3>2 DEF EnderGoes
  <2>3. CASE Goes(t, "stopped", "end_done")
    <3>1. UNCHANGED <<handle, detached, end_data_capture_thread_active, flags, reconnects,
                      reconnect_stop_event, frontend, history, stream>>
      BY <1>10, <2>3, EndThreadDoes DEF Goes
    <3>2. OldIdle' /\ UNCHANGED Loose /\ EnderGoes("stopped", "end_done")
      BY <2>3, <3>1, WhoGoes DEF FrontGoes, ConnectorGoes, SenderGoes
    <3> QED
      BY <3>1, <3>2 DEF EnderGoes
  <2>4. CASE Goes(t, "end_done", "idle")
    <3>1. /\ ~end_data_capture_thread_active'
          /\ UNCHANGED <<handle, detached, flags, reconnects, events, frontend, history,
                         stream>>
      BY <1>10, <2>4, EndThreadDoes DEF Goes
    <3>2. OldIdle' /\ UNCHANGED Loose /\ EnderGoes("end_done", "idle")
      BY <2>4, <3>1, WhoGoes DEF FrontGoes, ConnectorGoes, SenderGoes
    <3> QED
      BY <3>1, <3>2 DEF EnderGoes
  <2> QED
    BY <1>10, <2>1, <2>2, <2>3, <2>4, EndThreadDoes
<1>11. ASSUME NEW t \in Everyone, NEW code \in Codes,
             SignalStopCode(t, code), UNCHANGED stream
       PROVE  InOrder'
  <2>1. UNCHANGED <<handle, detached>>
    BY <1>11, SignalStopDoes
  <2>2. \/ t = ui /\ top[t] = Front
        \/ t = Current("connect") /\ top[t] = Connector
        \/ t = Current("send") /\ top[t] = Sender
        \/ t = Current("end") /\ top[t] = Ender
    BY <1>11, SignalStopDoes, WhoRuns DEF Goes
  <2>3. top[t] = "signal_failed" /\ code = "failed"
    BY <1>11, <2>2, SignalStopDoes DEF Goes
  <2>4. /\ Goes(t, "signal_failed", "end_capture") /\ ~reconnecting'
        /\ UNCHANGED <<active, data_active, hooked, reconnects, events, frontend, history>>
    BY <1>11, <2>3, SignalStopDoes DEF CanReconnect, Goes
  <2>5. /\ OldIdle' /\ UNCHANGED Loose
        /\ \/ FrontGoes("signal_failed", "end_capture")
           \/ ConnectorGoes("signal_failed", "end_capture")
           \/ SenderGoes("signal_failed", "end_capture")
           \/ EnderGoes("signal_failed", "end_capture")
    BY <2>1, <2>4, WhoGoes
  <2> QED
    BY <1>11, <2>4, <2>5 DEF FrontGoes, ConnectorGoes, SenderGoes, EnderGoes
<1>12. ASSUME NEW t \in Everyone, OutputReconnect(t), UNCHANGED stream
       PROVE  InOrder'
  <2>1. top[t] \in {"output_reconnect", "reset_stop", "retry"}
    BY <1>12, ReconnectDoes DEF Goes, Creates
  <2> QED
    BY <2>1, WhoRuns
<1>13. ASSUME NEW t \in Everyone, ReconnectThread(t), UNCHANGED stream
       PROVE  InOrder'
  <2>1. top[t] \in {"reconnect", "timed_wait", "reconnect_end", "reconnect_done"}
    BY <1>13, ReconnectThreadDoes DEF Goes, Creates
  <2> QED
    BY <2>1, WhoRuns
<1>14. ASSUME NEW t \in Everyone, StreamStart(t)
       PROVE  InOrder'
  <2>1. top[t] = "stream_start"
    BY <1>14, StreamStartDoes DEF Goes, Creates
  <2>2. t = ui /\ Front = "stream_start"
    BY <2>1, WhoRuns
  <2>3. /\ connecting'
        /\ UNCHANGED <<flags, frontend, history, sending, stop_event>>
    BY <1>14, <2>2, StreamStartDoes
  <2>4. top'[ui] = "started"
    BY <1>14, <2>1, <2>2, StreamStartMoves, Domains
       DEF Homes, Back, Starting, LeavesCreating, Threads, Kinds
  <2>5. Creates(ui, "stream_start", "started", New("connect"), "init_connect")
    BY <1>14, <2>2, <2>4, StreamStartDoes DEF Creates
  <2>6. /\ handle' = [handle EXCEPT !["connect"] = 1 - handle["connect"]]
        /\ detached' = detached \ {New("connect")}
    BY <1>14, <2>1, <2>2, AtTop, LabelsListed DEF Stacked, StreamStart, Create, New
  <2>7. Connector = "idle"
    BY <2>2
  <2>8. /\ OldIdle' /\ Front' = "started" /\ Connector' = "init_connect"
        /\ UNCHANGED <<Sender, Ender, Retrier>>
        /\ ~Loose'
    BY <2>5, <2>6, <2>7, ConnectorCreated
  <2> QED
    BY <2>2, <2>3, <2>7, <2>8
<1>15. ASSUME NEW t \in Everyone, TryConnect(t)
       PROVE  InOrder'
  <2>1. top[t] = "try_connect"
    BY <1>15, TryConnectDoes DEF Goes, Creates
  <2>2. t = Current("connect") /\ Connector = "try_connect"
    BY <2>1, WhoRuns
  <2>3. Front = "idle"
    <3>1. After(DOMAIN pc \ {t}) /\ Prompt
      BY <1>15 DEF TryConnect, StoppedOnce
    <3>2. ui \in Everyone \ {t}
      BY <2>2, NewestNamed DEF Stacked
    <3>3. Front \in Waits \cup {"idle"}
      BY <3>1, <3>2, WaitsAlone DEF Front
    <3> QED
      BY <2>2, <3>3 DEF Waits
  <2>4. UNCHANGED <<flags, frontend, answers, connecting, sending, stop_event>>
    BY <1>15, TryConnectDoes
  <2>5. CASE Goes(t, "try_connect", "signal_failed")
    <3>1. UNCHANGED <<handle, detached>>
      BY <1>15, <2>5, TryConnectFails DEF Goes, Creates
    <3>2. /\ OldIdle' /\ UNCHANGED Loose
          /\ \/ FrontGoes("try_connect", "signal_failed")
             \/ ConnectorGoes("try_connect", "signal_failed")
             \/ SenderGoes("try_connect", "signal_failed")
             \/ EnderGoes("try_connect", "signal_failed")
      BY <2>5, <3>1, WhoGoes
    <3> QED
      BY <2>2, <2>3, <2>4, <3>2 DEF FrontGoes, ConnectorGoes, SenderGoes, EnderGoes
  <2>6. CASE Creates(t, "try_connect", "stream_active", New("send"), "send")
    <3>1. /\ handle' = [handle EXCEPT !["send"] = 1 - handle["send"]]
          /\ detached' = detached \ {New("send")}
      BY <1>15, <2>6, TryConnectFails DEF Goes, Creates
    <3>2. Sender = "idle"
      BY <2>2
    <3>3. /\ OldIdle' /\ Connector' = "stream_active" /\ Sender' = "send"
          /\ UNCHANGED <<Front, Ender, Retrier>>
          /\ Loose' => Loose
      BY <2>2, <2>6, <3>1, <3>2, SenderCreated
    <3> QED
      BY <2>2, <2>3, <2>4, <3>2, <3>3
  <2> QED
    BY <1>15, <2>5, <2>6, TryConnectDoes
<1>16. ASSUME NEW t \in Everyone, ConnectEnd(t)
       PROVE  InOrder'
  <2>1. /\ top[t] \in {"connect_end", "connect_done"}
        /\ UNCHANGED handle
    BY <1>16, ConnectEndDoes DEF Goes
  <2>2. t = Current("connect") /\ top[t] = Connector
    BY <2>1, WhoRuns
  <2>3. ASSUME Goes(t, "connect_end", "connect_done")
        PROVE  OldIdle' /\ ConnectorGoes("connect_end", "connect_done")
    BY <2>1, <2>2, <2>3, GoesOn, NewestNamed DEF Stacked
  <2>4. ASSUME Goes(t, "connect_done", "idle")
        PROVE  OldIdle' /\ ConnectorGoes("connect_done", "idle")
    BY <2>1, <2>2, <2>4, GoesOn, NewestNamed DEF Stacked
  <2>5. \/ ConnectorGoes("connect_end", "connect_done") /\ UNCHANGED connecting
        \/ ConnectorGoes("connect_done", "idle") /\ ~connecting'
    BY <1>16, <2>3, <2>4, ConnectEndDoes
  <2>6. OldIdle'
    BY <1>16, <2>3, <2>4, ConnectEndDoes
  <2>7. UNCHANGED <<flags, reconnects, events, frontend, history, sending, stop_event>>
    BY <1>16, ConnectEndDoes
  <2> QED
    BY <2>5, <2>6, <2>7 DEF ConnectorGoes
<1>17. ASSUME NEW t \in Everyone, SendExit(t)
       PROVE  InOrder'
  <2>1. /\ top[t] = "send_exit"
        /\ UNCHANGED <<handle, flags, reconnects, events, frontend, history, stream>>
    BY <1>17, SendExitDoes DEF Goes
  <2>2. t = Current("send") /\ top[t] = Sender
    BY <2>1, WhoRuns
  <2>3. Goes(t, "send_exit", "end_capture")
    BY <1>17, <2>1, <2>2, SendExitDoes
  <2>4. OldIdle' /\ SenderGoes("send_exit", "end_capture")
    BY <2>1, <2>2, <2>3, GoesOn, NewestNamed DEF Stacked
  <2>5. UNCHANGED Loose
    BY <1>17, <2>1, NewestNamed DEF SendExit, Loose, Current
  <2> QED
    BY <2>1, <2>4, <2>5 DEF SenderGoes
<1>18. ASSUME NEW t \in Everyone, Shutdown(t)
       PROVE  InOrder'
  <2>1. CASE Goes(t, "send", "send_exit")
    <3>1. /\ stop_event
          /\ packet
          /\ send_sem > 0
          /\ send_sem' = send_sem - 1
          /\ ~packet'
          /\ UNCHANGED <<output, connecting, sending, stop_event, stop_ts, disconnected>>
      BY <1>18, <2>1, ShutdownDoes
    <3>2. OldIdle' /\ UNCHANGED Loose /\ SenderGoes("send", "send_exit")
      BY <2>1, <3>1, WhoGoes DEF FrontGoes, ConnectorGoes, EnderGoes
    <3> QED
      BY <3>1, <3>2 DEF SenderGoes
  <2> QED
    BY <1>18, <2>1, ShutdownDoes
<1>19. ASSUME StreamStop, UNCHANGED output
       PROVE  InOrder'
  <2>1. CASE Goes(ui, "stream_stop", "idle")
    <3>1. UNCHANGED <<output, stream>>
      BY <1>19, <2>1, StreamStopDoes DEF Goes
    <3>2. OldIdle' /\ UNCHANGED Loose /\ FrontGoes("stream_stop", "idle")
      BY <2>1, <3>1, WhoGoes
    <3> QED
      BY <3>1, <3>2 DEF FrontGoes
  <2>2. CASE Goes(ui, "stream_stop", "join_connect")
    <3>1. UNCHANGED <<output, stream>>
      BY <1>19, <2>2, StreamStopDoes DEF Goes
    <3>2. OldIdle' /\ UNCHANGED Loose /\ FrontGoes("stream_stop", "join_connect")
      BY <2>2, <3>1, WhoGoes
    <3> QED
      BY <3>1, <3>2 DEF FrontGoes
  <2>3. CASE Goes(ui, "stream_stop", "stop_sending")
    <3>1. UNCHANGED <<output, stream>>
      BY <1>19, <2>3, StreamStopDoes DEF Goes
    <3>2. OldIdle' /\ UNCHANGED Loose /\ FrontGoes("stream_stop", "stop_sending")
      BY <2>3, <3>1, WhoGoes
    <3> QED
      BY <3>1, <3>2, <2>3, <1>19, StopsUnconnected DEF FrontGoes
  <2>4. CASE Goes(ui, "join_connect", "stop_sending")
    <3>1. /\ Joined("connect")
          /\ UNCHANGED <<output, stream>>
      BY <1>19, <2>4, StreamStopDoes DEF Goes
    <3>2. OldIdle' /\ UNCHANGED Loose /\ FrontGoes("join_connect", "stop_sending")
      BY <2>4, <3>1, WhoGoes
    <3> QED
      BY <3>1, <3>2, <2>4, <1>19, StopsUnconnected DEF FrontGoes
  <2>5. CASE Goes(ui, "stop_sending", "raise_stop")
    <3>1. /\ stop_ts' = ~force
          /\ UNCHANGED <<output, connecting, sending, stop_event, disconnected, send_sem,
                         packet>>
      BY <1>19, <2>5, StreamStopDoes DEF Goes
    <3>2. OldIdle' /\ UNCHANGED Loose /\ FrontGoes("stop_sending", "raise_stop")
      BY <2>5, <3>1, WhoGoes
    <3> QED
      BY <3>1, <3>2 DEF FrontGoes
  <2>6. CASE Goes(ui, "stop_sending", "signal_success")
    <3>1. ~sending
      BY <1>19, <2>6, StreamStopDoes DEF Goes
    <3>2. \/ Front = "stop_sending" \/ Connector = "stop_sending"
          \/ Sender = "stop_sending" \/ Ender = "stop_sending"
      BY <2>6, WhoRuns DEF Goes
    <3> QED
      BY <3>1, <3>2
  <2>7. CASE Goes(ui, "raise_stop", "idle")
    <3>1. /\ stop_event'
          /\ UNCHANGED <<output, connecting, sending, stop_ts, disconnected, send_sem,
                         packet>>
      BY <1>19, <2>7, StreamStopDoes DEF Goes
    <3>2. OldIdle' /\ UNCHANGED Loose /\ FrontGoes("raise_stop", "idle")
      BY <2>7, <3>1, WhoGoes
    <3> QED
      BY <3>1, <3>2 DEF FrontGoes
  <2>8. CASE Goes(ui, "raise_stop", "post_stop")
    <3>1. /\ stop_event'
          /\ UNCHANGED <<output, connecting, sending, stop_ts, disconnected, send_sem,
                         packet>>
      BY <1>19, <2>8, StreamStopDoes DEF Goes
    <3>2. OldIdle' /\ UNCHANGED Loose /\ FrontGoes("raise_stop", "post_stop")
      BY <2>8, <3>1, WhoGoes
    <3> QED
      BY <3>1, <3>2 DEF FrontGoes
  <2>9. CASE Goes(ui, "post_stop", "idle")
    <3>1. /\ send_sem' = send_sem + 1
          /\ UNCHANGED <<output, connecting, sending, stop_event, stop_ts, disconnected,
                         packet>>
      BY <1>19, <2>9, StreamStopDoes DEF Goes
    <3>2. OldIdle' /\ UNCHANGED Loose /\ FrontGoes("post_stop", "idle")
      BY <2>9, <3>1, WhoGoes
    <3> QED
      BY <3>1, <3>2 DEF FrontGoes
  <2> QED
    BY <1>19, <2>1, <2>2, <2>3, <2>4, <2>5, <2>6, <2>7, <2>8, <2>9, StreamStopDoes
<1>20. ASSUME NEW t \in Everyone, InitConnect(t), UNCHANGED output
       PROVE  InOrder'
  <2>1. CASE Goes(t, "init_connect", "try_connect")
    <3>1. /\ ~disconnected'
          /\ ~packet'
          /\ UNCHANGED <<output, connecting, sending, stop_event, stop_ts, send_sem>>
      BY <1>20, <2>1, InitConnectDoes
    <3>2. OldIdle' /\ UNCHANGED Loose /\ ConnectorGoes("init_connect", "try_connect")
      BY <2>1, <3>1, WhoGoes DEF FrontGoes, SenderGoes, EnderGoes
    <3> QED
      BY <3>1, <3>2 DEF ConnectorGoes
  <2> QED
    BY <1>20, <2>1, InitConnectDoes
<1>21. ASSUME NEW t \in Everyone, StreamActive(t), UNCHANGED output
       PROVE  InOrder'
  <2>1. CASE Goes(t, "stream_active", "send_meta_data")
    <3>1. /\ sending'
          /\ UNCHANGED <<output, connecting, stop_event, stop_ts, disconnected, send_sem,
                         packet>>
      BY <1>21, <2>1, StreamActiveDoes DEF Goes
    <3>2. OldIdle' /\ UNCHANGED Loose /\ ConnectorGoes("stream_active", "send_meta_data")
      BY <2>1, <3>1, WhoGoes DEF FrontGoes, SenderGoes, EnderGoes
    <3> QED
      BY <3>1, <3>2 DEF ConnectorGoes
  <2>2. CASE Goes(t, "send_meta_data", "begin_data_capture")
    <3>1. UNCHANGED <<output, stream>>
      BY <1>21, <2>2, StreamActiveDoes DEF Goes
    <3>2. OldIdle' /\ UNCHANGED Loose /\ ConnectorGoes("send_meta_data", "begin_data_capture")
      BY <2>2, <3>1, WhoGoes DEF FrontGoes, SenderGoes, EnderGoes
    <3> QED
      BY <3>1, <3>2 DEF ConnectorGoes
  <2>3. CASE Goes(t, "send_meta_data", "signal_lost")
    <3>1. MetaMayFail
      BY <1>21, <2>3, StreamActiveDoes DEF Goes
    <3>2. \/ Front = "send_meta_data" \/ Connector = "send_meta_data"
          \/ Sender = "send_meta_data" \/ Ender = "send_meta_data"
      BY <2>3, WhoRuns DEF Goes
    <3> QED
      BY <3>1, <3>2 DEF StoppedOnce
  <2> QED
    BY <1>21, <2>1, <2>2, <2>3, StreamActiveDoes
<1>22. ASSUME NEW t \in Everyone, Send(t), UNCHANGED output
       PROVE  InOrder'
  <2>1. /\ Goes(t, "send", "send") \/ (Goes(t, "send", "send_exit") /\ stop_event)
        /\ UNCHANGED <<connecting, sending, stop_event, output>>
    BY <1>22, SendDoes DEF StoppedOnce
  <2>2. CASE Goes(t, "send", "send")
    <3>1. OldIdle' /\ UNCHANGED Loose /\ SenderGoes("send", "send")
      BY <2>1, <2>2, WhoGoes DEF FrontGoes, ConnectorGoes, EnderGoes
    <3> QED
      BY <2>1, <3>1 DEF SenderGoes
  <2>3. CASE Goes(t, "send", "send_exit") /\ stop_event
    <3>1. OldIdle' /\ UNCHANGED Loose /\ SenderGoes("send", "send_exit")
      BY <2>1, <2>3, WhoGoes DEF FrontGoes, ConnectorGoes, EnderGoes
    <3> QED
      BY <2>1, <2>3, <3>1 DEF SenderGoes
  <2> QED
    BY <2>1, <2>2, <2>3
<1>23. ASSUME NEW t \in Everyone, SendDone(t), UNCHANGED output
       PROVE  InOrder'
  <2>1. CASE Goes(t, "reset_stop_event", "send_done")
    <3>1. /\ ~stop_event'
          /\ ~packet'
          /\ UNCHANGED <<output, connecting, sending, stop_ts, disconnected, send_sem>>
      BY <1>23, <2>1, SendDoneDoes DEF Goes
    <3>2. OldIdle' /\ UNCHANGED Loose /\ SenderGoes("reset_stop_event", "send_done")
      BY <2>1, <3>1, WhoGoes DEF FrontGoes, ConnectorGoes, EnderGoes
    <3> QED
      BY <3>1, <3>2 DEF SenderGoes
  <2>2. CASE Goes(t, "send_done", "idle")
    <3>1. /\ ~sending'
          /\ UNCHANGED <<output, connecting, stop_event, stop_ts, disconnected, send_sem,
                         packet>>
      BY <1>23, <2>2, SendDoneDoes DEF Goes
    <3>2. OldIdle' /\ UNCHANGED Loose /\ SenderGoes("send_done", "idle")
      BY <2>2, <3>1, WhoGoes DEF FrontGoes, ConnectorGoes, EnderGoes
    <3> QED
      BY <3>1, <3>2 DEF SenderGoes
  <2> QED
    BY <1>23, <2>1, <2>2, SendDoneDoes
<1>24. ASSUME Data
       PROVE  InOrder'
  BY <1>24, DataDoes, NobodyGoes
<1>25. ASSUME UNCHANGED vars
       PROVE  InOrder'
  BY <1>25, IdleDoes, NobodyGoes
<1> QED
  BY <1>1, <1>2, <1>3, <1>4, <1>5, <1>6, <1>7, <1>8, <1>9, <1>10, <1>11, <1>12, <1>13,
     <1>14, <1>15, <1>16, <1>17, <1>18, <1>19, <1>20, <1>21, <1>22, <1>23, <1>24, <1>25
     DEF Next, Frontend, Step, OutputStep, StreamStep, Everyone

\* and the send thread on its way to that answer.
LEMMA FarewellsKept ==
  ASSUME Stacked, Farewells, InOrder, [Next]_vars
  PROVE  Farewells'
<1> USE DEF Farewells, Goes, Creates
<1>1. ASSUME UserStart, UNCHANGED stream
      PROVE  Farewells'
  BY <1>1, UserStartDoes
<1>2. ASSUME NEW forced \in BOOLEAN, UserStop(forced), UNCHANGED stream
      PROVE  Farewells'
  BY <1>2, UserStopDoes
<1>3. ASSUME NEW t \in Everyone, ActualStart(t), UNCHANGED stream
      PROVE  Farewells'
  BY <1>3, ActualStartDoes
<1>4. ASSUME NEW t \in Everyone, CanBegin(t), UNCHANGED stream
      PROVE  Farewells'
  BY <1>4, CanBeginDoes
<1>5. ASSUME NEW t \in Everyone, NotStarted(t), UNCHANGED stream
      PROVE  Farewells'
  BY <1>5, NotStartedDoes
<1>6. ASSUME Started, UNCHANGED stream
      PROVE  Farewells'
  BY <1>6, StartedDoes
<1>7. ASSUME ActualStop, UNCHANGED stream
      PROVE  Farewells'
  BY <1>7, ActualStopDoes
<1>8. ASSUME NEW t \in Everyone, BeginDataCapture(t), UNCHANGED stream
      PROVE  Farewells'
  BY <1>8, BeginDoes
<1>9. ASSUME NEW t \in Everyone, EndDataCapture(t), UNCHANGED stream
      PROVE  Farewells'
  <2>1. top[t] # "suspend_capture"
    BY WhoRuns DEF InOrder, Placed, Opening, Trying, Linking, Asking, Parting, Answered,
       Clearing
  <2> QED
    BY <1>9, <2>1, EndCaptureDoes
<1>10. ASSUME NEW t \in Everyone, EndThread(t), UNCHANGED stream
       PROVE  Farewells'
  BY <1>10, EndThreadDoes
<1>11. ASSUME NEW t \in Everyone, NEW code \in Codes,
             SignalStopCode(t, code), UNCHANGED stream
       PROVE  Farewells'
  BY <1>11, SignalStopDoes
<1>12. ASSUME NEW t \in Everyone, OutputReconnect(t), UNCHANGED stream
       PROVE  Farewells'
  BY <1>12, ReconnectDoes
<1>13. ASSUME NEW t \in Everyone, ReconnectThread(t), UNCHANGED stream
       PROVE  Farewells'
  BY <1>13, ReconnectThreadDoes
<1>14. ASSUME NEW t \in Everyone, StreamStart(t)
       PROVE  Farewells'
  BY <1>14, StreamStartDoes
<1>15. ASSUME NEW t \in Everyone, TryConnect(t)
       PROVE  Farewells'
  BY <1>15, TryConnectDoes
<1>16. ASSUME NEW t \in Everyone, ConnectEnd(t)
       PROVE  Farewells'
  BY <1>16, ConnectEndDoes
<1>17. ASSUME NEW t \in Everyone, SendExit(t)
       PROVE  Farewells'
  BY <1>17, SendExitDoes
<1>18. ASSUME NEW t \in Everyone, Shutdown(t)
       PROVE  Farewells'
  BY <1>18, ShutdownDoes
<1>19. ASSUME StreamStop, UNCHANGED output
       PROVE  Farewells'
  BY <1>19, StreamStopDoes
<1>20. ASSUME NEW t \in Everyone, InitConnect(t), UNCHANGED output
       PROVE  Farewells'
  BY <1>20, InitConnectDoes
<1>21. ASSUME NEW t \in Everyone, StreamActive(t), UNCHANGED output
       PROVE  Farewells'
  BY <1>21, StreamActiveDoes
<1>22. ASSUME NEW t \in Everyone, Send(t), UNCHANGED output
       PROVE  Farewells'
  BY <1>22, SendDoes
<1>23. ASSUME NEW t \in Everyone, SendDone(t), UNCHANGED output
       PROVE  Farewells'
  BY <1>23, SendDoneDoes
<1>24. ASSUME Data
       PROVE  Farewells'
  BY <1>24, DataDoes
<1>25. ASSUME UNCHANGED vars
       PROVE  Farewells'
  BY <1>25, IdleDoes
<1> QED
  BY <1>1, <1>2, <1>3, <1>4, <1>5, <1>6, <1>7, <1>8, <1>9, <1>10, <1>11, <1>12, <1>13,
     <1>14, <1>15, <1>16, <1>17, <1>18, <1>19, <1>20, <1>21, <1>22, <1>23, <1>24, <1>25
     DEF Next, Frontend, Step, OutputStep, StreamStep, Everyone

\* At first nothing runs and nothing is owed.
LEMMA InOrderAtFirst ==
  ASSUME Init
  PROVE  Stacked /\ Homes /\ Farewells /\ InOrder
<1>1. Stacked /\ \A t \in Everyone : top[t] = "idle"
  BY TypeAtFirst, AtTop DEF Init, OutputInit, Everyone, Finished, Stacked
<1>2. Homes /\ Farewells
  BY <1>1 DEF Homes, Farewells, Starting, Failing, Ending
<1>3. OldIdle
  BY <1>1, Named DEF OldIdle, Stacked, Everyone
<1>4. /\ Front = "idle" /\ Connector = "idle" /\ Sender = "idle" /\ Ender = "idle"
      /\ Retrier = "idle"
  BY <1>1, NewestNamed DEF Front, Connector, Sender, Ender, Retrier, Stacked
<1>5. Placed
  BY <1>3, <1>4 DEF Init, OutputInit, Placed
<1>6. StartsInOrder /\ CapturesInOrder /\ StopsInOrder
  BY <1>4 DEF Init, OutputInit, StartsInOrder, CapturesInOrder, StopsInOrder, Loose, Opening,
     Trying, Linking, Asking, Parting, Answered
<1>7. StillOwed
  BY <1>4 DEF Init, OutputInit, StillOwed, Owing, Opening, Trying, Linking, Answered
<1> QED
  BY <1>1, <1>2, <1>5, <1>6, <1>7 DEF InOrder

\* A stream that is stopped once after each start, over a link that holds, tells
\* the frontend of its end at most once for each start: rtmp_stream_stop wakes the
\* send thread of the capture it stops, which alone ends that capture and runs
\* signal_stop, and the next start waits for both threads to be gone.
THEOREM StoppedAnsweredOnce == StoppedOnce => (Spec => []AnsweredOnce)
<1> SUFFICES ASSUME StoppedOnce PROVE Spec => []AnsweredOnce
  OBVIOUS
<1>1. Init => Stacked /\ Homes /\ Farewells /\ InOrder
  BY InOrderAtFirst
<1>2. Stacked /\ Homes /\ Farewells /\ InOrder /\ [Next]_vars
        => Stacked' /\ Homes' /\ Farewells' /\ InOrder'
  BY StackedKept, HomesKept, FarewellsKept, InOrderKept
<1>3. InOrder => AnsweredOnce
  BY DEF InOrder, StillOwed, AnsweredOnce
<1> QED
  BY <1>1, <1>2, <1>3, PTL DEF Spec

=============================================================================
