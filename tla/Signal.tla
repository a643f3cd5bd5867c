------------------------------- MODULE Signal -------------------------------
(* One signal of a signal handler: callbacks connect and disconnect, from     *)
(* other threads and from inside a callback, while threads send the signal.   *)
(* Each thread has a stack of frames, one per signal_handler_signal it is in; *)
(* the mutex of the signal is recursive and is held by the thread whose stack *)
(* has a frame that walks the array.  A callback stands for its function and  *)
(* its data.  Global callbacks and the signal's parameters are left out.      *)
EXTENDS Integers, Sequences, SequencesExt, FiniteSetsExt, Functions

CONSTANTS
    Threads,
    Callbacks,
    Inside,        \* what a callback may do to its own signal
    Careless,      \* which calls that the handler loses are made
    MaxSignals,    \* bound: signals sent
    MaxConnects,   \* bound: calls of connect
    MaxDepth       \* bound: frames of a thread

ASSUME SignalAssumption ==
    /\ IsFiniteSet(Threads) /\ "connected" \notin Threads
    /\ Inside \subseteq {"connect", "disconnect", "remove", "signal"}
    /\ Careless \subseteq {"reconnect", "disconnect_twice", "remove_after_growth"}
    /\ {MaxSignals, MaxConnects, MaxDepth} \subseteq Nat

NoCallback == "none"

VARIABLES
    callbacks, signalling,  \* struct signal_info
    refs,                   \* signal_handler.refs
    owned,                  \* the creator still holds its reference
    freed,                  \* signal_handler_actually_destroy was called
    current,                \* current_signal_cb of a thread, an index or 0
    stack,                  \* frames of a thread
    signals, connects,      \* counts for the bounds
    status,                 \* history: the last call that settled a callback
    raced                   \* history: refs changed between its load and store

info  == <<callbacks, signalling>>
count == <<signals, connects>>
vars  == <<info, refs, owned, freed, current, stack, count, status, raced>>

\* A frame walks the array ("loop"), is in a callback ("call"), subtracts from
\* refs ("refs", "store") or drops one reference ("drop").  due are the
\* callbacks that the signal has to call, done those it called.
Frame == [at : {"loop", "call", "refs", "store", "drop"}, i : Int, cb : Callbacks \cup {NoCallback},
          n : Nat, due : SUBSET Callbacks, done : SUBSET Callbacks]

Walks(frame) == frame.at \in {"loop", "call"}
MutexFree(t) == \A u \in Threads \ {t} : \A k \in DOMAIN stack[u] : ~Walks(stack[u][k])

Top(t) == Last(stack[t])
AtTop(t, at) == stack[t] # <<>> /\ Top(t).at = at
SetTop(t, frame) == stack' = [stack EXCEPT ![t] = Append(Front(@), frame)]
Push(t, frame)   == stack' = [stack EXCEPT ![t] = Append(@, frame)]
Pop(t)           == stack' = [stack EXCEPT ![t] = Front(@)]

\* Thread t is free to call op: it is not in the handler, or in a callback.
May(t, op) == stack[t] = <<>> \/ (AtTop(t, "call") /\ op \in Inside)

\* signal_get_callback_idx: the first entry of callback c, 0 if there is none.
Index(c) == LET found == {i \in DOMAIN callbacks : callbacks[i].cb = c}
            IN  IF found = {} THEN 0 ELSE Min(found)

\* Callback c has an entry besides entry i that is not marked as removed.
OtherEntry(c, i) == \E j \in DOMAIN callbacks \ {i} :
                        callbacks[j].cb = c /\ ~callbacks[j].remove

\* Callback c was connected more often than disconnected, by two or more.
StaysConnected(c) == \E i, j \in DOMAIN callbacks :
                        /\ i # j
                        /\ callbacks[i].cb = c /\ ~callbacks[i].remove
                        /\ callbacks[j].cb = c /\ ~callbacks[j].remove

Connected == {c \in Callbacks : status[c] = "connected"}

Init ==
    /\ callbacks = <<>> /\ signalling = FALSE
    /\ refs = 1 /\ owned = TRUE /\ freed = FALSE
    /\ current = [t \in Threads |-> 0]
    /\ stack = [t \in Threads |-> <<>>]
    /\ signals = 0 /\ connects = 0
    /\ status = [c \in Callbacks |-> "never"]
    /\ raced = FALSE

-----------------------------------------------------------------------------
\* signal_handler_connect and, with keep_ref, signal_handler_connect_ref.  An
\* entry that is only marked as removed still passes for connected: a connect
\* ("reconnect") then has no effect, and the entry is erased later.
Connect(t, c, keep_ref) ==
    LET new    == keep_ref \/ Index(c) = 0
        marked == ~new /\ callbacks[Index(c)].remove
    IN  /\ owned
        /\ May(t, "connect")
        /\ MutexFree(t)
        /\ marked => "reconnect" \in Careless
        /\ connects < MaxConnects
        /\ connects' = connects + 1
        /\ refs' = IF keep_ref THEN refs + 1 ELSE refs
        /\ callbacks' = IF new
                        THEN Append(callbacks, [cb |-> c, remove |-> FALSE,
                                                keep_ref |-> keep_ref])
                        ELSE callbacks
        /\ status' = [status EXCEPT ![c] = "connected"]
        /\ UNCHANGED <<signalling, owned, freed, current, stack, signals, raced>>

\* A callback that is disconnected is no longer due.
NotDue(t, c) == [k \in DOMAIN stack[t] |-> [stack[t][k] EXCEPT !.due = @ \ {c}]]

DropFrame(c) == [at |-> "drop", i |-> 0, cb |-> c, n |-> 1, due |-> {}, done |-> {}]

\* Mutant of Disconnect: the entry is erased although the signal is being sent.
EraseAtOnceMutant(t, c) ==
    /\ owned
    /\ May(t, "disconnect")
    /\ MutexFree(t)
    /\ Index(c) # 0
    /\ callbacks' = RemoveAt(callbacks, Index(c))
    /\ stack' = [stack EXCEPT ![t] =
                    NotDue(t, c) \o (IF callbacks[Index(c)].keep_ref THEN <<DropFrame(c)>>
                                                                     ELSE <<>>)]
    /\ status' = [status EXCEPT ![c] = t]
    /\ UNCHANGED <<signalling, refs, owned, freed, current, count, raced>>

\* signal_handler_disconnect, up to the unlock.  With a second entry of c left,
\* c stays connected.  A disconnect that should take this second entry but
\* finds the first one, already marked, has no effect ("disconnect_twice").
Disconnect(t, c) ==
    LET entry == callbacks[Index(c)]
        drop  == ~signalling /\ entry.keep_ref
        lost  == entry.remove /\ OtherEntry(c, Index(c))
    IN  /\ owned \/ (Index(c) # 0 /\ entry.keep_ref)
        /\ ~freed
        /\ May(t, "disconnect")
        /\ MutexFree(t)
        /\ Index(c) # 0
        /\ lost => "disconnect_twice" \in Careless
        /\ callbacks' = IF signalling
                        THEN [callbacks EXCEPT ![Index(c)].remove = TRUE]
                        ELSE RemoveAt(callbacks, Index(c))
        /\ stack' = [stack EXCEPT ![t] =
                        (IF StaysConnected(c) THEN @ ELSE NotDue(t, c))
                            \o (IF drop THEN <<DropFrame(c)>> ELSE <<>>)]
        /\ status' = IF StaysConnected(c) THEN status
                     ELSE [status EXCEPT ![c] = t]
        /\ UNCHANGED <<signalling, refs, owned, freed, current, count, raced>>

\* os_atomic_dec_long of signal_handler_disconnect.
DropRef(t) ==
    /\ AtTop(t, "drop")
    /\ refs' = refs - 1
    /\ freed' = (freed \/ refs' = 0)
    /\ Pop(t)
    /\ UNCHANGED <<info, owned, current, count, status, raced>>

\* signal_handler_destroy, by the creator, who no longer sends the signal.
Destroy ==
    /\ owned
    /\ \A t \in Threads : \A k \in DOMAIN stack[t] : stack[t][k].at = "drop"
    /\ owned' = FALSE
    /\ refs' = refs - 1
    /\ freed' = (refs' = 0)
    /\ UNCHANGED <<info, current, stack, count, status, raced>>

-----------------------------------------------------------------------------
(* signal_handler_signal.                                                  *)

SignalBegin(t) ==
    /\ owned
    /\ May(t, "signal")
    /\ MutexFree(t)
    /\ signals < MaxSignals /\ Len(stack[t]) < MaxDepth
    /\ signalling' = TRUE
    /\ signals' = signals + 1
    /\ Push(t, [at |-> "loop", i |-> 1, cb |-> NoCallback, n |-> 0,
                due |-> Connected, done |-> {}])
    /\ UNCHANGED <<callbacks, refs, owned, freed, current, connects, status, raced>>

\* Mutant of Call: an entry marked as removed is called all the same.
MarkIgnoredMutant(t) ==
    LET entry == callbacks[Top(t).i]
    IN  /\ AtTop(t, "loop")
        /\ Top(t).i <= Len(callbacks)
        /\ current' = [current EXCEPT ![t] = Top(t).i]
        /\ SetTop(t, [Top(t) EXCEPT !.at = "call", !.cb = entry.cb,
                        !.n = Len(callbacks), !.done = @ \cup {entry.cb}])
        /\ UNCHANGED <<info, refs, owned, freed, count, status, raced>>

\* The next entry is called, or passed over when it is marked as removed.
Call(t) ==
    LET entry == callbacks[Top(t).i]
    IN  /\ AtTop(t, "loop")
        /\ Top(t).i <= Len(callbacks)
        /\ \/ /\ entry.remove
              /\ SetTop(t, [Top(t) EXCEPT !.i = @ + 1])
              /\ UNCHANGED current
           \/ /\ ~entry.remove
              /\ current' = [current EXCEPT ![t] = Top(t).i]
              /\ SetTop(t, [Top(t) EXCEPT !.at = "call", !.cb = entry.cb,
                              !.n = Len(callbacks), !.done = @ \cup {entry.cb}])
        /\ UNCHANGED <<info, refs, owned, freed, count, status, raced>>

\* signal_handler_remove_current.  current_signal_cb points into the array: once
\* the callback made it grow ("remove_after_growth"), the mark may go to memory
\* that is no longer the array's.
RemoveCurrent(t) ==
    LET i     == current[t]
        c     == Top(t).cb
        grown == Len(callbacks) > Top(t).n
    IN  /\ AtTop(t, "call") /\ "remove" \in Inside
        /\ i \in DOMAIN callbacks
        /\ grown => "remove_after_growth" \in Careless
        /\ \/ callbacks' = [callbacks EXCEPT ![i].remove = TRUE]
           \/ grown /\ UNCHANGED callbacks
        /\ IF OtherEntry(c, i)
           THEN UNCHANGED <<status, stack>>
           ELSE /\ status' = [status EXCEPT ![c] = t]
                /\ stack' = [stack EXCEPT ![t] = NotDue(t, c)]
        /\ UNCHANGED <<signalling, refs, owned, freed, current, count, raced>>

Return(t) ==
    /\ AtTop(t, "call")
    /\ current' = [current EXCEPT ![t] = 0]
    /\ SetTop(t, [Top(t) EXCEPT !.at = "loop", !.i = @ + 1, !.cb = NoCallback, !.n = 0])
    /\ UNCHANGED <<info, refs, owned, freed, count, status, raced>>

\* The entries that keep a reference; those of them that are marked as removed.
Keeping(entries) == {i \in DOMAIN entries : entries[i].keep_ref}
Leaving(entries) == {i \in Keeping(entries) : entries[i].remove}

\* The entries that are not marked, in their order.
Unmarked(entries) ==
    LET kept[n \in 0..Len(entries)] ==
            IF n = 0 THEN <<>>
            ELSE IF entries[n].remove THEN kept[n - 1]
            ELSE Append(kept[n - 1], entries[n])
    IN  kept[Len(entries)]

\* Mutant of End: the references of the entries it erases are kept.
RefsForgottenMutant(t) ==
    /\ AtTop(t, "loop")
    /\ Top(t).i > Len(callbacks)
    /\ callbacks' = Unmarked(callbacks)
    /\ signalling' = FALSE
    /\ Pop(t)
    /\ UNCHANGED <<refs, owned, freed, current, count, status, raced>>

\* Marked entries are erased and the mutex is unlocked.
End(t) ==
    LET remove_refs == Cardinality(Leaving(callbacks))
    IN  /\ AtTop(t, "loop")
        /\ Top(t).i > Len(callbacks)
        /\ callbacks' = Unmarked(callbacks)
        /\ signalling' = FALSE
        /\ \/ remove_refs = 0 /\ Pop(t)
           \/ remove_refs > 0 /\ SetTop(t, [Top(t) EXCEPT !.at = "refs", !.n = remove_refs])
        /\ UNCHANGED <<refs, owned, freed, current, count, status, raced>>

\* os_atomic_set_long(&refs, os_atomic_load_long(&refs) - remove_refs), in two
\* steps; what was loaded is kept in i.
LoadRefs(t) ==
    /\ AtTop(t, "refs")
    /\ SetTop(t, [Top(t) EXCEPT !.at = "store", !.i = refs])
    /\ UNCHANGED <<info, refs, owned, freed, current, count, status, raced>>

StoreRefs(t) ==
    /\ AtTop(t, "store")
    /\ refs' = Top(t).i - Top(t).n
    /\ raced' = (raced \/ refs # Top(t).i)
    /\ Pop(t)
    /\ UNCHANGED <<info, owned, freed, current, count, status>>

-----------------------------------------------------------------------------
Next ==
    \/ Destroy
    \/ \E t \in Threads :
          \/ DropRef(t) \/ SignalBegin(t) \/ Call(t) \/ RemoveCurrent(t) \/ Return(t)
          \/ End(t) \/ LoadRefs(t) \/ StoreRefs(t)
          \/ \E c \in Callbacks : Disconnect(t, c) \/ \E k \in BOOLEAN : Connect(t, c, k)

Spec == Init /\ [][Next]_vars

-----------------------------------------------------------------------------
\* Types; threads that walk the array hold the mutex, so there is one at most.
TypeOK ==
    /\ callbacks \in Seq([cb : Callbacks, remove : BOOLEAN, keep_ref : BOOLEAN])
    /\ signalling \in BOOLEAN
    /\ refs \in Int
    /\ {owned, freed, raced} \subseteq BOOLEAN
    /\ current \in [Threads -> Nat]
    /\ stack \in [Threads -> Seq(Frame)]
    /\ status \in [Callbacks -> Threads \cup {"never", "connected"}]
    /\ \A t \in Threads : (\E k \in DOMAIN stack[t] : Walks(stack[t][k])) => MutexFree(t)

\* A signal calls every callback that was connected when it began and was not
\* disconnected since, whatever the callbacks connect and disconnect.  With
\* "reconnect" in Careless it does not: the handler loses such a connect.
CalledAll ==
    [][\A t \in Threads : End(t) => Top(t).due \subseteq Top(t).done]_vars

Running(t, c) == \E k \in DOMAIN stack[t] : stack[t][k].at = "call" /\ stack[t][k].cb = c

\* Once a callback is disconnected nobody calls it, and it runs on no thread but
\* the one that disconnected it: what it uses may be freed.
NotAfterDisconnect ==
    /\ [][\A t \in Threads : AtTop(t, "loop") /\ AtTop(t, "call")'
                => status[Top(t)'.cb] = "connected"]_vars
    /\ [](\A t \in Threads, c \in Callbacks : Running(t, c) => status[c] \in {"connected", t})

\* What a thread is about to subtract from refs.  It is in its last frame: in the
\* others it is in a callback.
Owed(t) == IF \E at \in {"refs", "store", "drop"} : AtTop(t, at) THEN Top(t).n ELSE 0

\* refs counts the creator, the connections that keep a reference and the
\* references still to be dropped, unless a store of refs undid a change.
Counted ==
    raced \/ refs = (IF owned THEN 1 ELSE 0) + Cardinality(Keeping(callbacks))
                        + SumFunction([t \in Threads |-> Owed(t)])
=============================================================================
