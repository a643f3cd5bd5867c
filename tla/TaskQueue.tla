------------------------------ MODULE TaskQueue ------------------------------
(***************************************************************************)
(* libobs/util/task.c: a task queue with one worker thread.  libobs uses   *)
(* it for the deferred destruction of sources (destruction_task_thread).   *)
(*                                                                         *)
(* Any thread queues tasks, and so may a running task (destroying a source *)
(* releases the sources it holds).  One thread at a time waits for the     *)
(* queue and in the end destroys it: obs_wait_for_destroy_queue and        *)
(* obs_shutdown are called from the UI thread.                             *)
(*                                                                         *)
(* A step is a critical section of os_task_queue::mutex, a semaphore or an *)
(* event operation.  Tasks are numbered in the order they are queued.      *)
(***************************************************************************)
EXTENDS Integers, Sequences

CONSTANT MaxTasks   \* bound: tasks ever queued

ASSUME MaxTasksAssumption == MaxTasks \in Nat

VARIABLES
    tasks,             \* os_task_queue::tasks, a deque
    sem,
    waiting,
    tasks_processed,
    wait_event,        \* OS_EVENT_TYPE_AUTO: os_event_data::signalled
    exit_thread,       \* thread-local flag of the worker
    ti,                \* worker: the task popped last
    wpc,               \* worker: where it is in tiny_tubular_task_thread
    upc,               \* UI thread: where it is in _wait or _destroy
    result,            \* UI thread: what its last os_task_queue_wait returned
    posting,           \* other threads between the push and the os_sem_post
    queued,            \* history: tasks queued so far
    executed,          \* history: the tasks that have run to their end
    owed,              \* history: what was queued when the wait was called,
                       \* and what those tasks have queued since
    begun              \* history: the tasks popped since the wait was called

history == <<queued, executed, owed, begun>>
vars == <<tasks, sem, waiting, tasks_processed, wait_event, exit_thread, ti,
          wpc, upc, result, posting, history>>

\* Function pointers: a task is its number.
wait_for_thread == 0
stop_thread == -1
Items == 1..MaxTasks \cup {wait_for_thread, stop_thread}

Init ==
    /\ tasks = <<>>
    /\ sem = 0
    /\ waiting = FALSE
    /\ tasks_processed = FALSE
    /\ wait_event = FALSE
    /\ exit_thread = FALSE
    /\ ti = wait_for_thread
    /\ wpc = "test"
    /\ upc = "idle"
    /\ result = FALSE
    /\ posting = 0
    /\ queued = 0
    /\ executed = {}
    /\ owed = {}
    /\ begun = {}

-----------------------------------------------------------------------------
(* os_task_queue_queue_task: push under the mutex, post after it.          *)

\* Nobody but a running task uses a queue that is being destroyed.
Push ==
    /\ queued < MaxTasks
    /\ upc \notin {"stop_posting", "joining", "destroyed"}
    /\ tasks' = Append(tasks, queued + 1)
    /\ queued' = queued + 1
    /\ posting' = posting + 1
    /\ UNCHANGED <<sem, waiting, tasks_processed, wait_event, exit_thread, ti,
                   wpc, upc, result, executed, owed, begun>>

Post ==
    /\ posting > 0
    /\ posting' = posting - 1
    /\ sem' = sem + 1
    /\ UNCHANGED <<tasks, waiting, tasks_processed, wait_event, exit_thread, ti,
                   wpc, upc, result, history>>

-----------------------------------------------------------------------------
(* os_task_queue_wait.                                                     *)

\* Mutant: the answer of the last wait is not reset.
WaitPushStale ==
    /\ upc = "idle"
    /\ waiting' = TRUE
    /\ tasks' = Append(tasks, wait_for_thread)
    /\ owed' = 1..queued \ executed
    /\ begun' = {}
    /\ upc' = "wait_posting"
    /\ UNCHANGED <<sem, tasks_processed, wait_event, exit_thread, ti, wpc,
                   result, posting, queued, executed>>

WaitPush ==
    /\ upc = "idle"
    /\ waiting' = TRUE
    /\ tasks_processed' = FALSE
    /\ tasks' = Append(tasks, wait_for_thread)
    /\ owed' = 1..queued \ executed
    /\ begun' = {}
    /\ upc' = "wait_posting"
    /\ UNCHANGED <<sem, wait_event, exit_thread, ti, wpc, result, posting,
                   queued, executed>>

WaitPost ==
    /\ upc = "wait_posting"
    /\ sem' = sem + 1
    /\ upc' = "event"
    /\ UNCHANGED <<tasks, waiting, tasks_processed, wait_event, exit_thread, ti,
                   wpc, result, posting, history>>

\* os_event_wait: an automatic event is taken by the thread that saw it.
WaitEvent ==
    /\ upc = "event"
    /\ wait_event
    /\ wait_event' = FALSE
    /\ upc' = "read"
    /\ UNCHANGED <<tasks, sem, waiting, tasks_processed, exit_thread, ti, wpc,
                   result, posting, history>>

WaitReturn ==
    /\ upc = "read"
    /\ result' = tasks_processed
    /\ upc' = "idle"
    /\ UNCHANGED <<tasks, sem, waiting, tasks_processed, wait_event,
                   exit_thread, ti, wpc, posting, history>>

-----------------------------------------------------------------------------
(* os_task_queue_destroy.                                                  *)

\* The caller is the last user: no other thread is queueing a task.
DestroyPush ==
    /\ upc = "idle"
    /\ posting = 0
    /\ tasks' = Append(tasks, stop_thread)
    /\ upc' = "stop_posting"
    /\ UNCHANGED <<sem, waiting, tasks_processed, wait_event, exit_thread, ti,
                   wpc, result, posting, history>>

DestroyPost ==
    /\ upc = "stop_posting"
    /\ sem' = sem + 1
    /\ upc' = "joining"
    /\ UNCHANGED <<tasks, waiting, tasks_processed, wait_event, exit_thread, ti,
                   wpc, result, posting, history>>

\* pthread_join returns; the deque is freed with whatever is left in it.
DestroyJoin ==
    /\ upc = "joining"
    /\ wpc = "exited"
    /\ upc' = "destroyed"
    /\ UNCHANGED <<tasks, sem, waiting, tasks_processed, wait_event,
                   exit_thread, ti, wpc, result, posting, history>>

-----------------------------------------------------------------------------
(* tiny_tubular_task_thread.                                               *)

\* Mutant: the flag is never looked at.
TestExitForgotten ==
    /\ wpc = "test"
    /\ wpc' = "sem"
    /\ UNCHANGED <<tasks, sem, waiting, tasks_processed, wait_event,
                   exit_thread, ti, upc, result, posting, history>>

\* "while (!exit_thread"
TestExit ==
    /\ wpc = "test"
    /\ wpc' = IF exit_thread THEN "exited" ELSE "sem"
    /\ UNCHANGED <<tasks, sem, waiting, tasks_processed, wait_event,
                   exit_thread, ti, upc, result, posting, history>>

\* Mutant: the semaphore does not block.
SemWaitUnblocked ==
    /\ wpc = "sem"
    /\ sem' = sem - 1
    /\ wpc' = "pop"
    /\ UNCHANGED <<tasks, waiting, tasks_processed, wait_event,
                   exit_thread, ti, upc, result, posting, history>>

SemWait ==
    /\ wpc = "sem"
    /\ sem > 0
    /\ sem' = sem - 1
    /\ wpc' = "pop"
    /\ UNCHANGED <<tasks, waiting, tasks_processed, wait_event, exit_thread, ti,
                   upc, result, posting, history>>

\* Mutant: the next task is taken from the back of the deque.
RotateFromBack(q, item) ==
    IF Len(q) > 1 /\ Head(q) = item THEN <<q[Len(q)]>> \o SubSeq(q, 1, Len(q) - 1)
                                    ELSE q

\* A marker in front of other tasks goes to the back and the next is taken.
Rotate(q, item) ==
    IF Len(q) > 1 /\ Head(q) = item THEN Append(Tail(q), item) ELSE q

\* Mutant: nothing is put back, the markers run in the order they were queued.
RotatedNot == tasks

\* The deque after both markers had their turn: what is popped is its head.
Rotated == Rotate(Rotate(tasks, wait_for_thread), stop_thread)

\* The critical section of the worker.
Pop ==
    /\ wpc = "pop"
    /\ ti' = Head(Rotated)
    /\ tasks' = Tail(Rotated)
    /\ IF ti' = wait_for_thread
       THEN /\ waiting' = FALSE
            /\ UNCHANGED tasks_processed
       ELSE /\ tasks_processed' = (waiting \/ tasks_processed)
            /\ UNCHANGED waiting
    /\ begun' = IF ti' > 0 THEN begun \cup {ti'} ELSE begun
    /\ wpc' = "run"
    /\ UNCHANGED <<sem, wait_event, exit_thread, upc, result, posting, queued,
                   executed, owed>>

\* The running task queues another one.
Spawn ==
    /\ wpc = "run"
    /\ ti > 0
    /\ queued < MaxTasks
    /\ tasks' = Append(tasks, queued + 1)
    /\ queued' = queued + 1
    /\ owed' = IF ti \in owed THEN owed \cup {queued + 1} ELSE owed
    /\ wpc' = "spawned"
    /\ UNCHANGED <<sem, waiting, tasks_processed, wait_event, exit_thread, ti,
                   upc, result, posting, executed, begun>>

SpawnPost ==
    /\ wpc = "spawned"
    /\ sem' = sem + 1
    /\ wpc' = "run"
    /\ UNCHANGED <<tasks, waiting, tasks_processed, wait_event, exit_thread, ti,
                   upc, result, posting, history>>

\* Mutant: the event stays up until the next task has run.
ReturnPulses ==
    /\ wpc = "run"
    /\ wait_event' = (ti = wait_for_thread)
    /\ exit_thread' = (exit_thread \/ ti = stop_thread)
    /\ executed' = IF ti > 0 THEN executed \cup {ti} ELSE executed
    /\ wpc' = "test"
    /\ UNCHANGED <<tasks, sem, waiting, tasks_processed, ti, upc, result,
                   posting, queued, owed, begun>>

\* The task returns.  wait_for_thread signals, stop_thread ends the loop.
Return ==
    /\ wpc = "run"
    /\ wait_event' = (wait_event \/ ti = wait_for_thread)
    /\ exit_thread' = (exit_thread \/ ti = stop_thread)
    /\ executed' = IF ti > 0 THEN executed \cup {ti} ELSE executed
    /\ wpc' = "test"
    /\ UNCHANGED <<tasks, sem, waiting, tasks_processed, ti, upc, result,
                   posting, queued, owed, begun>>

-----------------------------------------------------------------------------
UIThread ==
    \/ WaitPush \/ WaitPost \/ WaitEvent \/ WaitReturn
    \/ DestroyPush \/ DestroyPost \/ DestroyJoin

Worker == TestExit \/ SemWait \/ Pop \/ Spawn \/ SpawnPost \/ Return

Next == Push \/ Post \/ UIThread \/ Worker

Spec == Init /\ [][Next]_vars

\* The worker runs, a task queues a bounded number of others, and a call once
\* made proceeds.  Nothing makes a thread call.
Fairness ==
    /\ WF_vars(Worker)
    /\ WF_vars(Post)
    /\ WF_vars(upc # "idle" /\ UIThread)

FairSpec == Spec /\ Fairness

-----------------------------------------------------------------------------
(* Properties.                                                             *)

TypeOK ==
    /\ tasks \in Seq(Items)
    /\ sem \in Nat
    /\ waiting \in BOOLEAN
    /\ tasks_processed \in BOOLEAN
    /\ wait_event \in BOOLEAN
    /\ exit_thread \in BOOLEAN
    /\ ti \in Items
    /\ wpc \in {"test", "sem", "pop", "run", "spawned", "exited"}
    /\ upc \in {"idle", "wait_posting", "event", "read", "stop_posting",
                "joining", "destroyed"}
    /\ result \in BOOLEAN
    /\ posting \in Nat
    /\ queued \in 0..MaxTasks
    /\ executed \subseteq 1..MaxTasks
    /\ owed \subseteq 1..MaxTasks
    /\ begun \subseteq 1..MaxTasks

\* The worker never pops an empty deque (deque_pop_front does not check): each
\* item has one post of the semaphore, counted wherever it is.
PopsOnlyQueued ==
    wpc = "pop" => tasks # <<>>

\* Tasks run one at a time in the order they were queued, whatever the markers
\* put to the back of the deque do to it.
InOrder ==
    /\ \A i, j \in 1..Len(tasks) :
            i < j /\ tasks[i] > 0 /\ tasks[j] > 0 => tasks[i] < tasks[j]
    /\ \A i \in 1..Len(tasks) :
            tasks[i] > 0 => \A t \in executed \cup {ti} : t < tasks[i]

\* When os_task_queue_wait comes back from the event, everything queued before
\* the call and everything those tasks queued in turn has run.
WaitFlushes ==
    upc = "read" => owed \subseteq executed

\* os_task_queue_wait answers whether there was something to do: a FALSE means
\* that no task it owed the caller was left to start (a scene collection is
\* cleared once a round finds nothing to destroy), a TRUE that one was started.
WaitAnswers ==
    upc = "read" => /\ tasks_processed => begun # {}
                    /\ begun \cap owed # {} => tasks_processed

\* The worker leaves only when every task ever queued has run, so that freeing
\* the deque drops nothing.
DestroyRunsAll ==
    wpc = "exited" => executed = 1..queued /\ tasks = <<>>

\* A wait and a destroy come to an end.
WaitReturns == (upc = "wait_posting") ~> (upc = "idle")

DestroyReturns == (upc = "stop_posting") ~> (upc = "destroyed")
=============================================================================
