--------------------------- MODULE TaskQueue_proofs ---------------------------
(* Proofs about the task queue, for every number of tasks.                 *)
EXTENDS TaskQueue, SequenceTheorems, TLAPS

-----------------------------------------------------------------------------
(* The inductive invariant.                                                *)

\* Threads that have pushed and not posted yet, and a worker that has taken a
\* post and not popped yet.
UIPosting == IF upc \in {"wait_posting", "stop_posting"} THEN 1 ELSE 0
WorkerPosting == IF wpc = "spawned" THEN 1 ELSE 0
WorkerPopping == IF wpc = "pop" THEN 1 ELSE 0

\* Each item in the deque has one post, made, due or taken.
PostsMatch ==
    sem + posting + UIPosting + WorkerPosting + WorkerPopping = Len(tasks)

IInv == TypeOK /\ PostsMatch

-----------------------------------------------------------------------------
(* Facts about the deque.                                                  *)

\* Moving a marker to the back keeps the items and their number.
LEMMA RotateType ==
    ASSUME NEW q \in Seq(Items), NEW item \in Items
    PROVE  Rotate(q, item) \in Seq(Items) /\ Len(Rotate(q, item)) = Len(q)
<1>1. CASE Len(q) > 1 /\ Head(q) = item
  <2>1. Tail(q) \in Seq(Items) /\ Len(Tail(q)) = Len(q) - 1
    BY <1>1, LenProperties
  <2>2. Append(Tail(q), item) \in Seq(Items) /\ Len(Append(Tail(q), item)) = Len(q)
    BY <2>1, LenProperties
  <2> QED  BY <1>1, <2>2 DEF Rotate
<1>2. CASE ~(Len(q) > 1 /\ Head(q) = item)
  BY <1>2 DEF Rotate
<1> QED  BY <1>1, <1>2

\* The queue turned by its markers has as many items.
LEMMA RotatedType ==
    ASSUME TypeOK
    PROVE  Rotated \in Seq(Items) /\ Len(Rotated) = Len(tasks)
<1>1. wait_for_thread \in Items /\ stop_thread \in Items
  BY DEF Items
<1>2. tasks \in Seq(Items)
  BY DEF TypeOK
<1>3. /\ Rotate(tasks, wait_for_thread) \in Seq(Items)
      /\ Len(Rotate(tasks, wait_for_thread)) = Len(tasks)
  BY <1>1, <1>2, RotateType
<1>4. /\ Rotate(Rotate(tasks, wait_for_thread), stop_thread) \in Seq(Items)
      /\ Len(Rotate(Rotate(tasks, wait_for_thread), stop_thread)) = Len(tasks)
  BY <1>1, <1>3, RotateType
<1> QED  BY <1>4 DEF Rotated

\* Pushing an item adds one.
LEMMA PushType ==
    ASSUME TypeOK, NEW item \in Items
    PROVE  /\ Append(tasks, item) \in Seq(Items)
           /\ Len(Append(tasks, item)) = Len(tasks) + 1
           /\ Len(tasks) \in Nat
  BY LenProperties DEF TypeOK

-----------------------------------------------------------------------------
(* The inductive invariant holds.                                          *)

\* The invariant holds at first,
LEMMA InitIInv == Init => IInv
<1> SUFFICES ASSUME Init PROVE IInv
  OBVIOUS
<1>1. tasks \in Seq(Items) /\ Len(tasks) = 0
  BY EmptySeq DEF Init
<1>2. TypeOK
  <2>1. ti \in Items
    BY DEF Init, Items
  <2>2. queued \in 0..MaxTasks
    BY MaxTasksAssumption DEF Init
  <2> QED  BY <1>1, <2>1, <2>2 DEF Init, TypeOK
<1>3. PostsMatch
  BY <1>1 DEF Init, PostsMatch, UIPosting, WorkerPosting, WorkerPopping
<1> QED  BY <1>2, <1>3 DEF IInv

\* every step keeps it,
LEMMA NextIInv == IInv /\ [Next]_vars => IInv'
<1> SUFFICES ASSUME IInv, [Next]_vars  PROVE IInv'
  OBVIOUS
<1> USE MaxTasksAssumption
    DEF IInv, PostsMatch, UIPosting, WorkerPosting, WorkerPopping, history
<1>0. /\ tasks \in Seq(Items) /\ Len(tasks) \in Nat /\ sem \in Nat /\ posting \in Nat
      /\ queued \in 0..MaxTasks
  BY LenProperties DEF TypeOK
<1>1. CASE Push
  <2>1. queued + 1 \in Items /\ queued + 1 \in 0..MaxTasks
    BY <1>0, <1>1 DEF Push, Items
  <2>2. tasks' \in Seq(Items) /\ Len(tasks') = Len(tasks) + 1
    BY <1>1, <2>1, PushType DEF Push
  <2>3. TypeOK'
    BY <1>0, <1>1, <2>1, <2>2 DEF Push, TypeOK
  <2>4. PostsMatch'
    BY <1>0, <1>1, <2>2 DEF Push
  <2> QED  BY <2>3, <2>4
<1>2. CASE Post
  BY <1>0, <1>2 DEF Post, TypeOK
<1>3. CASE WaitPush
  <2>1. tasks' \in Seq(Items) /\ Len(tasks') = Len(tasks) + 1
    <3>1. wait_for_thread \in Items
      BY DEF Items
    <3> QED  BY <1>3, <3>1, PushType DEF WaitPush
  <2>2. owed' \subseteq 1..MaxTasks
    BY <1>0, <1>3 DEF WaitPush
  <2>3. TypeOK'
    BY <1>0, <1>3, <2>1, <2>2 DEF WaitPush, TypeOK
  <2>4. PostsMatch'
    BY <1>0, <1>3, <2>1 DEF WaitPush
  <2> QED  BY <2>3, <2>4
<1>4. CASE WaitPost \/ WaitEvent \/ WaitReturn
  <2>1. TypeOK'
    <3>1. CASE WaitPost  BY <1>0, <3>1 DEF WaitPost, TypeOK
    <3>2. CASE WaitEvent  BY <3>2 DEF WaitEvent, TypeOK
    <3>3. CASE WaitReturn  BY <3>3 DEF WaitReturn, TypeOK
    <3> QED  BY <1>4, <3>1, <3>2, <3>3
  <2>2. PostsMatch'
    BY <1>0, <1>4 DEF WaitPost, WaitEvent, WaitReturn
  <2> QED  BY <2>1, <2>2
<1>5. CASE DestroyPush
  <2>1. tasks' \in Seq(Items) /\ Len(tasks') = Len(tasks) + 1
    <3>1. stop_thread \in Items
      BY DEF Items
    <3> QED  BY <1>5, <3>1, PushType DEF DestroyPush
  <2>2. TypeOK'
    BY <1>0, <1>5, <2>1 DEF DestroyPush, TypeOK
  <2>3. PostsMatch'
    BY <1>0, <1>5, <2>1 DEF DestroyPush
  <2> QED  BY <2>2, <2>3
<1>6. CASE DestroyPost \/ DestroyJoin
  <2>1. TypeOK'
    <3>1. CASE DestroyPost  BY <1>0, <3>1 DEF DestroyPost, TypeOK
    <3>2. CASE DestroyJoin  BY <3>2 DEF DestroyJoin, TypeOK
    <3> QED  BY <1>6, <3>1, <3>2
  <2>2. PostsMatch'
    BY <1>0, <1>6 DEF DestroyPost, DestroyJoin
  <2> QED  BY <2>1, <2>2
<1>7. CASE TestExit \/ SemWait \/ SpawnPost
  <2>1. TypeOK'
    <3>1. CASE TestExit  BY <3>1 DEF TestExit, TypeOK
    <3>2. CASE SemWait  BY <1>0, <3>2 DEF SemWait, TypeOK
    <3>3. CASE SpawnPost  BY <1>0, <3>3 DEF SpawnPost, TypeOK
    <3> QED  BY <1>7, <3>1, <3>2, <3>3
  <2>2. PostsMatch'
    BY <1>0, <1>7 DEF TestExit, SemWait, SpawnPost
  <2> QED  BY <2>1, <2>2
<1>8. CASE Pop
  <2>1. Rotated \in Seq(Items) /\ Len(Rotated) = Len(tasks) /\ Len(tasks) > 0
    BY <1>0, <1>8, RotatedType DEF Pop
  <2>2. Head(Rotated) \in Items
    BY <2>1
  <2>3. Tail(Rotated) \in Seq(Items) /\ Len(Tail(Rotated)) = Len(tasks) - 1
    BY <2>1
  <2>4. ti' \in Items /\ tasks' \in Seq(Items) /\ Len(tasks') = Len(tasks) - 1
    BY <1>8, <2>2, <2>3 DEF Pop
  <2>5. begun' \subseteq 1..MaxTasks
    <3>1. ti' > 0 => ti' \in 1..MaxTasks
      BY <2>4 DEF Items, wait_for_thread, stop_thread
    <3>2. begun' = IF ti' > 0 THEN begun \cup {ti'} ELSE begun
      BY <1>8 DEF Pop
    <3> QED  BY <3>1, <3>2 DEF TypeOK
  <2>6. waiting' \in BOOLEAN
    BY <1>8 DEF Pop, TypeOK
  <2>7. tasks_processed' \in BOOLEAN
    BY <1>8 DEF Pop, TypeOK
  <2>8. TypeOK'
    BY <1>0, <1>8, <2>4, <2>5, <2>6, <2>7 DEF Pop, TypeOK
  <2>9. PostsMatch'
    BY <1>0, <1>8, <2>4 DEF Pop
  <2> QED  BY <2>8, <2>9
<1>9. CASE Spawn
  <2>1. queued + 1 \in Items /\ queued + 1 \in 1..MaxTasks
    BY <1>0, <1>9 DEF Spawn, Items
  <2>2. tasks' \in Seq(Items) /\ Len(tasks') = Len(tasks) + 1
    BY <1>9, <2>1, PushType DEF Spawn
  <2>3. owed' \subseteq 1..MaxTasks
    BY <1>9, <2>1 DEF Spawn, TypeOK
  <2>4. TypeOK'
    BY <1>0, <1>9, <2>1, <2>2, <2>3 DEF Spawn, TypeOK
  <2>5. PostsMatch'
    BY <1>0, <1>9, <2>2 DEF Spawn
  <2> QED  BY <2>4, <2>5
<1>10. CASE Return
  <2>1. executed' \subseteq 1..MaxTasks
    BY <1>10 DEF Return, TypeOK, Items, wait_for_thread, stop_thread
  <2>2. wait_event' \in BOOLEAN
    BY <1>10 DEF Return, TypeOK
  <2>3. exit_thread' \in BOOLEAN
    BY <1>10 DEF Return, TypeOK
  <2>4. TypeOK'
    BY <1>0, <1>10, <2>1, <2>2, <2>3 DEF Return, TypeOK
  <2>5. PostsMatch'
    BY <1>0, <1>10 DEF Return
  <2> QED  BY <2>4, <2>5
<1>11. CASE UNCHANGED vars
  BY <1>11 DEF vars, TypeOK
<1> QED
  BY <1>1, <1>2, <1>3, <1>4, <1>5, <1>6, <1>7, <1>8, <1>9, <1>10, <1>11
     DEF Next, UIThread, Worker

\* so it always holds.
LEMMA InvariantIInv == Spec => []IInv
<1>1. Init => IInv
  BY InitIInv
<1>2. IInv /\ [Next]_vars => IInv'
  BY NextIInv
<1> QED  BY <1>1, <1>2, PTL DEF Spec

-----------------------------------------------------------------------------
(* What follows from it.                                                   *)

\* Every variable keeps its type.
THEOREM TypeCorrect == Spec => []TypeOK
<1>1. IInv => TypeOK
  BY DEF IInv
<1> QED  BY <1>1, InvariantIInv, PTL

\* The worker never pops an empty deque, though it tests the deque only for the
\* second and the third pop of a round.
THEOREM WorkerFindsAnItem == Spec => []PopsOnlyQueued
<1>1. IInv => PopsOnlyQueued
  <2> SUFFICES ASSUME IInv, wpc = "pop"  PROVE tasks # <<>>
    BY DEF PopsOnlyQueued
  <2>1. Len(tasks) > 0
    BY DEF IInv, TypeOK, PostsMatch, UIPosting, WorkerPosting, WorkerPopping
  <2> QED  BY <2>1, EmptySeq
<1> QED  BY <1>1, InvariantIInv, PTL

-----------------------------------------------------------------------------
(* The second inductive invariant: what is in the deque, in which order, and
   where the markers of a wait and of a destroy are.                       *)

\* What the deque q holds.
ItemsOf(q) == {q[i] : i \in 1..Len(q)}

\* The tasks of q are in the order of their numbers, the markers left aside.
Ascending(q) ==
    \A i, j \in 1..Len(q) : i < j /\ q[i] > 0 /\ q[j] > 0 => q[i] < q[j]

\* q holds at most one marker, of either kind.
OneMarker(q) ==
    \A i, j \in 1..Len(q) : q[i] <= 0 /\ q[j] <= 0 => i = j

Running == wpc \in {"run", "spawned"}
Waiting == upc \in {"wait_posting", "event"}
Destroying == upc \in {"stop_posting", "joining", "destroyed"}

\* The deque is in order, and ahead of it come the task popped last and the
\* tasks that have run.
Order ==
    /\ Ascending(tasks)
    /\ OneMarker(tasks)
    /\ \A y \in ItemsOf(tasks) : y > 0 => \A t \in executed \cup {ti} : t < y

\* Every task queued is in the deque, in the worker's hands or has run, a task
\* runs once, and a task that spawned is still running.
NothingDropped ==
    /\ \A y \in ItemsOf(tasks) : y <= queued
    /\ ti <= queued
    /\ executed \subseteq 1..queued
    /\ begun \subseteq 1..queued
    /\ 1..queued \subseteq executed \cup {ti} \cup ItemsOf(tasks)
    /\ ti > 0 => (Running <=> ti \notin executed)
    /\ wpc = "spawned" => ti > 0

\* Where the marker of a wait is: in the deque, run by the worker, turned into
\* the event.  Nothing owed is left once it has been popped.
WaitMarker ==
    /\ waiting <=> wait_for_thread \in ItemsOf(tasks)
    /\ waiting => Waiting
    /\ Running /\ ti = wait_for_thread => ~ waiting /\ ~ wait_event /\ Waiting
    /\ wait_event => ~ waiting /\ Waiting
    /\ owed \subseteq 1..queued
    /\ ~ waiting => owed \subseteq executed

\* Where the marker of a destroy is; the deque is empty once it was popped.
StopMarker ==
    /\ stop_thread \in ItemsOf(tasks) => Destroying
    /\ (Running /\ ti = stop_thread) \/ exit_thread => Destroying /\ tasks = <<>>
    /\ exit_thread => wpc \in {"test", "exited"}
    /\ wpc = "exited" => exit_thread

\* The answer of a wait, while it is being worked out.
Answer ==
    /\ tasks_processed => begun # {}
    /\ begun \cap owed # {} => tasks_processed

QInv == Order /\ NothingDropped /\ WaitMarker /\ StopMarker /\ Answer

-----------------------------------------------------------------------------
(* What pushing, popping and rotating do to the order of a deque.          *)

\* A queue with one more task.
LEMMA AppendFacts ==
    ASSUME NEW q \in Seq(Items), NEW x \in Items
    PROVE  /\ ItemsOf(Append(q, x)) = ItemsOf(q) \cup {x}
           /\ Ascending(q) /\ (x > 0 => \A y \in ItemsOf(q) : y > 0 => y < x)
                => Ascending(Append(q, x))
           /\ OneMarker(q) /\ (x <= 0 => \A y \in ItemsOf(q) : y > 0)
                => OneMarker(Append(q, x))
<1> DEFINE r == Append(q, x)
<1>1. /\ Len(q) \in Nat /\ Len(r) = Len(q) + 1
      /\ \A i \in 1..Len(q) : r[i] = q[i] /\ q[i] \in Items
      /\ r[Len(q) + 1] = x
  BY AppendProperties, LenProperties, ElementOfSeq
<1> HIDE DEF r
<1>2. Items \subseteq Int
  BY MaxTasksAssumption DEF Items, wait_for_thread, stop_thread
<1>3. \A i \in 1..Len(r) : i \in 1..Len(q) \/ i = Len(q) + 1
  BY <1>1
<1>4. ItemsOf(r) = ItemsOf(q) \cup {x}
  <2>1. ItemsOf(r) \subseteq ItemsOf(q) \cup {x}
    BY <1>1, <1>3 DEF ItemsOf
  <2>2. \A i \in 1..Len(q) : i \in 1..Len(r)
    BY <1>1
  <2>3. Len(q) + 1 \in 1..Len(r)
    BY <1>1
  <2>4. ItemsOf(q) \cup {x} \subseteq ItemsOf(r)
    BY <1>1, <2>2, <2>3 DEF ItemsOf
  <2> QED  BY <2>1, <2>4
<1>5. ASSUME Ascending(q), x > 0 => \A y \in ItemsOf(q) : y > 0 => y < x
      PROVE  Ascending(r)
  <2> SUFFICES ASSUME NEW i \in 1..Len(r), NEW j \in 1..Len(r), i < j,
                      r[i] > 0, r[j] > 0
               PROVE  r[i] < r[j]
    BY DEF Ascending
  <2>1. i \in 1..Len(q) /\ q[i] \in ItemsOf(q)
    BY <1>1 DEF ItemsOf
  <2>2. CASE j \in 1..Len(q)
    BY <1>1, <1>5, <2>1, <2>2 DEF Ascending
  <2>3. CASE j = Len(q) + 1
    BY <1>1, <1>5, <2>1, <2>3
  <2> QED  BY <1>3, <2>2, <2>3
<1>6. ASSUME OneMarker(q), x <= 0 => \A y \in ItemsOf(q) : y > 0
      PROVE  OneMarker(r)
  <2> SUFFICES ASSUME NEW i \in 1..Len(r), NEW j \in 1..Len(r), i < j,
                      r[i] <= 0, r[j] <= 0
               PROVE  FALSE
    <3>1. \A i, j \in 1..Len(r) : i < j \/ j < i \/ i = j
      BY <1>1
    <3> QED  BY <3>1 DEF OneMarker
  <2>1. i \in 1..Len(q) /\ q[i] \in ItemsOf(q) /\ q[i] \in Items
    BY <1>1 DEF ItemsOf
  <2>2. CASE j \in 1..Len(q)
    BY <1>1, <1>6, <2>1, <2>2 DEF OneMarker
  <2>3. CASE j = Len(q) + 1
    <3>1. q[i] > 0
      BY <1>1, <1>6, <2>1, <2>3
    <3>2. q[i] <= 0 /\ q[i] \in Int
      BY <1>1, <1>2, <2>1
    <3> QED  BY <3>1, <3>2
  <2> QED  BY <1>3, <2>2, <2>3
<1> QED  BY <1>4, <1>5, <1>6 DEF r

\* A queue without its first task.
LEMMA TailFacts ==
    ASSUME NEW q \in Seq(Items), Len(q) > 0
    PROVE  /\ Head(q) \in Items /\ Tail(q) \in Seq(Items)
           /\ Len(Tail(q)) = Len(q) - 1
           /\ ItemsOf(q) = {Head(q)} \cup ItemsOf(Tail(q))
           /\ Ascending(q) => /\ Ascending(Tail(q))
                              /\ Head(q) > 0 => \A y \in ItemsOf(Tail(q)) :
                                                    y > 0 => Head(q) < y
           /\ OneMarker(q) => /\ OneMarker(Tail(q))
                              /\ Head(q) <= 0 => \A y \in ItemsOf(Tail(q)) : y > 0
<1> DEFINE r == Tail(q)
<1>1. /\ Len(q) \in Nat /\ r \in Seq(Items) /\ Len(r) = Len(q) - 1
      /\ \A i \in 1..Len(r) : r[i] = q[i + 1]
      /\ \A i \in 1..Len(q) : q[i] \in Items
      /\ Head(q) = q[1]
  BY HeadTailProperties, LenProperties, ElementOfSeq, EmptySeq
<1> HIDE DEF r
<1>2. Items \subseteq Int
  BY MaxTasksAssumption DEF Items, wait_for_thread, stop_thread
<1>3. \A i \in 1..Len(r) : i + 1 \in 1..Len(q) /\ 1 < i + 1
  BY <1>1
<1>4. 1 \in 1..Len(q) /\ Head(q) \in Items
  BY <1>1
<1>5. ItemsOf(q) = {Head(q)} \cup ItemsOf(r)
  <2>1. {Head(q)} \cup ItemsOf(r) \subseteq ItemsOf(q)
    BY <1>1, <1>3, <1>4 DEF ItemsOf
  <2>2. \A i \in 1..Len(q) : i = 1 \/ (i - 1 \in 1..Len(r) /\ r[i - 1] = q[i])
    BY <1>1
  <2>3. ItemsOf(q) \subseteq {Head(q)} \cup ItemsOf(r)
    BY <1>1, <2>2 DEF ItemsOf
  <2> QED  BY <2>1, <2>3
<1>6. ASSUME Ascending(q)
      PROVE  /\ Ascending(r)
             /\ Head(q) > 0 => \A y \in ItemsOf(r) : y > 0 => Head(q) < y
  <2>1. \A i, j \in 1..Len(r) : i < j => i + 1 < j + 1
    BY <1>1
  <2>2. Ascending(r)
    BY <1>1, <1>3, <1>6, <2>1 DEF Ascending
  <2>3. \A i \in 1..Len(r) : q[1] > 0 /\ q[i + 1] > 0 => q[1] < q[i + 1]
    BY <1>3, <1>4, <1>6 DEF Ascending
  <2> QED  BY <1>1, <2>2, <2>3 DEF ItemsOf
<1>7. ASSUME OneMarker(q)
      PROVE  OneMarker(r) /\ (Head(q) <= 0 => \A y \in ItemsOf(r) : y > 0)
  <2>1. \A i, j \in 1..Len(r) : i + 1 = j + 1 => i = j
    BY <1>1
  <2>2. OneMarker(r)
    BY <1>1, <1>3, <1>7, <2>1 DEF OneMarker
  <2>3. \A i \in 1..Len(r) : q[1] <= 0 => ~ (q[i + 1] <= 0)
    BY <1>1, <1>3, <1>4, <1>7 DEF OneMarker
  <2>4. \A i \in 1..Len(r) : q[1] <= 0 => q[i + 1] > 0
    <3>1. \A i \in 1..Len(r) : q[i + 1] \in Int
      BY <1>1, <1>2, <1>3
    <3> QED  BY <2>3, <3>1
  <2> QED  BY <1>1, <2>2, <2>4 DEF ItemsOf
<1> QED  BY <1>1, <1>4, <1>5, <1>6, <1>7 DEF r

\* Putting the marker at the head behind the tasks changes neither the order of
\* the tasks nor what the deque holds.
LEMMA RotateFacts ==
    ASSUME NEW q \in Seq(Items), NEW item \in {wait_for_thread, stop_thread},
           Ascending(q), OneMarker(q)
    PROVE  /\ Ascending(Rotate(q, item)) /\ OneMarker(Rotate(q, item))
           /\ ItemsOf(Rotate(q, item)) = ItemsOf(q)
           /\ Len(q) > 1 /\ Head(q) = item => Head(Rotate(q, item)) > 0
<1>1. item \in Items /\ item <= 0
  BY DEF Items, wait_for_thread, stop_thread
<1>2. CASE Len(q) > 1 /\ Head(q) = item
  <2> DEFINE r == Tail(q)
  <2>1. /\ r \in Seq(Items) /\ Len(r) = Len(q) - 1
        /\ ItemsOf(q) = {item} \cup ItemsOf(r)
        /\ Ascending(r) /\ OneMarker(r) /\ \A y \in ItemsOf(r) : y > 0
    BY <1>1, <1>2, TailFacts
  <2>2. Rotate(q, item) = Append(r, item)
    BY <1>2 DEF Rotate
  <2> HIDE DEF r
  <2>3. ItemsOf(Append(r, item)) = ItemsOf(r) \cup {item}
    BY <1>1, <2>1, AppendFacts
  <2>4. Ascending(Append(r, item))
    <3>1. ~ (item > 0)
      BY <1>1 DEF wait_for_thread, stop_thread
    <3> QED  BY <1>1, <2>1, <3>1, AppendFacts
  <2>5. OneMarker(Append(r, item))
    BY <1>1, <2>1, AppendFacts
  <2>6. Head(Append(r, item)) > 0
    <3>1. Len(q) \in Nat /\ Len(r) \in Nat /\ Len(r) > 0
      BY <1>2, <2>1, LenProperties
    <3>2. Append(r, item)[1] = r[1] /\ 1 \in 1..Len(r)
      BY <1>1, <2>1, <3>1, AppendProperties
    <3>3. r[1] > 0
      BY <2>1, <3>2 DEF ItemsOf
    <3>4. /\ Append(r, item) \in Seq(Items) /\ Append(r, item) # <<>>
      BY <1>1, <2>1, <3>1, AppendProperties
    <3>5. Head(Append(r, item)) = Append(r, item)[1]
      BY <3>4, HeadTailProperties
    <3> QED  BY <3>2, <3>3, <3>5
  <2> QED  BY <2>1, <2>2, <2>3, <2>4, <2>5, <2>6
<1>3. CASE ~ (Len(q) > 1 /\ Head(q) = item)
  BY <1>3 DEF Rotate
<1> QED  BY <1>2, <1>3

\* What the worker pops: a task if the deque holds one, a marker only when it is
\* all there is.
LEMMA RotatedFacts ==
    ASSUME TypeOK, Ascending(tasks), OneMarker(tasks), Len(tasks) > 0
    PROVE  /\ Ascending(Rotated) /\ OneMarker(Rotated)
           /\ ItemsOf(Rotated) = ItemsOf(tasks)
           /\ Head(Rotated) \in Items
           /\ Head(Rotated) <= 0 => Tail(Rotated) = <<>>
<1> DEFINE q1 == Rotate(tasks, wait_for_thread)
           q2 == Rotate(q1, stop_thread)
<1>1. wait_for_thread \in Items /\ stop_thread \in Items
  BY DEF Items
<1>2. tasks \in Seq(Items)
  BY DEF TypeOK
<1>3. q1 \in Seq(Items) /\ Len(q1) = Len(tasks)
  BY <1>1, <1>2, RotateType
<1>4. q2 \in Seq(Items) /\ Len(q2) = Len(tasks)
  BY <1>1, <1>3, RotateType
<1>5. /\ Ascending(q1) /\ OneMarker(q1) /\ ItemsOf(q1) = ItemsOf(tasks)
      /\ Len(tasks) > 1 /\ Head(tasks) = wait_for_thread => Head(q1) > 0
  BY <1>2, RotateFacts
<1>6. Len(tasks) > 1 /\ Head(tasks) # wait_for_thread => q1 = tasks
  BY DEF Rotate
<1>7. Rotated = q2
  BY DEF Rotated
<1>8. Head(q1) # stop_thread => q2 = q1
  BY DEF Rotate
<1> HIDE DEF q1
<1>9. /\ Ascending(q2) /\ OneMarker(q2) /\ ItemsOf(q2) = ItemsOf(q1)
      /\ Len(q1) > 1 /\ Head(q1) = stop_thread => Head(q2) > 0
  BY <1>3, <1>5, RotateFacts
<1> HIDE DEF q2
<1>10. Head(tasks) \in Items /\ Head(q1) \in Items /\ Head(q2) \in Items
  BY <1>2, <1>3, <1>4, TailFacts
<1>11. \A x \in Items : x > 0 \/ x = wait_for_thread \/ x = stop_thread
  BY MaxTasksAssumption DEF Items
<1>12. ASSUME Len(tasks) > 1  PROVE Head(q2) > 0
  <2>1. CASE Head(tasks) = wait_for_thread
    <3>1. Head(q1) > 0
      BY <1>5, <1>12, <2>1
    <3>2. Head(q1) # stop_thread
      BY <3>1 DEF stop_thread
    <3> QED  BY <1>8, <3>1, <3>2
  <2>2. CASE Head(tasks) # wait_for_thread /\ Head(q1) = stop_thread
    BY <1>3, <1>9, <1>12, <2>2
  <2>3. CASE Head(tasks) # wait_for_thread /\ Head(q1) # stop_thread
    <3>1. q1 = tasks /\ q2 = q1
      BY <1>6, <1>8, <1>12, <2>3
    <3> QED  BY <1>10, <1>11, <2>3, <3>1
  <2> QED  BY <2>1, <2>2, <2>3
<1>13. ASSUME Head(q2) <= 0  PROVE Tail(q2) = <<>>
  <2>1. ~ (Head(q2) > 0)
    BY <1>10, <1>13, MaxTasksAssumption DEF Items, wait_for_thread, stop_thread
  <2>2. Len(tasks) \in Nat /\ Len(tasks) = 1
    <3>1. \A n \in Nat : n > 0 /\ ~ (n > 1) => n = 1
      OBVIOUS
    <3>2. Len(tasks) \in Nat /\ ~ (Len(tasks) > 1)
      BY <1>2, <1>12, <2>1, LenProperties
    <3> QED  BY <3>1, <3>2, Zenon
  <2>3. Tail(q2) \in Seq(Items) /\ Len(Tail(q2)) = 0
    BY <1>4, <2>2, TailFacts
  <2> QED  BY <2>3, EmptySeq
<1> QED  BY <1>5, <1>7, <1>9, <1>10, <1>13

-----------------------------------------------------------------------------
(* The second inductive invariant holds.                                   *)

\* The order holds at first,
LEMMA InitQInv == Init => QInv
<1> SUFFICES ASSUME Init PROVE QInv
  OBVIOUS
<1>1. Len(tasks) = 0 /\ ItemsOf(tasks) = {}
  BY EmptySeq DEF Init, ItemsOf
<1>2. Order
  BY <1>1 DEF Init, Order, Ascending, OneMarker
<1>3. NothingDropped
  BY <1>1 DEF Init, NothingDropped, Running, wait_for_thread
<1>4. WaitMarker /\ StopMarker /\ Answer
  BY <1>1 DEF Init, WaitMarker, StopMarker, Answer, Running
<1> QED  BY <1>2, <1>3, <1>4 DEF QInv

\* A task added at the back, by another thread or by the running task.
LEMMA NewTask ==
    ASSUME TypeOK, QInv, queued < MaxTasks, queued' = queued + 1,
           tasks' = Append(tasks, queued + 1), executed' = executed, ti' = ti
    PROVE  /\ ItemsOf(tasks') = ItemsOf(tasks) \cup {queued + 1}
           /\ Order' /\ tasks' # <<>>
           /\ queued + 1 \notin executed \cup begun \cup owed \cup {ti}
           /\ 1..queued' = 1..queued \cup {queued + 1}
           /\ queued \in Nat
           /\ \A y \in ItemsOf(tasks) : y \in Int /\ y <= queued
           /\ ti \in Int
<1> USE MaxTasksAssumption
<1>1. queued \in Nat /\ queued + 1 \in Items /\ tasks \in Seq(Items) /\ ti \in Int
  BY DEF TypeOK, Items, wait_for_thread, stop_thread
<1>2. \A y \in ItemsOf(tasks) : y \in Int /\ y <= queued
  <2>1. \A y \in ItemsOf(tasks) : y \in Items
    BY <1>1, ElementOfSeq DEF ItemsOf
  <2>2. \A y \in ItemsOf(tasks) : y <= queued
    BY DEF QInv, NothingDropped
  <2> QED  BY <2>1, <2>2 DEF Items, wait_for_thread, stop_thread
<1>3. ItemsOf(tasks') = ItemsOf(tasks) \cup {queued + 1}
  BY <1>1, AppendFacts
<1>4. Ascending(tasks')
  <2>1. \A y \in ItemsOf(tasks) : y > 0 => y < queued + 1
    BY <1>1, <1>2
  <2> QED  BY <1>1, <2>1, AppendFacts DEF QInv, Order
<1>5. OneMarker(tasks')
  <2>1. ~ (queued + 1 <= 0)
    BY <1>1
  <2> QED  BY <1>1, <2>1, AppendFacts DEF QInv, Order
<1>6. \A t \in executed \cup begun \cup owed \cup {ti} : t \in Int /\ t < queued + 1
  <2>1. \A t \in executed \cup begun \cup owed : t \in 1..queued
    BY DEF QInv, NothingDropped, WaitMarker
  <2>2. ti <= queued
    BY DEF QInv, NothingDropped
  <2> QED  BY <1>1, <2>1, <2>2
<1>7. \A y \in ItemsOf(tasks') : y > 0 => \A t \in executed \cup {ti} : t < y
  BY <1>3, <1>6 DEF QInv, Order
<1>8. Order'
  BY <1>4, <1>5, <1>7 DEF Order
<1>9. tasks' # <<>>
  BY <1>1, AppendProperties
<1>10. queued + 1 \notin executed \cup begun \cup owed \cup {ti}
  BY <1>1, <1>6
<1>11. 1..queued' = 1..queued \cup {queued + 1}
  BY <1>1
<1> QED  BY <1>1, <1>2, <1>3, <1>8, <1>9, <1>10, <1>11

\* A marker added at the back of a deque that has none.
LEMMA NewMarker ==
    ASSUME TypeOK, QInv, NEW m \in {wait_for_thread, stop_thread},
           wait_for_thread \notin ItemsOf(tasks), stop_thread \notin ItemsOf(tasks),
           tasks' = Append(tasks, m), executed' = executed, ti' = ti
    PROVE  /\ ItemsOf(tasks') = ItemsOf(tasks) \cup {m}
           /\ Order' /\ tasks' # <<>> /\ m <= 0 /\ m \in Int
<1> USE MaxTasksAssumption
<1>1. m \in Items /\ tasks \in Seq(Items) /\ m <= 0 /\ ~ (m > 0) /\ m \in Int
  BY DEF TypeOK, Items, wait_for_thread, stop_thread
<1>2. \A y \in ItemsOf(tasks) : y > 0
  <2>1. \A y \in ItemsOf(tasks) : y \in Items
    BY <1>1, ElementOfSeq DEF ItemsOf
  <2>2. \A x \in Items : x > 0 \/ x = wait_for_thread \/ x = stop_thread
    BY DEF Items
  <2> QED  BY <2>1, <2>2
<1>3. /\ ItemsOf(tasks') = ItemsOf(tasks) \cup {m}
      /\ Ascending(tasks') /\ OneMarker(tasks')
  BY <1>1, <1>2, AppendFacts DEF QInv, Order
<1>4. Order'
  BY <1>1, <1>3 DEF QInv, Order
<1>5. tasks' # <<>>
  BY <1>1, AppendProperties
<1> QED  BY <1>1, <1>3, <1>4, <1>5

\* every step keeps it,
LEMMA NextQInv == IInv /\ IInv' /\ QInv /\ [Next]_vars => QInv'
<1> SUFFICES ASSUME IInv, IInv', QInv, [Next]_vars  PROVE QInv'
  OBVIOUS
<1> USE MaxTasksAssumption DEF wait_for_thread, stop_thread
<1>a. TypeOK /\ TypeOK' /\ Order /\ NothingDropped /\ WaitMarker /\ StopMarker /\ Answer
  BY DEF IInv, QInv
<1>b. /\ queued \in Nat /\ queued' \in Nat /\ ti \in Items /\ ti \in Int
      /\ waiting \in BOOLEAN /\ tasks \in Seq(Items)
  BY <1>a DEF TypeOK, Items
<1>1. CASE Push
  <2>1. /\ queued < MaxTasks /\ queued' = queued + 1 /\ tasks' = Append(tasks, queued + 1)
        /\ ~ Destroying
        /\ UNCHANGED <<waiting, tasks_processed, wait_event, exit_thread, ti, wpc, upc,
                       executed, owed, begun>>
    BY <1>1 DEF Push, Destroying
  <2>2. /\ ItemsOf(tasks') = ItemsOf(tasks) \cup {queued + 1}
        /\ Order' /\ 1..queued' = 1..queued \cup {queued + 1}
        /\ \A y \in ItemsOf(tasks) : y \in Int /\ y <= queued
    BY <1>a, <2>1, NewTask DEF QInv
  <2>3. NothingDropped'
    <3>1. \A y \in ItemsOf(tasks') : y <= queued'
      BY <1>b, <2>1, <2>2
    <3>2. ti' <= queued'
      BY <1>a, <1>b, <2>1 DEF NothingDropped
    <3> QED  BY <1>a, <2>1, <2>2, <3>1, <3>2 DEF NothingDropped, Running
  <2>4. WaitMarker'
    <3>1. queued + 1 # 0
      BY <1>b
    <3> QED  BY <1>a, <2>1, <2>2, <3>1 DEF WaitMarker, Running, Waiting
  <2>5. StopMarker'
    <3>1. queued + 1 # -1
      BY <1>b
    <3> QED  BY <1>a, <2>1, <2>2, <3>1 DEF StopMarker, Running, Destroying
  <2>6. Answer'
    BY <1>a, <2>1 DEF Answer
  <2> QED  BY <2>2, <2>3, <2>4, <2>5, <2>6 DEF QInv
<1>2. CASE Spawn
  <2>1. /\ queued < MaxTasks /\ queued' = queued + 1 /\ tasks' = Append(tasks, queued + 1)
        /\ wpc = "run" /\ ti > 0 /\ wpc' = "spawned"
        /\ owed' = IF ti \in owed THEN owed \cup {queued + 1} ELSE owed
        /\ UNCHANGED <<waiting, tasks_processed, wait_event, exit_thread, ti, upc,
                       executed, begun>>
    BY <1>2 DEF Spawn
  <2>2. /\ ItemsOf(tasks') = ItemsOf(tasks) \cup {queued + 1}
        /\ Order' /\ 1..queued' = 1..queued \cup {queued + 1}
        /\ queued + 1 \notin begun
        /\ \A y \in ItemsOf(tasks) : y \in Int /\ y <= queued
    BY <1>a, <2>1, NewTask DEF QInv
  <2>3. ti \notin executed /\ ti # 0 /\ ti # -1
    BY <1>a, <1>b, <2>1 DEF NothingDropped, Running
  <2>4. NothingDropped'
    <3>1. \A y \in ItemsOf(tasks') : y <= queued'
      BY <1>b, <2>1, <2>2
    <3>2. ti' <= queued'
      BY <1>a, <1>b, <2>1 DEF NothingDropped
    <3> QED  BY <1>a, <2>1, <2>2, <3>1, <3>2 DEF NothingDropped, Running
  <2>5. WaitMarker'
    <3>1. queued + 1 # 0
      BY <1>b
    <3>2. ~ waiting => owed' = owed
      BY <1>a, <2>1, <2>3 DEF WaitMarker
    <3>3. owed' \subseteq 1..queued'
      BY <1>a, <2>1, <2>2 DEF WaitMarker
    <3> QED  BY <1>a, <2>1, <2>2, <2>3, <3>1, <3>2, <3>3 DEF WaitMarker, Running, Waiting
  <2>6. StopMarker'
    <3>1. queued + 1 # -1
      BY <1>b
    <3>2. ~ exit_thread
      BY <1>a, <2>1 DEF StopMarker
    <3> QED  BY <1>a, <2>1, <2>2, <2>3, <3>1, <3>2 DEF StopMarker, Running, Destroying
  <2>7. Answer'
    BY <1>a, <2>1, <2>2 DEF Answer
  <2> QED  BY <2>2, <2>4, <2>5, <2>6, <2>7 DEF QInv
<1>3. CASE WaitPush
  <2>1. /\ upc = "idle" /\ waiting' = TRUE /\ tasks_processed' = FALSE
        /\ tasks' = Append(tasks, wait_for_thread)
        /\ owed' = 1..queued \ executed /\ begun' = {} /\ upc' = "wait_posting"
        /\ UNCHANGED <<wait_event, exit_thread, ti, wpc, queued, executed>>
    BY <1>3 DEF WaitPush
  <2>2. ~ Waiting /\ ~ Destroying /\ Waiting'
    BY <2>1 DEF Waiting, Destroying
  <2>3. wait_for_thread \notin ItemsOf(tasks) /\ stop_thread \notin ItemsOf(tasks)
    BY <1>a, <2>2 DEF WaitMarker, StopMarker
  <2>4. ItemsOf(tasks') = ItemsOf(tasks) \cup {0} /\ Order'
    BY <1>a, <2>1, <2>3, NewMarker DEF QInv
  <2>5. NothingDropped'
    <3>1. \A y \in ItemsOf(tasks') : y <= queued'
      BY <1>a, <1>b, <2>1, <2>4 DEF NothingDropped
    <3> QED  BY <1>a, <2>1, <2>4, <3>1 DEF NothingDropped, Running
  <2>6. WaitMarker'
    BY <1>a, <2>1, <2>2, <2>4 DEF WaitMarker, Running
  <2>7. StopMarker'
    BY <1>a, <2>1, <2>2, <2>3, <2>4 DEF StopMarker, Running
  <2>8. Answer'
    BY <2>1 DEF Answer
  <2> QED  BY <2>4, <2>5, <2>6, <2>7, <2>8 DEF QInv
<1>4. CASE DestroyPush
  <2>1. /\ upc = "idle" /\ tasks' = Append(tasks, stop_thread) /\ upc' = "stop_posting"
        /\ UNCHANGED <<waiting, tasks_processed, wait_event, exit_thread, ti, wpc,
                       queued, executed, owed, begun>>
    BY <1>4 DEF DestroyPush, history
  <2>2. ~ Waiting /\ ~ Destroying /\ Destroying' /\ ~ Waiting'
    BY <2>1 DEF Waiting, Destroying
  <2>3. wait_for_thread \notin ItemsOf(tasks) /\ stop_thread \notin ItemsOf(tasks)
    BY <1>a, <2>2 DEF WaitMarker, StopMarker
  <2>4. ItemsOf(tasks') = ItemsOf(tasks) \cup {-1} /\ Order'
    BY <1>a, <2>1, <2>3, NewMarker DEF QInv
  <2>5. NothingDropped'
    <3>1. \A y \in ItemsOf(tasks') : y <= queued'
      BY <1>a, <1>b, <2>1, <2>4 DEF NothingDropped
    <3> QED  BY <1>a, <2>1, <2>4, <3>1 DEF NothingDropped, Running
  <2>6. WaitMarker'
    BY <1>a, <2>1, <2>2, <2>4 DEF WaitMarker, Running
  <2>7. StopMarker'
    BY <1>a, <2>1, <2>2, <2>4 DEF StopMarker, Running
  <2>8. Answer'
    BY <1>a, <2>1 DEF Answer
  <2> QED  BY <2>4, <2>5, <2>6, <2>7, <2>8 DEF QInv
<1>5. CASE Pop
  <2> DEFINE q == Rotated
  <2>1. /\ wpc = "pop" /\ ti' = Head(q) /\ tasks' = Tail(q) /\ wpc' = "run"
        /\ waiting' = IF ti' = 0 THEN FALSE ELSE waiting
        /\ tasks_processed' = IF ti' = 0 THEN tasks_processed
                                         ELSE waiting \/ tasks_processed
        /\ begun' = IF ti' > 0 THEN begun \cup {ti'} ELSE begun
        /\ UNCHANGED <<wait_event, exit_thread, upc, queued, executed, owed>>
    BY <1>5 DEF Pop
  <2>2. Len(tasks) > 0
    BY <2>1 DEF IInv, TypeOK, PostsMatch, UIPosting, WorkerPosting, WorkerPopping
  <2>3. /\ Ascending(q) /\ OneMarker(q) /\ ItemsOf(q) = ItemsOf(tasks)
        /\ Head(q) \in Items
        /\ Head(q) <= 0 => Tail(q) = <<>>
    BY <1>a, <2>2, RotatedFacts DEF Order
  <2>4. q \in Seq(Items) /\ Len(q) > 0
    BY <1>a, <2>2, RotatedType
  <2> HIDE DEF q
  <2>5. /\ ItemsOf(tasks) = {ti'} \cup ItemsOf(tasks')
        /\ Ascending(tasks') /\ OneMarker(tasks')
        /\ ti' > 0 => \A y \in ItemsOf(tasks') : y > 0 => ti' < y
        /\ ti' <= 0 => tasks' = <<>> /\ ItemsOf(tasks') = {}
        /\ ti' \in Int /\ (ti' > 0 \/ ti' = 0 \/ ti' = -1)
    <3>1. ItemsOf(<<>>) = {}
      BY EmptySeq DEF ItemsOf
    <3>2. ti' \in Int /\ (ti' > 0 \/ ti' = 0 \/ ti' = -1)
      BY <2>1, <2>3 DEF Items
    <3>3. /\ ItemsOf(q) = {ti'} \cup ItemsOf(tasks')
          /\ Ascending(tasks') /\ OneMarker(tasks')
          /\ ti' > 0 => \A y \in ItemsOf(tasks') : y > 0 => ti' < y
      BY <2>1, <2>3, <2>4, TailFacts
    <3> QED  BY <2>1, <2>3, <3>1, <3>2, <3>3
  <2>6. ti > 0 => ti \in executed
    BY <1>a, <2>1 DEF NothingDropped, Running
  <2>7. ti' > 0 => ti' \notin executed /\ \A t \in executed : t < ti'
    <3>1. ti' > 0 => \A t \in executed : t < ti'
      BY <1>a, <2>5 DEF Order
    <3>2. ti' > 0 => ~ (ti' < ti')
      BY <2>5
    <3> QED  BY <3>1, <3>2
  <2>8. ~ exit_thread
    BY <1>a, <2>1 DEF StopMarker
  <2>9. Order'
    <3>1. \A y \in ItemsOf(tasks') : y > 0 => \A t \in executed : t < y
      BY <1>a, <2>5 DEF Order
    <3>2. \A y \in ItemsOf(tasks') : y > 0 => ti' < y
      BY <2>5
    <3> QED  BY <2>1, <2>5, <3>1, <3>2 DEF Order
  <2>10. NothingDropped'
    <3>1. ti' <= queued
      BY <1>a, <2>5 DEF NothingDropped
    <3>2. ti' > 0 => ti' \in 1..queued
      BY <1>b, <2>5, <3>1
    <3>3. begun' \subseteq 1..queued
      BY <1>a, <2>1, <3>2 DEF NothingDropped
    <3>4. 1..queued \subseteq executed \cup {ti'} \cup ItemsOf(tasks')
      <4>1. 1..queued \subseteq executed \cup {ti} \cup ItemsOf(tasks)
        BY <1>a DEF NothingDropped
      <4>2. ti \in 1..queued => ti \in executed
        BY <1>b, <2>6
      <4> QED  BY <2>5, <4>1, <4>2
    <3>5. ti' > 0 => (Running' <=> ti' \notin executed')
      BY <2>1, <2>7 DEF Running
    <3> QED  BY <1>a, <2>1, <2>5, <3>1, <3>3, <3>4, <3>5 DEF NothingDropped
  <2>11. WaitMarker'
    <3>1. CASE ti' = 0
      <4>1. waiting /\ Waiting /\ ~ wait_event
        BY <1>a, <2>5, <3>1 DEF WaitMarker
      <4>2. 1..queued \subseteq executed
        <5>1. 1..queued \subseteq executed \cup {ti} \cup ItemsOf(tasks)
          BY <1>a DEF NothingDropped
        <5>2. ItemsOf(tasks) = {0}
          BY <2>5, <3>1
        <5>3. ti \in 1..queued => ti \in executed
          BY <1>b, <2>6
        <5>4. 0 \notin 1..queued
          OBVIOUS
        <5> QED  BY <5>1, <5>2, <5>3, <5>4
      <4>3. owed \subseteq executed
        BY <1>a, <4>2 DEF WaitMarker
      <4> QED  BY <1>a, <2>1, <2>5, <3>1, <4>1, <4>3 DEF WaitMarker, Waiting
    <3>2. CASE ti' # 0
      BY <1>a, <2>1, <2>5, <3>2 DEF WaitMarker, Waiting
    <3> QED  BY <3>1, <3>2
  <2>12. StopMarker'
    <3>1. ti' = -1 => Destroying /\ tasks' = <<>>
      BY <1>a, <2>5 DEF StopMarker
    <3> QED  BY <1>a, <2>1, <2>5, <2>8, <3>1 DEF StopMarker, Destroying
  <2>13. Answer'
    <3>1. CASE ti' = 0
      BY <1>a, <2>1, <3>1 DEF Answer
    <3>2. CASE ti' > 0 /\ ti' # 0
      <4>1. begun' = begun \cup {ti'} /\ tasks_processed' = (waiting \/ tasks_processed)
        BY <2>1, <3>2
      <4>2. ~ waiting => ti' \notin owed
        BY <1>a, <2>7, <3>2 DEF WaitMarker
      <4> QED  BY <1>a, <2>1, <4>1, <4>2 DEF Answer
    <3>3. CASE ti' = -1
      <4>1. Destroying /\ ~ Waiting
        BY <1>a, <2>5, <3>3 DEF StopMarker, Destroying, Waiting
      <4>2. ~ waiting
        BY <1>a, <4>1 DEF WaitMarker
      <4>3. begun' = begun /\ tasks_processed' = tasks_processed
        BY <1>a, <2>1, <3>3, <4>2 DEF TypeOK
      <4> QED  BY <1>a, <2>1, <4>3 DEF Answer
    <3> QED  BY <2>5, <3>1, <3>2, <3>3
  <2> QED  BY <2>9, <2>10, <2>11, <2>12, <2>13 DEF QInv
<1>6. CASE Return
  <2>1. /\ wpc = "run" /\ wpc' = "test"
        /\ wait_event' = (wait_event \/ ti = 0)
        /\ exit_thread' = (exit_thread \/ ti = -1)
        /\ executed' = IF ti > 0 THEN executed \cup {ti} ELSE executed
        /\ UNCHANGED <<tasks, waiting, tasks_processed, ti, upc, queued, owed, begun>>
    BY <1>6 DEF Return
  <2>2. Running /\ ~ Running'
    BY <2>1 DEF Running
  <2>3. Order'
    BY <1>a, <2>1 DEF Order
  <2>4. NothingDropped'
    <3>1. ti > 0 => ti \in 1..queued
      BY <1>a, <1>b DEF NothingDropped
    <3>2. executed' \subseteq 1..queued
      BY <1>a, <2>1, <3>1 DEF NothingDropped
    <3>3. ti > 0 => ti \in executed'
      BY <2>1
    <3>4. 1..queued \subseteq executed' \cup {ti} \cup ItemsOf(tasks)
      BY <1>a, <2>1 DEF NothingDropped
    <3> QED  BY <1>a, <2>1, <2>2, <3>2, <3>3, <3>4 DEF NothingDropped
  <2>5. WaitMarker'
    <3>1. wait_event' => ~ waiting /\ Waiting
      BY <1>a, <2>1, <2>2 DEF WaitMarker
    <3>2. executed \subseteq executed'
      BY <2>1
    <3> QED  BY <1>a, <2>1, <2>2, <3>1, <3>2 DEF WaitMarker, Waiting
  <2>6. StopMarker'
    <3>1. exit_thread' => Destroying /\ tasks = <<>>
      BY <1>a, <2>1, <2>2 DEF StopMarker
    <3> QED  BY <1>a, <2>1, <2>2, <3>1 DEF StopMarker, Destroying
  <2>7. Answer'
    BY <1>a, <2>1 DEF Answer
  <2> QED  BY <2>3, <2>4, <2>5, <2>6, <2>7 DEF QInv
<1>7. CASE WaitEvent
  <2>1. /\ upc = "event" /\ wait_event /\ wait_event' = FALSE /\ upc' = "read"
        /\ UNCHANGED <<tasks, waiting, tasks_processed, exit_thread, ti, wpc, queued,
                       executed, owed, begun>>
    BY <1>7 DEF WaitEvent, history
  <2>2. ~ waiting /\ ~ (Running /\ ti = 0)
    BY <1>a, <2>1 DEF WaitMarker
  <2>3. ~ Destroying
    BY <2>1 DEF Destroying
  <2>4. WaitMarker'
    BY <1>a, <2>1, <2>2 DEF WaitMarker, Running
  <2>5. StopMarker'
    BY <1>a, <2>1, <2>3 DEF StopMarker, Running
  <2>6. Order' /\ NothingDropped' /\ Answer'
    BY <1>a, <2>1 DEF Order, NothingDropped, Answer, Running
  <2> QED  BY <2>4, <2>5, <2>6 DEF QInv
<1>8. CASE WaitPost \/ WaitReturn \/ DestroyPost \/ DestroyJoin \/ Post
  <2>1. /\ UNCHANGED <<tasks, waiting, tasks_processed, wait_event, exit_thread, ti, wpc,
                       queued, executed, owed, begun>>
        /\ Waiting => Waiting'
        /\ Destroying => Destroying'
    BY <1>8 DEF WaitPost, WaitReturn, DestroyPost, DestroyJoin, Post, history, Waiting,
                Destroying
  <2>2. Order' /\ NothingDropped' /\ Answer'
    BY <1>a, <2>1 DEF Order, NothingDropped, Answer, Running
  <2>3. WaitMarker'
    BY <1>a, <2>1 DEF WaitMarker, Running
  <2>4. StopMarker'
    BY <1>a, <2>1 DEF StopMarker, Running
  <2> QED  BY <2>2, <2>3, <2>4 DEF QInv
<1>9. CASE TestExit \/ SemWait \/ SpawnPost
  <2>1. /\ UNCHANGED <<tasks, waiting, tasks_processed, wait_event, exit_thread, ti, upc,
                       queued, executed, owed, begun>>
        /\ Running' <=> Running
        /\ wpc' # "spawned"
        /\ exit_thread => wpc' \in {"test", "exited"}
        /\ wpc' = "exited" => exit_thread
    <3>1. CASE TestExit
      BY <3>1 DEF TestExit, history, Running
    <3>2. CASE SemWait
      BY <1>a, <3>2 DEF SemWait, history, Running, StopMarker
    <3>3. CASE SpawnPost
      BY <1>a, <3>3 DEF SpawnPost, history, Running, StopMarker
    <3> QED  BY <1>9, <3>1, <3>2, <3>3
  <2>2. Order' /\ NothingDropped' /\ Answer'
    BY <1>a, <2>1 DEF Order, NothingDropped, Answer
  <2>3. WaitMarker'
    BY <1>a, <2>1 DEF WaitMarker, Waiting
  <2>4. StopMarker'
    BY <1>a, <2>1 DEF StopMarker, Destroying
  <2> QED  BY <2>2, <2>3, <2>4 DEF QInv
<1>10. CASE UNCHANGED vars
  <2>1. UNCHANGED <<tasks, waiting, tasks_processed, wait_event, exit_thread, ti, upc, wpc,
                    queued, executed, owed, begun>>
    BY <1>10 DEF vars, history
  <2> QED
    BY <1>a, <2>1 DEF QInv, Order, NothingDropped, WaitMarker, StopMarker, Answer, Running,
                      Waiting, Destroying
<1> QED
  BY <1>1, <1>2, <1>3, <1>4, <1>5, <1>6, <1>7, <1>8, <1>9, <1>10 DEF Next, UIThread, Worker

\* so it always holds.
LEMMA InvariantQInv == Spec => [](IInv /\ QInv)
<1>1. Init => IInv /\ QInv
  BY InitIInv, InitQInv
<1>2. IInv /\ QInv /\ [Next]_vars => (IInv /\ QInv)'
  BY NextIInv, NextQInv
<1> QED  BY <1>1, <1>2, PTL DEF Spec

-----------------------------------------------------------------------------
(* What follows from it.                                                   *)

\* Tasks run in the order they were queued, though a marker in front of others
\* is put behind them.
THEOREM TasksInOrder == Spec => []InOrder
<1>1. IInv /\ QInv => InOrder
  BY DEF QInv, Order, InOrder, Ascending, ItemsOf
<1> QED  BY <1>1, InvariantQInv, PTL

\* os_task_queue_wait returns only when all that was queued before it, and all
\* that those tasks queued, has run.
THEOREM WaitFlushesTheQueue == Spec => []WaitFlushes
<1>1. IInv /\ QInv => WaitFlushes
  <2> SUFFICES ASSUME QInv, upc = "read"  PROVE owed \subseteq executed
    BY DEF WaitFlushes
  <2>1. ~ Waiting
    BY DEF Waiting
  <2> QED  BY <2>1 DEF QInv, WaitMarker
<1> QED  BY <1>1, InvariantQInv, PTL

\* What os_task_queue_wait answers is right: FALSE means that no task it owed the
\* caller was left to start, TRUE that one was started.
THEOREM WaitAnswersRightly == Spec => []WaitAnswers
<1>1. IInv /\ QInv => WaitAnswers
  BY DEF QInv, Answer, WaitAnswers
<1> QED  BY <1>1, InvariantQInv, PTL

\* The worker leaves an empty deque and every task run, so that freeing the
\* deque in os_task_queue_destroy drops nothing.
THEOREM DestroyDropsNothing == Spec => []DestroyRunsAll
<1>1. IInv /\ QInv => DestroyRunsAll
  <2> SUFFICES ASSUME IInv, QInv, wpc = "exited"
               PROVE  executed = 1..queued /\ tasks = <<>>
    BY DEF DestroyRunsAll
  <2>1. tasks = <<>> /\ ItemsOf(tasks) = {}
    BY EmptySeq DEF QInv, StopMarker, ItemsOf
  <2>2. ti > 0 => ti \in executed
    BY DEF QInv, NothingDropped, Running
  <2>3. ti \in 1..queued => ti > 0
    BY DEF IInv, TypeOK
  <2> QED  BY <2>1, <2>2, <2>3 DEF QInv, NothingDropped
<1> QED  BY <1>1, InvariantQInv, PTL
=============================================================================
