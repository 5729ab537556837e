------------------------- MODULE GoroutinePoolProofs ------------------------
(***************************************************************************)
(* Safety of GoroutinePool for any number of tasks and callers and any     *)
(* positive number of workers.                                             *)
(***************************************************************************)
EXTENDS GoroutinePool, FiniteSetTheorems, TLAPS

\* The queued tasks are exactly those in the channel, each of them once.
QueueInv ==
    /\ \A t \in Tasks : st[t] = "queued" => \E i \in 1..Len(queue) : queue[i] = t
    /\ \A i \in 1..Len(queue) : st[queue[i]] = "queued"
    /\ \A i, j \in 1..Len(queue) : queue[i] = queue[j] => i = j

\* The running tasks are exactly those the workers hold, each by one worker.
WorkerInv ==
    /\ \A t \in Tasks : st[t] = "running" => \E w \in Workers : wpc[w] = "run" /\ wtask[w] = t
    /\ \A w \in Workers : wpc[w] = "run" => wtask[w] \in Tasks /\ st[wtask[w]] = "running"
    /\ \A v, w \in Workers :
          wpc[v] = "run" /\ wpc[w] = "run" /\ wtask[v] = wtask[w] => v = w

\* A task has been started once if it runs or has run, and not before.
RunInv ==
    \A t \in Tasks : runs[t] = IF st[t] \in {"inline", "running", "done"} THEN 1 ELSE 0

\* The write lock was taken with no Submit between its check and its return, so
\* that a closed channel only gets shorter; a worker has left only a drained
\* channel, and Wait has returned only when all have left.
CloseInv ==
    /\ closed => \A t \in Tasks : st[t] \notin {"checked", "inline"}
    /\ \A w \in Workers : wpc[w] = "exited" => closed /\ queue = <<>>
    /\ \A c \in Closers : cst[c] \in {"waiting", "returned"} => closed
    /\ \A c \in Closers : cst[c] = "returned" => \A w \in Workers : wpc[w] = "exited"
    /\ ~panic

PoolInv == PoolTypeOK /\ QueueInv /\ WorkerInv /\ RunInv /\ CloseInv

\* The capacity of the channel is a positive number.
LEMMA SizePositive == Size \in Nat \ {0}
BY PoolAssumption, FS_CardinalityType, FS_EmptySet DEF PoolAssumption, Size

\* Every step of Submit keeps the invariant.
LEMMA SubmitPreserves ==
    ASSUME PoolInv, NEW t \in Tasks, SubmitLock(t) \/ SubmitStep(t)
    PROVE  PoolInv'
<1> USE SizePositive DEF PoolInv, PoolTypeOK, SubmitGoto
<1>1. CASE SubmitLock(t)
  BY <1>1 DEF SubmitLock, QueueInv, WorkerInv, RunInv, CloseInv
<1>2. CASE SubmitCheck(t)
  BY <1>2 DEF SubmitCheck, QueueInv, WorkerInv, RunInv, CloseInv
<1>3. CASE SubmitSend(t)
  <2> USE <1>3 DEF SubmitSend
  <2>1. ~closed /\ Len(queue) < Size
    BY DEF CloseInv
  <2>2. /\ queue' \in Seq(Tasks)
        /\ Len(queue') = Len(queue) + 1
        /\ \A i \in 1..Len(queue) : queue'[i] = queue[i]
        /\ queue'[Len(queue) + 1] = t
    OBVIOUS
  <2>3. PoolTypeOK'
    BY <2>1, <2>2
  <2>4. QueueInv'
    BY <2>2 DEF QueueInv
  <2>5. WorkerInv' /\ RunInv'
    BY DEF WorkerInv, RunInv
  <2>6. CloseInv'
    BY <2>1 DEF CloseInv
  <2> QED
    BY <2>3, <2>4, <2>5, <2>6
<1>4. CASE SubmitInline(t)
  <2> USE <1>4 DEF SubmitInline
  <2>1. PoolTypeOK'
    OBVIOUS
  <2>2. QueueInv' /\ WorkerInv'
    BY DEF QueueInv, WorkerInv
  <2>3. RunInv'
    BY DEF RunInv
  <2>4. CloseInv'
    BY DEF CloseInv
  <2> QED
    BY <2>1, <2>2, <2>3, <2>4
<1>5. CASE SubmitInlineEnd(t)
  BY <1>5 DEF SubmitInlineEnd, QueueInv, WorkerInv, RunInv, CloseInv
<1> QED
  BY <1>1, <1>2, <1>3, <1>4, <1>5 DEF SubmitStep

\* Every step of a worker keeps the invariant.
LEMMA WorkerPreserves ==
    ASSUME PoolInv, NEW w \in Workers, WorkerStep(w)
    PROVE  PoolInv'
<1> USE SizePositive DEF PoolInv, PoolTypeOK
<1>1. CASE WorkerReceive(w)
  <2> USE <1>1 DEF WorkerReceive
  <2>1. /\ Head(queue) \in Tasks /\ Head(queue) = queue[1] /\ Len(queue) > 0
        /\ queue' \in Seq(Tasks)
        /\ Len(queue') = Len(queue) - 1
        /\ \A i \in 1..Len(queue') : queue'[i] = queue[i + 1]
    OBVIOUS
  <2>2. st[Head(queue)] = "queued"
    BY <2>1 DEF QueueInv
  <2>3. PoolTypeOK'
    BY <2>1
  <2>4. QueueInv'
    <3>1. ASSUME NEW t \in Tasks, st'[t] = "queued"
          PROVE  \E i \in 1..Len(queue') : queue'[i] = t
      <4>1. t # Head(queue) /\ st[t] = "queued"
        BY <3>1, <2>1
      <4>2. PICK i \in 1..Len(queue) : queue[i] = t
        BY <4>1 DEF QueueInv
      <4>3. i # 1
        BY <4>1, <4>2, <2>1
      <4>4. i - 1 \in 1..Len(queue') /\ i = (i - 1) + 1
        BY <4>3, <2>1
      <4> HIDE DEF WorkerReceive
      <4>5. queue'[i - 1] = queue[(i - 1) + 1]
        BY <4>4, <2>1
      <4>6. queue'[i - 1] = t
        BY <4>2, <4>4, <4>5
      <4> QED
        BY <4>4, <4>6
    <3>2. ASSUME NEW i \in 1..Len(queue') PROVE st'[queue'[i]] = "queued"
      BY <2>1 DEF QueueInv
    <3>3. \A i, j \in 1..Len(queue') : queue'[i] = queue'[j] => i = j
      BY <2>1 DEF QueueInv
    <3> QED
      BY <3>1, <3>2, <3>3 DEF QueueInv
  <2>5. WorkerInv'
    BY <2>1, <2>2 DEF WorkerInv
  <2>6. RunInv'
    BY <2>1, <2>2 DEF RunInv
  <2>7. CloseInv'
    BY <2>1 DEF CloseInv
  <2> QED
    BY <2>3, <2>4, <2>5, <2>6, <2>7
<1>2. CASE WorkerTaskEnd(w)
  BY <1>2 DEF WorkerTaskEnd, QueueInv, WorkerInv, RunInv, CloseInv
<1>3. CASE WorkerExit(w)
  BY <1>3 DEF WorkerExit, QueueInv, WorkerInv, RunInv, CloseInv
<1> QED
  BY <1>1, <1>2, <1>3 DEF WorkerStep

\* Every step of Wait and Close keeps the invariant: the write lock excludes the
\* Submit calls that are past their check.
LEMMA CloserPreserves ==
    ASSUME PoolInv, NEW c \in Closers, CloserLock(c) \/ CloserStep(c)
    PROVE  PoolInv'
<1> USE DEF PoolInv, PoolTypeOK
<1>1. CASE CloserLock(c)
  BY <1>1 DEF CloserLock, QueueInv, WorkerInv, RunInv, CloseInv
<1>2. CASE CloserClose(c)
  BY <1>2 DEF CloserClose, Readers, QueueInv, WorkerInv, RunInv, CloseInv
<1>3. CASE CloserReturn(c)
  BY <1>3 DEF CloserReturn, QueueInv, WorkerInv, RunInv, CloseInv
<1> QED
  BY <1>1, <1>2, <1>3 DEF CloserStep

\* The conjunction is an invariant of the pool.
THEOREM PoolInvariant == PoolSafety => []PoolInv
<1>1. PoolInit => PoolInv
  <2> SUFFICES ASSUME PoolInit PROVE PoolInv
    OBVIOUS
  <2>1. queue \in Seq(Tasks) /\ Len(queue) = 0 /\ Len(queue) <= Size
    BY SizePositive DEF PoolInit
  <2>2. PoolTypeOK
    BY <2>1 DEF PoolInit, PoolTypeOK
  <2>3. QueueInv
    BY <2>1 DEF PoolInit, QueueInv
  <2>4. WorkerInv /\ RunInv /\ CloseInv
    BY DEF PoolInit, WorkerInv, RunInv, CloseInv
  <2> QED
    BY <2>2, <2>3, <2>4 DEF PoolInv
<1>2. PoolInv /\ [PoolNext]_poolVars => PoolInv'
  <2> SUFFICES ASSUME PoolInv, [PoolNext]_poolVars PROVE PoolInv'
    OBVIOUS
  <2>1. CASE UNCHANGED poolVars
    BY <2>1 DEF poolVars, PoolInv, PoolTypeOK, QueueInv, WorkerInv, RunInv, CloseInv
  <2> QED
    BY <2>1, SubmitPreserves, WorkerPreserves, CloserPreserves DEF PoolNext
<1> QED
  BY <1>1, <1>2, PTL DEF PoolSafety

\* Every variable of the pool keeps its type, and the channel never holds more
\* tasks than its capacity.
THEOREM PoolTypeCorrect == PoolSafety => []PoolTypeOK
<1>1. PoolInv => PoolTypeOK
  BY DEF PoolInv
<1> QED
  BY <1>1, PoolInvariant, PTL

\* No Submit sends on the closed channel, whatever the interleaving with Wait and
\* Close.
THEOREM SubmitNeverSendsOnClosed == PoolSafety => []NoSendOnClosed
<1>1. PoolInv => NoSendOnClosed
  BY DEF PoolInv, CloseInv, NoSendOnClosed
<1> QED
  BY <1>1, PoolInvariant, PTL

\* Wait and Close return only when no accepted task is queued or running.
THEOREM WaitDrainsPool == PoolSafety => []WaitDrains
<1>1. PoolInv => WaitDrains
  <2> SUFFICES ASSUME PoolInv, NEW c \in Closers, cst[c] = "returned", NEW t \in Tasks
               PROVE  st[t] \notin {"queued", "running", "inline"}
    BY DEF WaitDrains
  <2>1. closed /\ \A w \in Workers : wpc[w] = "exited"
    BY DEF PoolInv, CloseInv
  <2>2. queue = <<>>
    BY <2>1, PoolAssumption DEF PoolAssumption, PoolInv, CloseInv
  <2>3. st[t] # "queued"
    BY <2>2 DEF PoolInv, QueueInv
  <2>4. st[t] # "running"
    BY <2>1 DEF PoolInv, WorkerInv
  <2>5. st[t] # "inline"
    BY <2>1 DEF PoolInv, CloseInv
  <2> QED
    BY <2>3, <2>4, <2>5
<1> QED
  BY <1>1, PoolInvariant, PTL

\* A task is started at most once, and never after Submit has dropped it.
THEOREM TasksRunAtMostOnce == PoolSafety => []RunsAtMostOnce
<1>1. PoolInv => RunsAtMostOnce
  BY DEF PoolInv, RunInv, RunsAtMostOnce
<1> QED
  BY <1>1, PoolInvariant, PTL

=============================================================================
