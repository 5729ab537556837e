---------------------------- MODULE GoroutinePool ---------------------------
(***************************************************************************)
(* GoroutinePool of pool.go.  A Submit call and its task are one element   *)
(* of Tasks; a Wait or Close call, whose bodies are the same, is one       *)
(* element of Closers.  The RWMutex is represented by the calls that hold  *)
(* it: a Submit holds the read lock from its first step to its return,     *)
(* also while it runs its task inline, and a Lock that is pending keeps    *)
(* new readers out.                                                        *)
(***************************************************************************)
EXTENDS Naturals, Sequences, FiniteSets

CONSTANTS Tasks, Workers, Closers, NoTask

ASSUME PoolAssumption ==
    /\ IsFiniteSet(Workers) /\ Workers # {}
    /\ NoTask \notin Tasks

VARIABLES st,      \* the state of each Submit call and its task
          runs,    \* history: how often each task was started
          queue,   \* the buffered channel p.workers
          closed,  \* p.closed; the channel is closed in the same section
          wpc,     \* control state of each worker
          wtask,   \* the task a worker runs
          cst,     \* control state of each Wait or Close call
          panic    \* a Submit has sent on the closed channel

poolVars == <<st, runs, queue, closed, wpc, wtask, cst, panic>>

\* The capacity of the channel is the number of workers.
Size == Cardinality(Workers)

PoolTypeOK ==
    /\ st \in [Tasks -> {"new", "locked", "checked", "queued", "inline", "running",
                         "done", "dropped"}]
    /\ runs \in [Tasks -> Nat]
    /\ queue \in Seq(Tasks) /\ Len(queue) <= Size
    /\ closed \in BOOLEAN
    /\ wpc \in [Workers -> {"range", "run", "exited"}]
    /\ wtask \in [Workers -> Tasks \cup {NoTask}]
    /\ cst \in [Closers -> {"idle", "pending", "waiting", "returned"}]
    /\ panic \in BOOLEAN

\* NewGoroutinePool starts all workers.
PoolInit ==
    /\ st = [t \in Tasks |-> "new"]
    /\ runs = [t \in Tasks |-> 0]
    /\ queue = <<>>
    /\ closed = FALSE
    /\ wpc = [w \in Workers |-> "range"]
    /\ wtask = [w \in Workers |-> NoTask]
    /\ cst = [c \in Closers |-> "idle"]
    /\ panic = FALSE

\* Mutated form: the read lock is released before the task runs inline.
ReadersNotInline == {t \in Tasks : st[t] \in {"locked", "checked"}}

\* Mutated form: the check of closed is not covered by the lock.
ReadersUnchecked == {t \in Tasks : st[t] = "inline"}

\* The Submit calls that hold the read lock.
Readers == {t \in Tasks : st[t] \in {"locked", "checked", "inline"}}

\* Submit t moves from one state to another.
SubmitGoto(t, from, to) ==
    /\ st[t] = from
    /\ st' = [st EXCEPT ![t] = to]

-----------------------------------------------------------------------------
(* Submit                                                                  *)

\* RLock.
SubmitLock(t) ==
    /\ \A c \in Closers : cst[c] # "pending"
    /\ SubmitGoto(t, "new", "locked")
    /\ UNCHANGED <<runs, queue, closed, wpc, wtask, cst, panic>>

\* A closed pool drops the task.
SubmitCheck(t) ==
    /\ SubmitGoto(t, "locked", IF closed THEN "dropped" ELSE "checked")
    /\ UNCHANGED <<runs, queue, closed, wpc, wtask, cst, panic>>

\* Mutated form: the channel takes tasks beyond its capacity.
SubmitSendUnbounded(t) ==
    /\ SubmitGoto(t, "checked", "queued")
    /\ queue' = Append(queue, t)
    /\ panic' = closed
    /\ UNCHANGED <<runs, closed, wpc, wtask, cst>>

\* The send succeeds if the channel has room; on a closed channel it panics.
SubmitSend(t) ==
    /\ Len(queue) < Size \/ closed
    /\ SubmitGoto(t, "checked", "queued")
    /\ queue' = Append(queue, t)
    /\ panic' = closed
    /\ UNCHANGED <<runs, closed, wpc, wtask, cst>>

\* The channel is full: the task runs on the caller's goroutine.
SubmitInline(t) ==
    /\ Len(queue) >= Size /\ ~closed
    /\ SubmitGoto(t, "checked", "inline")
    /\ runs' = [runs EXCEPT ![t] = @ + 1]
    /\ UNCHANGED <<queue, closed, wpc, wtask, cst, panic>>

SubmitInlineEnd(t) ==
    /\ SubmitGoto(t, "inline", "done")
    /\ UNCHANGED <<runs, queue, closed, wpc, wtask, cst, panic>>

-----------------------------------------------------------------------------
(* worker                                                                  *)

\* Mutated form: the received task stays in the channel.
WorkerReceiveKeeps(w) ==
    /\ wpc[w] = "range" /\ queue # <<>>
    /\ wpc' = [wpc EXCEPT ![w] = "run"]
    /\ wtask' = [wtask EXCEPT ![w] = Head(queue)]
    /\ st' = [st EXCEPT ![Head(queue)] = "running"]
    /\ runs' = [runs EXCEPT ![Head(queue)] = @ + 1]
    /\ UNCHANGED <<queue, closed, cst, panic>>

\* The range loop takes the next task, also from a closed channel.
WorkerReceive(w) ==
    /\ wpc[w] = "range" /\ queue # <<>>
    /\ wpc' = [wpc EXCEPT ![w] = "run"]
    /\ wtask' = [wtask EXCEPT ![w] = Head(queue)]
    /\ st' = [st EXCEPT ![Head(queue)] = "running"]
    /\ runs' = [runs EXCEPT ![Head(queue)] = @ + 1]
    /\ queue' = Tail(queue)
    /\ UNCHANGED <<closed, cst, panic>>

WorkerTaskEnd(w) ==
    /\ wpc[w] = "run"
    /\ wpc' = [wpc EXCEPT ![w] = "range"]
    /\ st' = [st EXCEPT ![wtask[w]] = "done"]
    /\ wtask' = [wtask EXCEPT ![w] = NoTask]
    /\ UNCHANGED <<runs, queue, closed, cst, panic>>

\* Mutated form: a worker leaves as soon as the pool is closed.
WorkerExitEarly(w) ==
    /\ wpc[w] = "range" /\ closed
    /\ wpc' = [wpc EXCEPT ![w] = "exited"]
    /\ UNCHANGED <<st, runs, queue, closed, wtask, cst, panic>>

\* The channel is closed and drained: the loop ends, wg.Done.
WorkerExit(w) ==
    /\ wpc[w] = "range" /\ closed /\ queue = <<>>
    /\ wpc' = [wpc EXCEPT ![w] = "exited"]
    /\ UNCHANGED <<st, runs, queue, closed, wtask, cst, panic>>

-----------------------------------------------------------------------------
(* Wait and Close                                                          *)

\* Lock has excluded the other writers; it waits for the readers and holds off
\* new ones.
CloserLock(c) ==
    /\ cst[c] = "idle"
    /\ \A d \in Closers : cst[d] # "pending"
    /\ cst' = [cst EXCEPT ![c] = "pending"]
    /\ UNCHANGED <<st, runs, queue, closed, wpc, wtask, panic>>

\* Mutated form: a second caller returns from the section with the lock held.
CloserCloseKeepsLock(c) ==
    /\ cst[c] = "pending" /\ Readers = {}
    /\ closed' = TRUE
    /\ cst' = [cst EXCEPT ![c] = IF closed THEN "pending" ELSE "waiting"]
    /\ UNCHANGED <<st, runs, queue, wpc, wtask, panic>>

\* The section under the write lock.
CloserClose(c) ==
    /\ cst[c] = "pending" /\ Readers = {}
    /\ closed' = TRUE
    /\ cst' = [cst EXCEPT ![c] = "waiting"]
    /\ UNCHANGED <<st, runs, queue, wpc, wtask, panic>>

\* wg.Wait returns.
CloserReturn(c) ==
    /\ cst[c] = "waiting"
    /\ \A w \in Workers : wpc[w] = "exited"
    /\ cst' = [cst EXCEPT ![c] = "returned"]
    /\ UNCHANGED <<st, runs, queue, closed, wpc, wtask, panic>>

-----------------------------------------------------------------------------
(* The specification                                                       *)

SubmitStep(t) ==
    \/ SubmitCheck(t) \/ SubmitSend(t) \/ SubmitInline(t) \/ SubmitInlineEnd(t)

WorkerStep(w) == WorkerReceive(w) \/ WorkerTaskEnd(w) \/ WorkerExit(w)

CloserStep(c) == CloserClose(c) \/ CloserReturn(c)

PoolNext ==
    \/ \E t \in Tasks : SubmitLock(t) \/ SubmitStep(t)
    \/ \E w \in Workers : WorkerStep(w)
    \/ \E c \in Closers : CloserLock(c) \/ CloserStep(c)

\* Runnable goroutines run, and tasks end.  Whether Submit or Wait is called is
\* up to the callers.
PoolFairness ==
    /\ \A t \in Tasks : WF_poolVars(SubmitStep(t))
    /\ \A w \in Workers : WF_poolVars(WorkerStep(w))
    /\ \A c \in Closers : WF_poolVars(CloserStep(c))

PoolSafety == PoolInit /\ [][PoolNext]_poolVars
PoolSpec == PoolSafety /\ PoolFairness

-----------------------------------------------------------------------------
(* Properties                                                              *)

\* A Submit never sends on the closed channel, however it is interleaved with
\* Wait and Close.
NoSendOnClosed == ~panic

\* When Wait or Close has returned, no task that was accepted is still queued or
\* running, on a worker or inline on its caller's goroutine.
WaitDrains ==
    \A c \in Closers : cst[c] = "returned" =>
        \A t \in Tasks : st[t] \notin {"queued", "running", "inline"}

\* A task is started at most once, and never if Submit dropped it.
RunsAtMostOnce ==
    \A t \in Tasks : runs[t] <= 1 /\ (st[t] = "dropped" => runs[t] = 0)

\* A task that Submit has accepted is run to its end, also when the pool is
\* closed meanwhile.
AcceptedTasksRun == \A t \in Tasks : st[t] = "queued" ~> st[t] = "done"

\* Wait and Close return once the tasks have ended.
WaitReturns == \A c \in Closers : cst[c] = "pending" ~> cst[c] = "returned"

=============================================================================
