--------------------------- MODULE QueueRefinement ---------------------------
(***************************************************************************)
(* JobQueue as an implementation of WorkQueue.  A row's state is the job's *)
(* status, its goroutines are the workers on it, and a job has succeeded   *)
(* when a handler has returned nil for it.                                 *)
(***************************************************************************)
EXTENDS JobQueue

StatusNames == [absent |-> "absent", queued |-> "waiting", running |-> "working",
                done |-> "done", failed |-> "failed"]

WQ == INSTANCE WorkQueue WITH
        Work      <- Job,
        Worker    <- Slot,
        status    <- [j \in Job |-> StatusNames[jobs[j].state]],
        holders   <- [j \in Job |-> RunsOf(j)],
        succeeded <- [j \in Job |-> okRuns[j] > 0]

\* When every handler obeys its context, claim, runJob, done, fail, markFailed
\* and sweep keep the promises of WorkQueue through crashes, lost claims and
\* lost statements: in particular the lease is never what takes a job from a
\* goroutine that is on it, and every final update is made by the one holder.
ImplementsWorkQueue == WQ!Spec
=============================================================================
