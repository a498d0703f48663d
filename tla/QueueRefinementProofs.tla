------------------------ MODULE QueueRefinementProofs ------------------------
(***************************************************************************)
(* JobQueue implements WorkQueue, for every number of jobs, goroutines and *)
(* faults, when every handler obeys its context.                           *)
(***************************************************************************)
EXTENDS QueueRefinement, JobQueueProofs

\* Both invariants of JobQueueProofs.
RefInv == RunInv /\ ReasonInv

\* The states of a row have different names in WorkQueue too.
LEMMA Names ==
  /\ StatusNames["absent"] = "absent" /\ StatusNames["queued"] = "waiting"
  /\ StatusNames["running"] = "working" /\ StatusNames["done"] = "done"
  /\ StatusNames["failed"] = "failed"
  BY DEF StatusNames

\* At most one goroutine is on a job, and then the job is running.
LEMMA HeldByOne ==
  ASSUME Kind \subseteq Prompt, RefInv, NEW s \in Slot, runs[s].phase # "idle"
  PROVE  /\ runs[s].job \in Job
         /\ RunsOf(runs[s].job) = {s}
         /\ jobs[runs[s].job].state = "running"
         /\ WQ!Held(runs[s].job)
  <1>1. /\ runs[s].job \in Job /\ jobs[runs[s].job].kind \in Prompt
    BY DEF RefInv, RunInv, TypeOK, Goroutine, Row
  <1>2. RunsOf(runs[s].job) = {s}
    BY <1>1 DEF RefInv, RunInv, Alone, RunsOf, Active
  <1>3. jobs[runs[s].job].state = "running"
    BY <1>1 DEF RefInv, RunInv, Covered
  <1> QED BY <1>1, <1>2, <1>3, Names DEF WQ!Held
\* A step that changes jobs row by row is a Move of WorkQueue.
LEMMA MoveStep ==
  ASSUME NEW W \in SUBSET Job, NEW st,
         \A j \in Job : StatusNames[jobs'[j].state]
                          = IF j \in W THEN st ELSE StatusNames[jobs[j].state],
         \A j \in Job : RunsOf(j)' = IF j \in W THEN {} ELSE RunsOf(j),
         okRuns' = okRuns
  PROVE  WQ!Move(W, st)
  BY DEF WQ!Move

\* Steps that WorkQueue does not see.
LEMMA HiddenStep ==
  ASSUME \A j \in Job : jobs'[j].state = jobs[j].state,
         \A s \in Slot : /\ runs'[s].phase = "idle" <=> runs[s].phase = "idle"
                         /\ runs[s].phase # "idle" => runs'[s].job = runs[s].job,
         okRuns' = okRuns
  PROVE  UNCHANGED WQ!wvars
  <1>1. \A j \in Job : RunsOf(j)' = RunsOf(j)
    BY DEF RunsOf, Active
  <1> QED BY <1>1 DEF WQ!wvars

\* The goroutine that ends leaves its job without a holder, and no other.
LEMMA LetsGo ==
  ASSUME Kind \subseteq Prompt, RefInv, NEW s \in Slot, runs[s].phase # "idle",
         EndRun(s)
  PROVE  \A j \in Job : RunsOf(j)' = IF j \in {runs[s].job} THEN {} ELSE RunsOf(j)
  <1> SUFFICES ASSUME NEW j \in Job
               PROVE  RunsOf(j)' = IF j = runs[s].job THEN {} ELSE RunsOf(j)
    OBVIOUS
  <1>1. runs'[s].phase = "idle" /\ \A u \in Slot \ {s} : runs'[u] = runs[u]
    BY DEF EndRun, NoRun, RefInv, RunInv, TypeOK
  <1>2. RunsOf(j)' = RunsOf(j) \ {s}
    BY <1>1 DEF RunsOf, Active
  <1>3. CASE j = runs[s].job
    BY <1>2, <1>3, HeldByOne
  <1>4. CASE j # runs[s].job
    BY <1>2, <1>4 DEF RunsOf
  <1> QED BY <1>3, <1>4

\* Every step of the queue is a step of WorkQueue, or none.
LEMMA RefinementStep ==
  ASSUME Kind \subseteq Prompt, RefInv, [Next]_vars
  PROVE  [WQ!Next]_WQ!wvars
  <1>0. TypeOK /\ (\A s \in Slot : runs[s] \in Goroutine) /\ (\A j \in Job : jobs[j] \in Row)
    BY DEF RefInv, RunInv, TypeOK
  <1>n. ASSUME NEW j \in Job, jobs[j].state # "running"
        PROVE  RunsOf(j) = {}
    BY <1>n, HeldByOne DEF RunsOf, Active
  <1>1. ASSUME NEW j \in Job, NEW k \in Kind, NEW key \in Key \cup {NoKey},
               Enqueue(j, k, key)
        PROVE  WQ!Submit({j})
    <2>1. RunsOf(j) = {} /\ \A i \in Job : RunsOf(i)' = RunsOf(i)
      BY <1>1, <1>n DEF Enqueue, RunsOf, Active
    <2>2. jobs'[j].state = "queued" /\ \A i \in Job \ {j} : jobs'[i] = jobs[i]
      BY <1>0, <1>1 DEF Enqueue, NoRow, TypeOK
    <2>3. WQ!Move({j}, "waiting")
      BY <1>1, <2>1, <2>2, Names, MoveStep DEF Enqueue
    <2> QED BY <1>1, <2>3, Names DEF WQ!Submit, Enqueue
  <1>2. ASSUME NEW J \in SUBSET Job, NEW k \in Kind, EnqueueBatch(J, k)
        PROVE  WQ!Submit(J)
    <2>1. /\ \A j \in J : RunsOf(j) = {}
          /\ \A i \in Job : RunsOf(i)' = RunsOf(i)
      BY <1>2, <1>n DEF EnqueueBatch, RunsOf, Active
    <2>2. /\ \A j \in J : jobs'[j].state = "queued"
          /\ \A i \in Job \ J : jobs'[i] = jobs[i]
      BY <1>2 DEF EnqueueBatch, NoRow
    <2>3. WQ!Move(J, "waiting")
      BY <1>2, <2>1, <2>2, Names, MoveStep DEF EnqueueBatch
    <2> QED BY <1>2, <2>3, Names DEF WQ!Submit, EnqueueBatch
  <1>3. ASSUME NEW j \in Job, Claimed(j), okRuns' = okRuns
        PROVE  /\ jobs[j].state = "queued" /\ RunsOf(j) = {}
               /\ jobs'[j].state = "running"
               /\ \A i \in Job \ {j} : jobs'[i] = jobs[i]
    BY <1>0, <1>3, <1>n DEF Claimed, Due, TypeOK, Row
  <1>4. ASSUME NEW s \in Slot, NEW j \in Job, Claim(s, j)
        PROVE  WQ!Take(j, s)
    <2>1. \A i \in Job : RunsOf(i)' = IF i = j THEN {s} ELSE RunsOf(i)
      <3>1. /\ runs[s].phase = "idle" /\ runs'[s].phase # "idle" /\ runs'[s].job = j
            /\ \A u \in Slot \ {s} : runs'[u] = runs[u]
        BY <1>0, <1>4 DEF Claim, TypeOK
      <3>2. RunsOf(j) = {}
        BY <1>3, <1>4 DEF Claim
      <3> QED BY <3>1, <3>2 DEF RunsOf, Active
    <2>2. \A i \in Job : s \notin RunsOf(i)
      BY <1>4 DEF Claim, RunsOf, Active
    <2> QED BY <1>3, <1>4, <2>1, <2>2, Names DEF Claim, WQ!Take
  <1>5. ASSUME NEW j \in Job, ClaimLost(j)
        PROVE  WQ!TakeInVain(j)
    <2>1. \A i \in Job : RunsOf(i)' = RunsOf(i)
      BY <1>5 DEF ClaimLost, RunsOf, Active
    <2> QED BY <1>3, <1>5, <2>1, Names DEF ClaimLost, WQ!TakeInVain
  <1>6. ASSUME NEW s \in Slot,
               StartJob(s) \/ HandlerErr(s) \/ FailRead(s)
        PROVE  UNCHANGED WQ!wvars
    <2>1. /\ jobs' = jobs /\ okRuns' = okRuns
          /\ \A u \in Slot : /\ runs'[u].phase = "idle" <=> runs[u].phase = "idle"
                             /\ runs'[u].job = runs[u].job
      BY <1>0, <1>6 DEF StartJob, HandlerErr, FailRead, Goto, TypeOK, Goroutine
    <2> QED BY <2>1, HiddenStep
  <1>7. ASSUME NEW s \in Slot, HandlerOk(s)
        PROVE  \E j \in Job : WQ!Succeed(j)
    <2>j. PICK j \in Job : j = runs[s].job
      BY <1>0 DEF Goroutine
    <2>1. /\ jobs' = jobs
          /\ \A u \in Slot : /\ runs'[u].phase = "idle" <=> runs[u].phase = "idle"
                             /\ runs'[u].job = runs[u].job
      BY <1>0, <1>7 DEF HandlerOk, Goto, TypeOK, Goroutine
    <2>2. \A i \in Job : RunsOf(i)' = RunsOf(i)
      BY <2>1 DEF RunsOf, Active
    <2>3. WQ!Held(j)
      BY <1>7, <2>j, HeldByOne DEF HandlerOk, WQ!Held
    <2>4. /\ okRuns'[j] = okRuns[j] + 1 /\ okRuns[j] \in Nat
          /\ \A i \in Job \ {j} : okRuns'[i] = okRuns[i]
      BY <1>0, <1>7, <2>j DEF HandlerOk, TypeOK
    <2>5. okRuns'[j] > 0
      BY <2>4
    <2>6. WQ!Succeed(j)
      BY <2>1, <2>2, <2>3, <2>4, <2>5 DEF WQ!Succeed
    <2> QED BY <2>6
  <1>8. ASSUME NEW s \in Slot, Requeue(s) \/ MarkFailed(s) \/ MarkDone(s)
        PROVE  \E j \in Job : WQ!PutBack(j) \/ WQ!GiveUp(j) \/ WQ!Finish(j)
    <2>j. PICK j \in Job : j = runs[s].job
      BY <1>0 DEF Goroutine
    <2>1. WQ!Held(j)
      BY <1>8, <2>j, HeldByOne DEF Requeue, MarkFailed, MarkDone, WQ!Held
    <2>2. /\ okRuns' = okRuns
          /\ \A i \in Job : RunsOf(i)' = IF i \in {j} THEN {} ELSE RunsOf(i)
      BY <1>8, <2>j, LetsGo DEF Requeue, MarkFailed, MarkDone, EndRun
    <2>3. CASE Requeue(s)
      <3>1. jobs'[j].state = "queued" /\ \A i \in Job \ {j} : jobs'[i] = jobs[i]
        BY <1>0, <2>j, <2>3 DEF Requeue, TypeOK, Row
      <3>2. WQ!Move({j}, "waiting")
        BY <2>1, <2>2, <3>1, Names, MoveStep
      <3> QED BY <2>1, <3>2 DEF WQ!PutBack
    <2>4. CASE MarkFailed(s)
      <3>1. jobs'[j].state = "failed" /\ \A i \in Job \ {j} : jobs'[i] = jobs[i]
        BY <1>0, <2>j, <2>4 DEF MarkFailed, TypeOK, Row
      <3>2. WQ!Move({j}, "failed")
        BY <2>1, <2>2, <3>1, Names, MoveStep
      <3> QED BY <2>1, <3>2 DEF WQ!GiveUp
    <2>5. CASE MarkDone(s)
      <3>1. jobs'[j].state = "done" /\ \A i \in Job \ {j} : jobs'[i] = jobs[i]
        BY <1>0, <2>j, <2>5 DEF MarkDone, TypeOK, Row
      <3>2. WQ!Move({j}, "done")
        BY <2>1, <2>2, <3>1, Names, MoveStep
      <3>3. okRuns[j] > 0
        BY <2>j, <2>5 DEF MarkDone, RefInv, ReasonInv, Reason
      <3> QED BY <2>1, <3>2, <3>3 DEF WQ!Finish
    <2> QED BY <1>8, <2>3, <2>4, <2>5
  <1>9. ASSUME NEW s \in Slot, StatementError(s)
        PROVE  \E W \in SUBSET Job : WQ!Lose(W)
    <2>j. PICK j \in Job : j = runs[s].job
      BY <1>0 DEF Goroutine
    <2>1. \A i \in Job : RunsOf(i)' = IF i \in {j} THEN {} ELSE RunsOf(i)
      BY <1>9, <2>j, LetsGo DEF StatementError
    <2>2. WQ!Lose({j})
      BY <1>9, <2>1 DEF StatementError, EndRun, WQ!Lose
    <2> QED BY <2>2
  <1>10. ASSUME Sweep
         PROVE  \E W \in SUBSET Job : WQ!Reclaim(W)
    <2>w. PICK W \in SUBSET Job : W = {j \in Job : Expired(j)}
      OBVIOUS
    <2>1. ASSUME NEW j \in W
          PROVE  jobs[j].state = "running" /\ RunsOf(j) = {}
      <3>1. jobs[j].state = "running" /\ jobs[j].lease # NoLease /\ jobs[j].lease < 0
        BY <2>w DEF Expired
      <3>2. ASSUME NEW s \in Slot, runs[s].phase # "idle", runs[s].job = j
            PROVE  FALSE
        <4>1. jobs[j].kind \in Prompt /\ jobs[j].lease \in Int
          BY <1>0, <3>1 DEF Row, Leases
        <4>2. runs[s].left + Remaining(runs[s].phase) \in Nat
          BY <1>0, RemainingType DEF Goroutine
        <4>3. jobs[j].lease >= runs[s].left + Remaining(runs[s].phase)
          BY <3>2, <4>1 DEF RefInv, RunInv, Covered
        <4> QED BY <3>1, <4>1, <4>2, <4>3
      <3> QED BY <3>1, <3>2 DEF RunsOf, Active
    <2>2. ASSUME NEW j \in Job
          PROVE  /\ j \in W => jobs'[j].state = "queued"
                 /\ j \notin W => jobs'[j] = jobs[j]
      <3>1. CASE Expired(j)
        BY <1>0, <1>10, <2>w, <3>1 DEF Sweep, Row
      <3>2. CASE ~Expired(j)
        BY <1>10, <2>w, <3>2 DEF Sweep
      <3> QED BY <3>1, <3>2
    <2>3. \A j \in Job : RunsOf(j)' = RunsOf(j)
      BY <1>10 DEF Sweep, RunsOf, Active
    <2>4. okRuns' = okRuns
      BY <1>10 DEF Sweep
    <2>5. WQ!Move(W, "waiting")
      BY <2>1, <2>2, <2>3, <2>4, Names, MoveStep
    <2>6. WQ!Reclaim(W)
      BY <2>1, <2>4, <2>5, Names DEF WQ!Reclaim
    <2> QED BY <2>6
  <1>11. ASSUME Exit \/ Crash
         PROVE  WQ!Lose(Job)
    <2>1. \A j \in Job : RunsOf(j)' = {}
      BY <1>11 DEF Exit, Crash, NoRun, RunsOf, Active
    <2> QED BY <1>11, <2>1 DEF Exit, Crash, WQ!Lose
  <1>12. ASSUME Close \/ Restart \/ UNCHANGED vars
         PROVE  UNCHANGED WQ!wvars
    BY <1>12, HiddenStep DEF Close, Restart, vars
  <1>13. ASSUME Tick
         PROVE  UNCHANGED WQ!wvars
    <2>1. \A j \in Job : jobs'[j].state = jobs[j].state
      BY <1>0, <1>13, Zenon DEF Tick, Row
    <2>2. \A s \in Slot : runs'[s].phase = runs[s].phase /\ runs'[s].job = runs[s].job
      BY <1>0, <1>13, Zenon DEF Tick, Goroutine
    <2>3. okRuns' = okRuns
      BY <1>13 DEF Tick
    <2> QED BY <2>1, <2>2, <2>3, HiddenStep
  <1>14. CASE Caller
    BY <1>1, <1>2, <1>14 DEF Caller, WQ!Next
  <1> QED
    BY <1>4, <1>5, <1>6, <1>7, <1>8, <1>9, <1>10, <1>11, <1>12, <1>13, <1>14
    DEF Next, Goroutines, WQ!Next

\* No job is there at first and no goroutine.
LEMMA RefinementInit == Init => WQ!Init
  <1> SUFFICES ASSUME Init PROVE WQ!Init
    OBVIOUS
  <1>1. \A j \in Job : /\ StatusNames[jobs[j].state] = "absent"
                       /\ RunsOf(j) = {}
                       /\ (okRuns[j] > 0) = FALSE
    BY Names DEF Init, NoRow, NoRun, RunsOf, Active
  <1> QED BY <1>1 DEF WQ!Init

\* When every handler obeys its context, the queue keeps the promises of
\* WorkQueue, through any number of crashes, lost claims and lost statements:
\* one worker per job, no job taken from a worker that is on it, done only after
\* a success, done and failed for good.
THEOREM QueueImplementsWorkQueue ==
  ASSUME Kind \subseteq Prompt
  PROVE  Spec => ImplementsWorkQueue
  <1>1. Init => RefInv
    BY RunInvInit, ReasonInit DEF RefInv
  <1>2. RefInv /\ [Next]_vars => RefInv'
    BY RunInvStep, ReasonStep DEF RefInv
  <1>3. RefInv /\ [Next]_vars => [WQ!Next]_WQ!wvars
    BY RefinementStep
  <1> QED BY <1>1, <1>2, <1>3, RefinementInit, PTL DEF Spec, ImplementsWorkQueue, WQ!Spec
=============================================================================
