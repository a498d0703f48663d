---------------------------- MODULE JobQueueProofs ----------------------------
(***************************************************************************)
(* Proofs about the job queue, for every number of jobs, goroutines and    *)
(* faults and for every choice of timeouts that the lease outlives.        *)
(***************************************************************************)
EXTENDS JobQueue, TLAPS

(* Types. *)

\* The row before its insert and the idle goroutine have their types.
LEMMA DefaultsType == NoRow \in Row /\ NoRun \in Goroutine
  <1>1. (CHOOSE k \in Kind : TRUE) \in Kind
    BY SetsAssumption
  <1>2. (CHOOSE j \in Job : TRUE) \in Job
    BY SetsAssumption
  <1> QED
    BY <1>1, <1>2, SetsAssumption, NumbersAssumption
    DEF NoRow, NoRun, Row, Goroutine, States, Phases, Delays,
        Leases

\* Any of the three columns the statements write may take any of its values.
LEMMA RowUpdate ==
  ASSUME NEW r \in Row, NEW st \in States, NEW a \in Delays, NEW l \in Leases
  PROVE  [r EXCEPT !.state = st, !.runAfter = a, !.lease = l] \in Row
  BY DEF Row

\* computeBackoff stays within the delays a row can hold, capped or not.
LEMMA BackoffType == \A a : computeBackoff(a) \in Delays
  <1> TAKE a
  <1> DEFINE d == BaseBackoff * 2^(a - 1)
  <1>1. CASE d \in 0..MaxBackoff
    <2> HIDE DEF d
    <2>1. d \in Delays
      BY <1>1, NumbersAssumption DEF Delays
    <2>2. computeBackoff(a) = d
      BY <1>1 DEF computeBackoff, d
    <2> QED BY <2>1, <2>2
  <1>2. CASE d \notin 0..MaxBackoff
    BY <1>2, NumbersAssumption DEF computeBackoff, Delays
  <1> QED BY <1>1, <1>2

\* Every statement and every step of a goroutine keeps the types.
LEMMA TypeStep == TypeOK /\ [Next]_vars => TypeOK'
  <1> SUFFICES ASSUME TypeOK, [Next]_vars PROVE TypeOK'
    OBVIOUS
  <1> USE DefaultsType, NumbersAssumption, SetsAssumption
  <1>1. ASSUME NEW j \in Job, NEW k \in Kind, NEW key \in Key \cup {NoKey},
               Enqueue(j, k, key)
        PROVE  TypeOK'
    BY <1>1 DEF Enqueue, TypeOK, Row, States
  <1>2. ASSUME NEW J \in SUBSET Job, NEW k \in Kind, EnqueueBatch(J, k)
        PROVE  TypeOK'
    BY <1>2 DEF EnqueueBatch, TypeOK, Row, States
  <1>3. ASSUME NEW s \in Slot, NEW j \in Job, Claim(s, j)
        PROVE  TypeOK'
    BY <1>3 DEF Claim, Claimed, Due, TypeOK, Row, States, Goroutine, Phases
  <1>4. ASSUME NEW j \in Job, ClaimLost(j)
        PROVE  TypeOK'
    BY <1>4 DEF ClaimLost, Claimed, Due, Fault, TypeOK, Row, States
  <1>5. ASSUME NEW s \in Slot, Goroutines(s)
        PROVE  TypeOK'
    <2>1. runs[s] \in Goroutine /\ runs[s].job \in Job /\ runs[s].seen \in Nat
      BY DEF TypeOK, Goroutine
    <2>2. jobs[runs[s].job] \in Row /\ jobs[runs[s].job].attempts \in Nat
      BY <2>1 DEF TypeOK, Row
    <2>3. ASSUME NEW p \in Phases, NEW t \in Nat, Goto(s, p, t)
          PROVE  runs' \in [Slot -> Goroutine]
      BY <2>1, <2>3 DEF Goto, TypeOK, Goroutine
    <2>4. CASE StartJob(s)
      BY <2>4, <2>3 DEF StartJob, TypeOK, Phases
    <2>5. CASE HandlerOk(s)
      BY <2>5, <2>3, <2>1 DEF HandlerOk, TypeOK, Phases
    <2>6. CASE HandlerErr(s)
      BY <2>6, <2>3 DEF HandlerErr, TypeOK, Phases
    <2>7. CASE FailRead(s)
      BY <2>7, <2>1, <2>2 DEF FailRead, TypeOK, Goroutine, Phases
    <2>8. CASE Requeue(s)
      <3>1. [jobs[runs[s].job] EXCEPT
               !.state = "queued", !.runAfter = computeBackoff(runs[s].seen),
               !.lease = NoLease] \in Row
        <4>1. "queued" \in States /\ NoLease \in Leases
          BY DEF States, Leases
        <4> QED BY <2>2, <4>1, BackoffType, RowUpdate
      <3> QED
        BY <2>8, <2>1, <3>1 DEF Requeue, EndRun, TypeOK
    <2>9. CASE MarkFailed(s)
      BY <2>9, <2>1, <2>2 DEF MarkFailed, EndRun, TypeOK, Row, States
    <2>10. CASE MarkDone(s)
      BY <2>10, <2>1, <2>2 DEF MarkDone, EndRun, TypeOK, Row, States
    <2> QED
      BY <1>5, <2>4, <2>5, <2>6, <2>7, <2>8, <2>9, <2>10 DEF Goroutines
  <1>9. ASSUME NEW s \in Slot, StatementError(s)
        PROVE  TypeOK'
    BY <1>9 DEF StatementError, Fault, EndRun, TypeOK
  <1>10. CASE Sweep
    <2>1. 0 \in Delays /\ NoLease \in Leases /\ "queued" \in States
      BY DEF Delays, Leases, States
    <2>2. ASSUME NEW j \in Job PROVE jobs'[j] \in Row
      <3>1. jobs[j] \in Row
        BY DEF TypeOK
      <3>2. CASE Expired(j)
        BY <1>10, <2>1, <3>1, <3>2, RowUpdate DEF Sweep
      <3>3. CASE ~Expired(j)
        BY <1>10, <3>1, <3>3 DEF Sweep
      <3> QED BY <3>2, <3>3
    <2>3. jobs' = [j \in Job |-> jobs'[j]]
      BY <1>10, Zenon DEF Sweep
    <2>4. jobs' \in [Job -> Row]
      BY <2>2, <2>3
    <2> QED BY <1>10, <2>4 DEF Sweep, TypeOK
  <1>11. CASE Close \/ Exit \/ Crash \/ Restart
    BY <1>11 DEF Close, Exit, Crash, Restart, Fault, TypeOK
  <1>12. CASE Tick
    <2>2. ASSUME NEW j \in Job PROVE jobs'[j] \in Row
      <3>1. jobs[j] \in Row /\ jobs[j].runAfter \in Delays
              /\ jobs[j].lease \in Leases
        BY DEF TypeOK, Row
      <3>2. Less(jobs[j].runAfter, -MaxLag) \in Delays
        BY <3>1 DEF Less, Delays
      <3>3. jobs[j].lease # NoLease => Less(jobs[j].lease, -1) \in Leases
        BY <3>1 DEF Less, Leases
      <3> DEFINE a == IF jobs[j].state = "queued"
                      THEN Less(jobs[j].runAfter, -MaxLag) ELSE jobs[j].runAfter
                 l == IF jobs[j].state = "running" /\ jobs[j].lease # NoLease
                      THEN Less(jobs[j].lease, -1) ELSE jobs[j].lease
      <3>4. jobs'[j] = [jobs[j] EXCEPT !.runAfter = a, !.lease = l]
        BY <1>12 DEF Tick
      <3>5. a \in Delays /\ l \in Leases
        BY <3>1, <3>2, <3>3
      <3> HIDE DEF a, l
      <3> QED BY <3>1, <3>4, <3>5 DEF Row
    <2>3. ASSUME NEW s \in Slot PROVE runs'[s] \in Goroutine
      <3>1. runs[s] \in Goroutine /\ Less(runs[s].left, 0) \in Nat
        BY DEF TypeOK, Goroutine, Less
      <3>2. runs'[s] = [runs[s] EXCEPT !.left = Less(runs[s].left, 0)]
        BY <1>12 DEF Tick
      <3> QED BY <3>1, <3>2 DEF Goroutine
    <2>4. jobs' = [j \in Job |-> jobs'[j]] /\ runs' = [s \in Slot |-> runs'[s]]
      BY <1>12, Zenon DEF Tick
    <2>5. jobs' \in [Job -> Row] /\ runs' \in [Slot -> Goroutine]
      BY <2>2, <2>3, <2>4
    <2> QED BY <1>12, <2>5 DEF Tick, TypeOK
  <1>13. CASE UNCHANGED vars
    BY <1>13 DEF vars, TypeOK
  <1> QED
    BY <1>1, <1>2, <1>3, <1>4, <1>5, <1>9, <1>10, <1>11, <1>12, <1>13
    DEF Next, Caller

\* The rows and goroutines of the model keep their types: timers stay within
\* their ranges and attempts never goes negative.
THEOREM TypeCorrect == Spec => []TypeOK
  <1>1. Init => TypeOK
    BY DefaultsType, NumbersAssumption DEF Init, TypeOK
  <1> QED BY <1>1, TypeStep, PTL DEF Spec

-----------------------------------------------------------------------------
(***************************************************************************)
(* One goroutine per job.  SingleRunner is not inductive: nothing in it    *)
(* stops sweep from requeueing a row that is being executed.  LeaseCoversRun*)
(* does, and it holds because a claim sets the lease to at least the sum   *)
(* of the timeouts and Tick takes from both sides alike.                   *)
(***************************************************************************)
Covered(s) ==
    runs[s].phase # "idle" =>
        LET j == runs[s].job
        IN  /\ jobs[j].state # "absent"
            /\ jobs[j].kind \in Prompt =>
                 /\ jobs[j].state = "running"
                 /\ jobs[j].lease # NoLease
                 /\ jobs[j].lease >= runs[s].left + Remaining(runs[s].phase)

Alone(s, t) ==
    /\ runs[s].phase # "idle"
    /\ runs[t].phase # "idle"
    /\ runs[s].job = runs[t].job
    /\ jobs[runs[s].job].kind \in Prompt
    => s = t

RunInv ==
    /\ TypeOK
    /\ \A s \in Slot : Covered(s)
    /\ \A s, t \in Slot : Alone(s, t)

\* The inductive invariant implies what the runs check.
LEMMA RunInvImplies == RunInv => SingleRunner /\ LeaseCoversRun
  BY DEF RunInv, Covered, Alone, SingleRunner, LeaseCoversRun, Active

\* No goroutine is alive at first.
LEMMA RunInvInit == Init => RunInv
  <1> SUFFICES ASSUME Init PROVE RunInv
    OBVIOUS
  <1>1. TypeOK
    BY DefaultsType, NumbersAssumption DEF Init, TypeOK
  <1>2. \A s \in Slot : runs[s].phase = "idle"
    BY DEF Init, NoRun
  <1> QED BY <1>1, <1>2 DEF RunInv, Covered, Alone

\* What a phase may still take is a number of ticks.
LEMMA RemainingType == \A p \in Phases : Remaining(p) \in Nat
  BY NumbersAssumption DEF Remaining, Phases

\* A step inside goroutine s that spends no more time than it had.
LEMMA Advance ==
  ASSUME RunInv, TypeOK', NEW s \in Slot,
         jobs' = jobs,
         \A u \in Slot \ {s} : runs'[u] = runs[u],
         runs[s].phase # "idle",
         runs'[s].job = runs[s].job,
         runs'[s].left + Remaining(runs'[s].phase)
            <= runs[s].left + Remaining(runs[s].phase)
  PROVE  (\A u \in Slot : Covered(u)') /\ (\A u, v \in Slot : Alone(u, v)')
  <1>1. ASSUME NEW u \in Slot PROVE Covered(u)'
    <2>1. CASE u # s
      BY <2>1 DEF RunInv, Covered
    <2>2. CASE u = s
      <3>1. /\ runs[s].left + Remaining(runs[s].phase) \in Int
            /\ runs'[s].left + Remaining(runs'[s].phase) \in Int
        BY RemainingType DEF RunInv, TypeOK, Goroutine
      <3>2. /\ runs[s].job \in Job
            /\ jobs[runs[s].job].lease \in Int \cup {NoLease}
        BY DEF RunInv, TypeOK, Goroutine, Row, Leases
      <3>3. Covered(s)
        BY DEF RunInv
      <3> QED BY <2>2, <3>1, <3>2, <3>3 DEF Covered
    <2> QED BY <2>1, <2>2
  <1>2. ASSUME NEW u \in Slot, NEW v \in Slot PROVE Alone(u, v)'
    BY DEF RunInv, Alone
  <1> QED BY <1>1, <1>2

\* Goroutine s ends.  Its row may change, no other row does.
LEMMA Finish ==
  ASSUME RunInv, TypeOK', NEW s \in Slot,
         runs[s].phase # "idle",
         runs'[s].phase = "idle",
         \A u \in Slot \ {s} : runs'[u] = runs[u],
         \A j \in Job : j # runs[s].job => jobs'[j] = jobs[j],
         jobs'[runs[s].job].kind = jobs[runs[s].job].kind,
         jobs'[runs[s].job].state # "absent"
  PROVE  (\A u \in Slot : Covered(u)') /\ (\A u, v \in Slot : Alone(u, v)')
  <1>1. ASSUME NEW u \in Slot PROVE Covered(u)'
    <2>1. CASE u = s
      BY <2>1 DEF Covered
    <2>2. CASE u # s /\ runs[u].job # runs[s].job
      BY <2>2 DEF RunInv, Covered, TypeOK, Goroutine
    <2>3. CASE u # s /\ runs[u].job = runs[s].job
      BY <2>3 DEF RunInv, Covered, Alone
    <2> QED BY <2>1, <2>2, <2>3
  <1>2. ASSUME NEW u \in Slot, NEW v \in Slot PROVE Alone(u, v)'
    BY DEF RunInv, Alone, TypeOK, Goroutine
  <1> QED BY <1>1, <1>2

\* The goroutines stay as they are, and so does every row a live one of them
\* works on.
LEMMA Elsewhere ==
  ASSUME RunInv, runs' = runs,
         \A s \in Slot : runs[s].phase # "idle" =>
            /\ jobs'[runs[s].job].kind = jobs[runs[s].job].kind
            /\ jobs'[runs[s].job].state # "absent"
            /\ jobs[runs[s].job].kind \in Prompt
                 => jobs'[runs[s].job] = jobs[runs[s].job]
  PROVE  (\A u \in Slot : Covered(u)') /\ (\A u, v \in Slot : Alone(u, v)')
  BY DEF RunInv, Covered, Alone

\* Claims, the statements of runJob, the sweep, shutdown, crashes and the clock
\* keep one goroutine per prompt job, under a lease that covers it.
LEMMA RunInvStep == RunInv /\ [Next]_vars => RunInv'
  <1> SUFFICES ASSUME RunInv, [Next]_vars PROVE RunInv'
    OBVIOUS
  <1> DEFINE Goal == /\ \A u \in Slot : Covered(u)'
                     /\ \A u, v \in Slot : Alone(u, v)'
  <1>0. TypeOK /\ TypeOK'
    BY TypeStep DEF RunInv
  <1> SUFFICES Goal
    BY <1>0 DEF RunInv
  <1>t. ASSUME NEW u \in Slot
        PROVE  /\ runs[u] \in Goroutine /\ runs[u].job \in Job
               /\ runs[u].left \in Nat /\ jobs[runs[u].job] \in Row
    BY <1>0 DEF TypeOK, Goroutine
  <1>1. ASSUME NEW j \in Job, NEW k \in Kind, NEW key \in Key \cup {NoKey},
               Enqueue(j, k, key)
        PROVE  Goal
    <2>1. ASSUME NEW s \in Slot, runs[s].phase # "idle"
          PROVE  jobs'[runs[s].job] = jobs[runs[s].job]
      BY <1>0, <1>1, <1>t, <2>1 DEF Enqueue, RunInv, Covered, TypeOK
    <2> QED BY <1>1, <2>1, Elsewhere DEF Enqueue, RunInv, Covered
  <1>2. ASSUME NEW J \in SUBSET Job, NEW k \in Kind, EnqueueBatch(J, k)
        PROVE  Goal
    <2>1. ASSUME NEW s \in Slot, runs[s].phase # "idle"
          PROVE  jobs'[runs[s].job] = jobs[runs[s].job]
      BY <1>0, <1>2, <1>t, <2>1 DEF EnqueueBatch, RunInv, Covered, TypeOK
    <2> QED BY <1>2, <2>1, Elsewhere DEF EnqueueBatch, RunInv, Covered
  <1>c. ASSUME NEW j \in Job, Claimed(j)
        PROVE  /\ jobs'[j].kind = jobs[j].kind /\ jobs'[j].state = "running"
               /\ jobs'[j].lease = Lease
               /\ \A i \in Job \ {j} : jobs'[i] = jobs[i]
               /\ \A u \in Slot : /\ runs[u].phase # "idle"
                                  /\ jobs[j].kind \in Prompt
                                  => runs[u].job # j
    BY <1>c, <1>0 DEF Claimed, Due, TypeOK, Row, RunInv, Covered
  <1>3. ASSUME NEW s \in Slot, NEW j \in Job, Claim(s, j)
        PROVE  Goal
    <2> USE <1>3 DEF Claim
    <2>1. /\ runs'[s].phase = "claimed" /\ runs'[s].job = j
          /\ runs'[s].left = SpawnDelay
          /\ \A u \in Slot \ {s} : runs'[u] = runs[u]
      BY <1>0 DEF TypeOK, Goroutine
    <2>2. ASSUME NEW u \in Slot PROVE Covered(u)'
      <3>1. CASE u = s
        BY <2>1, <3>1, <1>c, NumbersAssumption, SetsAssumption, LeaseAssumption
        DEF Covered, Remaining
      <3>2. CASE u # s /\ runs[u].job # j
        BY <2>1, <3>2, <1>c, <1>t DEF RunInv, Covered
      <3>3. CASE u # s /\ runs[u].job = j
        BY <2>1, <3>3, <1>c DEF Covered
      <3> QED BY <3>1, <3>2, <3>3
    <2>3. ASSUME NEW u \in Slot, NEW v \in Slot PROVE Alone(u, v)'
      <3>1. CASE u # s /\ v # s
        BY <2>1, <3>1, <1>c, <1>t DEF RunInv, Alone
      <3>2. CASE u = s \/ v = s
        BY <2>1, <3>2, <1>c, <1>t DEF Alone
      <3> QED BY <3>1, <3>2
    <2> QED BY <2>2, <2>3
  <1>4. ASSUME NEW j \in Job, ClaimLost(j)
        PROVE  Goal
    <2>1. ASSUME NEW s \in Slot, runs[s].phase # "idle"
          PROVE  /\ jobs'[runs[s].job].kind = jobs[runs[s].job].kind
                 /\ jobs'[runs[s].job].state # "absent"
                 /\ jobs[runs[s].job].kind \in Prompt
                      => jobs'[runs[s].job] = jobs[runs[s].job]
      BY <1>4, <1>c, <1>t, <2>1 DEF ClaimLost, RunInv, Covered
    <2> QED BY <1>4, <2>1, Elsewhere DEF ClaimLost
  <1>5. ASSUME NEW s \in Slot, StartJob(s) \/ HandlerOk(s) \/ HandlerErr(s)
        PROVE  Goal
    <2>1. ASSUME NEW p \in Phases, NEW t \in Nat, Goto(s, p, t)
          PROVE  /\ runs'[s].phase = p /\ runs'[s].left = t
                 /\ runs'[s].job = runs[s].job
                 /\ \A u \in Slot \ {s} : runs'[u] = runs[u]
      BY <1>0, <2>1 DEF Goto, TypeOK, Goroutine
    <2>2. /\ \A u \in Slot \ {s} : runs'[u] = runs[u]
          /\ runs[s].phase # "idle" /\ runs'[s].job = runs[s].job /\ jobs' = jobs
          /\ runs'[s].left + Remaining(runs'[s].phase)
               <= runs[s].left + Remaining(runs[s].phase)
      BY <1>5, <1>t, <2>1, NumbersAssumption
      DEF StartJob, HandlerOk, HandlerErr, Phases, Remaining
    <2> QED BY <1>0, <2>2, Advance
  <1>6. ASSUME NEW s \in Slot, FailRead(s)
        PROVE  Goal
    <2>1. /\ \A u \in Slot \ {s} : runs'[u] = runs[u]
          /\ runs[s].phase = "failing" /\ runs'[s].job = runs[s].job
          /\ jobs' = jobs /\ runs'[s].left = runs[s].left
          /\ runs'[s].phase \in {"rejecting", "requeueing"}
      BY <1>0, <1>6 DEF FailRead, TypeOK, Goroutine
    <2>2. runs'[s].left + Remaining(runs'[s].phase)
            <= runs[s].left + Remaining(runs[s].phase)
      BY <1>t, <2>1 DEF Remaining
    <2> QED BY <1>0, <2>1, <2>2, Advance
  <1>7. ASSUME NEW s \in Slot,
               Requeue(s) \/ MarkFailed(s) \/ MarkDone(s) \/ StatementError(s)
        PROVE  Goal
    <2>1. /\ \A u \in Slot \ {s} : runs'[u] = runs[u]
          /\ runs[s].phase # "idle" /\ runs'[s].phase = "idle"
      BY <1>0, <1>7 DEF Requeue, MarkFailed, MarkDone, StatementError, EndRun,
                        NoRun, TypeOK, Goroutine
    <2>2. /\ \A j \in Job : j # runs[s].job => jobs'[j] = jobs[j]
          /\ jobs'[runs[s].job].kind = jobs[runs[s].job].kind
          /\ jobs'[runs[s].job].state # "absent"
      BY <1>0, <1>7, <1>t, <2>1
      DEF Requeue, MarkFailed, MarkDone, StatementError, TypeOK, Row, RunInv,
          Covered
    <2> QED BY <1>0, <2>1, <2>2, Finish
  <1>8. CASE Sweep
    <2>1. ASSUME NEW s \in Slot, runs[s].phase # "idle"
          PROVE  /\ jobs'[runs[s].job].kind = jobs[runs[s].job].kind
                 /\ jobs'[runs[s].job].state # "absent"
                 /\ jobs[runs[s].job].kind \in Prompt
                      => jobs'[runs[s].job] = jobs[runs[s].job]
      <3>1. Remaining(runs[s].phase) \in Nat
        BY <1>t, RemainingType DEF Goroutine
      <3>2. jobs[runs[s].job].kind \in Prompt => ~Expired(runs[s].job)
        BY <1>t, <2>1, <3>1 DEF RunInv, Covered, Expired, Row, Leases
      <3> QED BY <1>8, <1>t, <2>1, <3>2 DEF Sweep, Row, RunInv, Covered
    <2> QED BY <1>8, <2>1, Elsewhere DEF Sweep
  <1>9. CASE Exit \/ Crash
    BY <1>9 DEF Exit, Crash, NoRun, Covered, Alone
  <1>10. CASE Close \/ Restart \/ UNCHANGED vars
    BY <1>10 DEF Close, Restart, vars, RunInv, Covered, Alone
  <1>11. CASE Tick
    <2>1. ASSUME NEW u \in Slot
          PROVE  /\ runs'[u].phase = runs[u].phase /\ runs'[u].job = runs[u].job
                 /\ runs'[u].left = Less(runs[u].left, 0)
                 /\ jobs'[runs[u].job].kind = jobs[runs[u].job].kind
                 /\ jobs'[runs[u].job].state = jobs[runs[u].job].state
      BY <1>11, <1>t DEF Tick, Goroutine, Row
    <2>2. ASSUME NEW u \in Slot PROVE Covered(u)'
      <3>1. Remaining(runs[u].phase) \in Nat
        BY <1>t, RemainingType DEF Goroutine
      <3>2. SUFFICES ASSUME runs[u].phase # "idle",
                            jobs[runs[u].job].kind \in Prompt
                     PROVE  /\ jobs'[runs[u].job].lease # NoLease
                            /\ jobs'[runs[u].job].lease
                                 >= runs'[u].left + Remaining(runs[u].phase)
        BY <2>1 DEF Covered, RunInv
      <3>3. /\ jobs[runs[u].job].state = "running"
            /\ jobs[runs[u].job].lease \in -1..Lease
            /\ jobs[runs[u].job].lease >= runs[u].left + Remaining(runs[u].phase)
        BY <1>t, <3>2 DEF RunInv, Covered, Row, Leases
      <3>4. runs[u].left > 0
        BY <1>11, <3>2 DEF Tick, Bounded
      <3>5. jobs'[runs[u].job].lease = Less(jobs[runs[u].job].lease, -1)
        <4>1. jobs[runs[u].job].lease # NoLease
          BY <3>2 DEF RunInv, Covered
        <4> QED BY <1>11, <1>t, <3>3, <4>1 DEF Tick, Row
      <3> QED
        BY <1>t, <2>1, <3>1, <3>3, <3>4, <3>5, NumbersAssumption, SetsAssumption
        DEF Less
    <2>3. ASSUME NEW u \in Slot, NEW v \in Slot PROVE Alone(u, v)'
      BY <2>1 DEF RunInv, Alone
    <2> QED BY <2>2, <2>3
  <1> QED
    BY <1>1, <1>2, <1>3, <1>4, <1>5, <1>6, <1>7, <1>8, <1>9, <1>10, <1>11
    DEF Next, Caller, Goroutines

\* A job whose handler obeys its context is never executed by two goroutines
\* at once, for any number of jobs, goroutines, crashes, lost claims and
\* failed statements, as long as the lease is no shorter than the timeouts.
THEOREM OneRunnerPerJob == Spec => []SingleRunner
  BY RunInvInit, RunInvStep, RunInvImplies, PTL DEF Spec

\* The lease of a row outlasts every goroutine at work on it.
THEOREM LeaseOutlivesRun == Spec => []LeaseCoversRun
  BY RunInvInit, RunInvStep, RunInvImplies, PTL DEF Spec

\* A goroutine that can still write is at work on a running row, so a step
\* that writes a done or failed row of such a kind does not exist.
LEMMA SettledStep == RunInv /\ [Next]_vars => KeepsSettled
  <1> SUFFICES ASSUME RunInv, [Next]_vars, NEW j \in Job,
                      jobs[j].state \in Settled, jobs[j].kind \in Prompt
               PROVE  jobs'[j].state = jobs[j].state
    BY DEF KeepsSettled
  <1>0. TypeOK /\ jobs[j] \in Row
    BY DEF RunInv, TypeOK
  <1>1. ASSUME NEW s \in Slot, runs[s].phase # "idle"
        PROVE  runs[s].job # j
    BY <1>1 DEF RunInv, Covered, Settled
  <1>2. ASSUME NEW i \in Job, NEW k \in Kind, NEW key \in Key \cup {NoKey},
               Enqueue(i, k, key)
        PROVE  jobs'[j].state = jobs[j].state
    BY <1>0, <1>2 DEF Enqueue, TypeOK, Settled
  <1>3. ASSUME NEW J \in SUBSET Job, NEW k \in Kind, EnqueueBatch(J, k)
        PROVE  jobs'[j].state = jobs[j].state
    BY <1>0, <1>3 DEF EnqueueBatch, TypeOK, Settled
  <1>4. ASSUME NEW i \in Job, Claimed(i)
        PROVE  jobs'[j].state = jobs[j].state
    BY <1>0, <1>4 DEF Claimed, Due, TypeOK, Settled
  <1>5. ASSUME NEW s \in Slot, Requeue(s) \/ MarkFailed(s) \/ MarkDone(s)
        PROVE  jobs'[j].state = jobs[j].state
    BY <1>0, <1>1, <1>5 DEF Requeue, MarkFailed, MarkDone, TypeOK
  <1>6. CASE Sweep
    BY <1>6, <1>0 DEF Sweep, Expired, Settled
  <1>7. CASE Tick
    BY <1>7, <1>0 DEF Tick, Row
  <1>8. ASSUME jobs' = jobs
        PROVE  jobs'[j].state = jobs[j].state
    BY <1>8
  <1> QED
    BY <1>2, <1>3, <1>4, <1>5, <1>6, <1>7, <1>8
    DEF Next, Caller, Goroutines, Claim, ClaimLost, StartJob, HandlerOk,
        HandlerErr, FailRead, StatementError, Close, Exit, Crash, Restart, vars

\* done and failed are final for a job whose handler obeys its context: no
\* late update by id and no sweep moves such a row again.
THEOREM SettledForGood == Spec => SettledIsFinal
  BY RunInvInit, RunInvStep, SettledStep, PTL DEF Spec, SettledIsFinal

-----------------------------------------------------------------------------
(***************************************************************************)
(* What done and failed mean, for every kind.  A goroutine carries the     *)
(* reason for the state it is about to write: a nil return it has seen, an *)
(* attempts column it has read (which only grows), or a missing handler.   *)
(***************************************************************************)
Reason(s) ==
    LET j == runs[s].job
    IN  /\ runs[s].phase # "idle" => jobs[j].state # "absent"
        /\ runs[s].phase = "finishing" => okRuns[j] > 0
        /\ runs[s].phase = "rejecting" =>
             jobs[j].attempts >= MaxAttempts \/ jobs[j].kind \notin Handled

ReasonInv ==
    /\ TypeOK
    /\ \A s \in Slot : Reason(s)
    /\ DoneWasHandled
    /\ FailedSpentBudget

\* No goroutine is finishing or rejecting, and no row is settled, at first.
LEMMA ReasonInit == Init => ReasonInv
  <1> SUFFICES ASSUME Init PROVE ReasonInv
    OBVIOUS
  <1>1. TypeOK
    BY DefaultsType, NumbersAssumption DEF Init, TypeOK
  <1> QED
    BY <1>1 DEF Init, NoRow, NoRun, ReasonInv, Reason, DoneWasHandled,
                FailedSpentBudget

\* A row, once inserted, keeps its kind and stays; its attempts and the count
\* of its successful runs only grow.
LEMMA RowsGrow ==
  ASSUME TypeOK, [Next]_vars, NEW j \in Job
  PROVE  /\ jobs[j].state # "absent" =>
              /\ jobs'[j].state # "absent"
              /\ jobs'[j].kind = jobs[j].kind
              /\ jobs'[j].attempts >= jobs[j].attempts
         /\ okRuns'[j] >= okRuns[j]
  <1> DEFINE Grows == /\ jobs[j].state # "absent" =>
                           /\ jobs'[j].state # "absent"
                           /\ jobs'[j].kind = jobs[j].kind
                           /\ jobs'[j].attempts >= jobs[j].attempts
                      /\ okRuns'[j] >= okRuns[j]
  <1>0. jobs[j] \in Row /\ jobs[j].attempts \in Nat /\ okRuns[j] \in Nat
    BY DEF TypeOK, Row
  <1>1. ASSUME jobs' = jobs, okRuns' = okRuns PROVE Grows
    BY <1>0, <1>1
  <1>2. ASSUME NEW i \in Job, NEW k \in Kind, NEW key \in Key \cup {NoKey},
               Enqueue(i, k, key)
        PROVE  Grows
    BY <1>0, <1>2 DEF Enqueue, TypeOK
  <1>3. ASSUME NEW J \in SUBSET Job, NEW k \in Kind, EnqueueBatch(J, k)
        PROVE  Grows
    BY <1>0, <1>3 DEF EnqueueBatch
  <1>4. ASSUME NEW i \in Job, Claimed(i), okRuns' = okRuns
        PROVE  Grows
    BY <1>0, <1>4 DEF Claimed, TypeOK, Row
  <1>5. ASSUME NEW s \in Slot, HandlerOk(s)
        PROVE  Grows
    BY <1>0, <1>5 DEF HandlerOk, TypeOK
  <1>6. ASSUME NEW s \in Slot, Requeue(s) \/ MarkFailed(s) \/ MarkDone(s)
        PROVE  Grows
    BY <1>0, <1>6 DEF Requeue, MarkFailed, MarkDone, EndRun, TypeOK, Row
  <1>7. CASE Sweep
    <2>1. /\ jobs'[j].kind = jobs[j].kind /\ jobs'[j].attempts = jobs[j].attempts
          /\ jobs[j].state # "absent" => jobs'[j].state # "absent"
      <3>1. CASE Expired(j)
        BY <1>0, <1>7, <3>1 DEF Sweep, Row
      <3>2. CASE ~Expired(j)
        BY <1>7, <3>2 DEF Sweep
      <3> QED BY <3>1, <3>2
    <2>2. okRuns' = okRuns
      BY <1>7 DEF Sweep
    <2> QED BY <1>0, <2>1, <2>2
  <1>8. CASE Tick
    <2>1. /\ jobs'[j].kind = jobs[j].kind /\ jobs'[j].attempts = jobs[j].attempts
          /\ jobs'[j].state = jobs[j].state
      BY <1>0, <1>8, Zenon DEF Tick, Row
    <2>2. okRuns' = okRuns
      BY <1>8 DEF Tick
    <2> QED BY <1>0, <2>1, <2>2
  <1> QED
    BY <1>1, <1>2, <1>3, <1>4, <1>5, <1>6, <1>7, <1>8
    DEF Next, Caller, Goroutines, Claim, ClaimLost, StartJob, HandlerErr,
        FailRead, StatementError, EndRun, Close, Exit, Crash, Restart, vars

\* Whoever writes done has had a nil from a handler, and whoever writes failed
\* has seen the budget spent or has no handler: each step keeps that reason.
LEMMA ReasonStep == ReasonInv /\ [Next]_vars => ReasonInv'
  <1> SUFFICES ASSUME ReasonInv, [Next]_vars PROVE ReasonInv'
    OBVIOUS
  <1>0. TypeOK /\ TypeOK'
    BY TypeStep DEF ReasonInv
  <1>t. ASSUME NEW s \in Slot
        PROVE  /\ runs[s] \in Goroutine /\ runs'[s] \in Goroutine
               /\ runs[s].job \in Job /\ jobs[runs[s].job] \in Row
               /\ jobs[runs[s].job].attempts \in Nat
               /\ jobs'[runs[s].job].attempts \in Nat
               /\ okRuns[runs[s].job] \in Nat /\ okRuns'[runs[s].job] \in Nat
    BY <1>0 DEF TypeOK, Goroutine, Row
  \* A goroutine that stays in its phase, or moves to one that needs no
  \* reason, keeps the invariant.
  <1>1. ASSUME NEW s \in Slot, runs'[s].job = runs[s].job,
               runs[s].phase # "idle",
               runs'[s].phase \notin {"finishing", "rejecting"}
                 \/ runs'[s].phase = runs[s].phase
        PROVE  Reason(s)'
    <2>1. Reason(s)
      BY DEF ReasonInv
    <2>2. /\ jobs'[runs[s].job].state # "absent"
          /\ jobs'[runs[s].job].kind = jobs[runs[s].job].kind
          /\ jobs'[runs[s].job].attempts >= jobs[runs[s].job].attempts
          /\ okRuns'[runs[s].job] >= okRuns[runs[s].job]
      BY <1>0, <1>1, <1>t, <2>1, RowsGrow DEF Reason
    <2> QED BY <1>1, <1>t, <2>1, <2>2, NumbersAssumption DEF Reason
  <1>2. ASSUME NEW s \in Slot, runs'[s].phase = "idle" PROVE Reason(s)'
    BY <1>2 DEF Reason
  <1>3. ASSUME NEW s \in Slot PROVE Reason(s)'
    <2>1. CASE runs'[s] = runs[s]
      BY <1>1, <1>2, <2>1
    <2>2. ASSUME NEW u \in Slot, NEW j \in Job, Claim(u, j) PROVE Reason(s)'
      <3>1. CASE s # u
        BY <1>0, <2>1, <2>2, <3>1 DEF Claim, TypeOK
      <3>2. CASE s = u
        BY <1>0, <2>2, <3>2 DEF Claim, Claimed, TypeOK, Row, Reason
      <3> QED BY <3>1, <3>2
    <2>3. ASSUME NEW u \in Slot, StartJob(u) PROVE Reason(s)'
      <3>1. CASE s # u
        BY <1>0, <2>1, <2>3, <3>1 DEF StartJob, Goto, TypeOK
      <3>2. CASE s = u
        <4>1. /\ runs[s].phase = "claimed" /\ runs'[s].job = runs[s].job
              /\ jobs' = jobs
              /\ runs'[s].phase \in {"failing", "rejecting", "handling"}
              /\ runs'[s].phase = "rejecting"
                   => jobs[runs[s].job].kind \notin Handled
          BY <1>0, <2>3, <3>2 DEF StartJob, Goto, TypeOK, Goroutine
        <4>2. Reason(s)
          BY DEF ReasonInv
        <4> QED BY <4>1, <4>2 DEF Reason
      <3> QED BY <3>1, <3>2
    <2>4. ASSUME NEW u \in Slot, HandlerOk(u) \/ HandlerErr(u) PROVE Reason(s)'
      <3>1. CASE s # u
        BY <1>0, <2>1, <2>4, <3>1 DEF HandlerOk, HandlerErr, Goto, TypeOK
      <3>2. CASE s = u
        <4>1. /\ runs[s].phase = "handling" /\ runs'[s].job = runs[s].job
              /\ jobs' = jobs
              /\ \/ runs'[s].phase = "failing"
                 \/ /\ runs'[s].phase = "finishing"
                    /\ okRuns'[runs[s].job] = okRuns[runs[s].job] + 1
          BY <1>0, <2>4, <3>2 DEF HandlerOk, HandlerErr, Goto, TypeOK, Goroutine
        <4>2. Reason(s)
          BY DEF ReasonInv
        <4> QED BY <1>t, <4>1, <4>2 DEF Reason
      <3> QED BY <3>1, <3>2
    <2>5. ASSUME NEW u \in Slot, FailRead(u) PROVE Reason(s)'
      <3>1. CASE s # u
        BY <1>0, <2>1, <2>5, <3>1 DEF FailRead, TypeOK
      <3>2. CASE s = u
        <4>1. /\ runs[s].phase = "failing" /\ runs'[s].job = runs[s].job
              /\ jobs' = jobs
              /\ runs'[s].phase = IF jobs[runs[s].job].attempts >= MaxAttempts
                                  THEN "rejecting" ELSE "requeueing"
          BY <1>0, <2>5, <3>2 DEF FailRead, TypeOK, Goroutine
        <4>2. Reason(s)
          BY DEF ReasonInv
        <4> QED BY <4>1, <4>2 DEF Reason
      <3> QED BY <3>1, <3>2
    <2>6. ASSUME NEW u \in Slot, EndRun(u) PROVE Reason(s)'
      BY <1>0, <1>2, <2>1, <2>6 DEF EndRun, NoRun, TypeOK
    <2>7. CASE Exit \/ Crash
      BY <1>2, <2>7 DEF Exit, Crash, NoRun
    <2>8. CASE Tick
      <3>1. runs'[s].phase = runs[s].phase /\ runs'[s].job = runs[s].job
        <4>1. runs[s] \in Goroutine
          BY <1>t
        <4> QED BY <4>1, <2>8, Zenon DEF Tick, Goroutine
      <3> QED BY <1>1, <1>2, <3>1
    <2> QED
      BY <2>1, <2>2, <2>3, <2>4, <2>5, <2>6, <2>7, <2>8
      DEF Next, Caller, Goroutines, Enqueue, EnqueueBatch, ClaimLost, Requeue,
          MarkFailed, MarkDone, StatementError, Sweep, Close, Restart, vars
  <1>4. ASSUME NEW j \in Job
        PROVE  /\ jobs'[j].state = "done" => okRuns'[j] > 0
               /\ jobs'[j].state = "failed" =>
                    jobs'[j].attempts >= MaxAttempts \/ jobs'[j].kind \notin Handled
    <2>0. /\ jobs[j] \in Row /\ jobs'[j] \in Row
          /\ jobs[j].attempts \in Nat /\ jobs'[j].attempts \in Nat
          /\ okRuns[j] \in Nat /\ okRuns'[j] \in Nat
      BY <1>0 DEF TypeOK, Row
    <2>1. CASE jobs'[j].state = jobs[j].state
      BY <1>0, <2>0, <2>1, RowsGrow, NumbersAssumption
      DEF ReasonInv, DoneWasHandled, FailedSpentBudget
    <2>2. CASE jobs'[j].state \in {"absent", "queued", "running"}
      BY <2>2
    <2>3. ASSUME NEW s \in Slot, MarkFailed(s) \/ MarkDone(s),
                 jobs'[j].state # jobs[j].state
          PROVE  /\ runs[s].job = j /\ okRuns' = okRuns
                 /\ jobs'[j].attempts = jobs[j].attempts
                 /\ jobs'[j].kind = jobs[j].kind
                 /\ \/ jobs'[j].state = "failed" /\ runs[s].phase = "rejecting"
                    \/ jobs'[j].state = "done" /\ runs[s].phase = "finishing"
      BY <1>0, <2>0, <2>3 DEF MarkFailed, MarkDone, EndRun, TypeOK, Row
    <2>4. ASSUME NEW s \in Slot, MarkFailed(s) \/ MarkDone(s)
          PROVE  /\ jobs'[j].state = "done" => okRuns'[j] > 0
                 /\ jobs'[j].state = "failed" =>
                      \/ jobs'[j].attempts >= MaxAttempts
                      \/ jobs'[j].kind \notin Handled
      <3>1. Reason(s)
        BY DEF ReasonInv
      <3> QED BY <2>1, <2>3, <2>4, <3>1 DEF Reason
    <2>5. ASSUME NEW i \in Job,
                 \/ Claimed(i)
                 \/ \E k \in Kind, key \in Key \cup {NoKey} : Enqueue(i, k, key)
          PROVE  \/ jobs'[j].state = jobs[j].state
                 \/ jobs'[j].state \in {"absent", "queued", "running"}
      <3>1. CASE Claimed(i)
        BY <1>0, <3>1 DEF Claimed, TypeOK, Row
      <3>2. CASE \E k \in Kind, key \in Key \cup {NoKey} : Enqueue(i, k, key)
        BY <1>0, <3>2 DEF Enqueue, NoRow, TypeOK, Row
      <3> QED BY <2>5, <3>1, <3>2
    <2>6. ASSUME NEW J \in SUBSET Job, NEW k \in Kind, EnqueueBatch(J, k)
          PROVE  \/ jobs'[j].state = jobs[j].state
                 \/ jobs'[j].state \in {"absent", "queued", "running"}
      BY <2>6 DEF EnqueueBatch, NoRow
    <2>7. ASSUME NEW s \in Slot, Requeue(s)
          PROVE  \/ jobs'[j].state = jobs[j].state
                 \/ jobs'[j].state \in {"absent", "queued", "running"}
      BY <1>0, <2>7 DEF Requeue, TypeOK, Row
    <2>8. CASE Sweep \/ Tick
      <3>1. \/ jobs'[j].state = jobs[j].state
            \/ jobs'[j].state \in {"absent", "queued", "running"}
        <4>1. CASE Sweep /\ Expired(j)
          BY <2>0, <4>1 DEF Sweep, Row
        <4>2. CASE Sweep /\ ~Expired(j)
          BY <4>2 DEF Sweep
        <4>3. CASE Tick
          BY <2>0, <4>3, Zenon DEF Tick, Row
        <4> QED BY <2>8, <4>1, <4>2, <4>3
      <3> QED BY <2>1, <2>2, <3>1
    <2> QED
      BY <2>1, <2>2, <2>4, <2>5, <2>6, <2>7, <2>8
      DEF Next, Caller, Goroutines, Claim, ClaimLost, StartJob, HandlerOk,
          HandlerErr, FailRead, StatementError, Close, Exit, Crash, Restart, vars
  <1> QED BY <1>0, <1>3, <1>4 DEF ReasonInv, DoneWasHandled, FailedSpentBudget

\* A row reads done only if a handler returned nil for it, for every kind, and
\* however late the update was written.
THEOREM DoneMeansHandled == Spec => []DoneWasHandled
  BY ReasonInit, ReasonStep, PTL DEF Spec, ReasonInv

\* fail gives up a job only once its attempts are spent, although it decides
\* on a value read in an earlier statement; any other failed row has no handler.
THEOREM FailedMeansSpent == Spec => []FailedSpentBudget
  BY ReasonInit, ReasonStep, PTL DEF Spec, ReasonInv

-----------------------------------------------------------------------------
(***************************************************************************)
(* What faults cost.  Paid counts the faults whose run is lost already: a  *)
(* shutdown counts once the process has ended.  A row that nobody is on    *)
(* has an attempt left, and every nil return but that of the present run   *)
(* has been followed by a fault.                                           *)
(***************************************************************************)
Paid == MaxFaults - faults - (IF proc = "closing" THEN 1 ELSE 0)

OnIt(j, phase) == \E s \in Slot : runs[s].phase = phase /\ runs[s].job = j

Idle(j) == \A s \in Slot : runs[s].phase # "idle" => runs[s].job # j

Tally(j) ==
    /\ jobs[j].state = "absent" => started[j] = 0 /\ okRuns[j] = 0
    /\ jobs[j].kind \in Prompt =>
         /\ started[j] <= jobs[j].attempts
         /\ jobs[j].attempts <= started[j] + (MaxFaults - faults)
         /\ jobs[j].attempts <= MaxAttempts + (MaxFaults - faults)
         /\ jobs[j].state \notin Settled => jobs[j].attempts <= MaxAttempts + Paid
         /\ jobs[j].state \notin Settled /\ Idle(j)
              => jobs[j].attempts < MaxAttempts + Paid
         /\ OnIt(j, "requeueing") => jobs[j].attempts < MaxAttempts
         /\ okRuns[j] <= Paid + 1
         /\ okRuns[j] <= Paid \/ jobs[j].state = "done" \/ OnIt(j, "finishing")

TallyInv ==
    /\ RunInv
    /\ Paid >= 0
    /\ \A j \in Job : Tally(j)

\* The invariant says what the run checks.
LEMMA TallyImplies == TallyInv => OnlyFaultsRepeatWork
  <1> SUFFICES ASSUME TallyInv, NEW j \in Job, jobs[j].kind \in Prompt
               PROVE  /\ jobs[j].attempts <= MaxAttempts + (MaxFaults - faults)
                      /\ jobs[j].attempts
                           \in started[j]..(started[j] + (MaxFaults - faults))
                      /\ okRuns[j] <= 1 + (MaxFaults - faults)
    BY DEF OnlyFaultsRepeatWork
  <1>1. /\ jobs[j].attempts \in Nat /\ started[j] \in Nat /\ okRuns[j] \in Nat
        /\ faults \in 0..MaxFaults
    BY DEF TallyInv, RunInv, TypeOK, Row
  <1> QED BY <1>1, NumbersAssumption DEF TallyInv, Tally, Paid

\* Nothing has been claimed at first.
LEMMA TallyInit == Init => TallyInv
  <1> SUFFICES ASSUME Init PROVE TallyInv
    OBVIOUS
  <1>1. Paid = 0
    BY NumbersAssumption DEF Init, Paid
  <1>2. ASSUME NEW j \in Job PROVE Tally(j)
    <2>1. /\ jobs[j].state = "absent" /\ jobs[j].attempts = 0
          /\ started[j] = 0 /\ okRuns[j] = 0 /\ faults = MaxFaults
          /\ ~OnIt(j, "requeueing")
      BY DEF Init, NoRow, NoRun, OnIt
    <2> QED BY <1>1, <2>1, NumbersAssumption DEF Tally
  <1> QED BY <1>1, <1>2, RunInvInit DEF TallyInv

\* The types that every step below needs.
LEMMA TallyTypes ==
  ASSUME TallyInv, NEW j \in Job
  PROVE  /\ jobs[j] \in Row /\ jobs[j].attempts \in Nat
         /\ started[j] \in Nat /\ okRuns[j] \in Nat
         /\ faults \in 0..MaxFaults /\ Paid \in Nat /\ Paid <= MaxFaults - faults
         /\ Tally(j)
  BY NumbersAssumption DEF TallyInv, RunInv, TypeOK, Row, Paid

\* A job whose row, counts and goroutines stay keeps its tally whatever faults
\* are paid elsewhere.
LEMMA TallyKept ==
  ASSUME TallyInv, NEW j \in Job,
         faults' \in Int, faults' <= faults, Paid' \in Int, Paid' >= Paid,
         /\ jobs'[j].state = jobs[j].state /\ jobs'[j].kind = jobs[j].kind
         /\ jobs'[j].attempts = jobs[j].attempts,
         okRuns'[j] = okRuns[j], started'[j] = started[j],
         Idle(j)' => Idle(j),
         OnIt(j, "requeueing")' => OnIt(j, "requeueing"),
         OnIt(j, "finishing") => OnIt(j, "finishing")'
  PROVE  Tally(j)'
  BY TallyTypes, NumbersAssumption DEF Tally

\* A step of goroutine s touches no job but the one it was on and the one it
\* is on.
LEMMA RunsElsewhere ==
  ASSUME NEW j \in Job, NEW s \in Slot,
         \A u \in Slot \ {s} : runs'[u] = runs[u],
         runs[s].phase = "idle" \/ runs[s].job # j,
         runs'[s].phase = "idle" \/ runs'[s].job # j
  PROVE  /\ Idle(j)' <=> Idle(j)
         /\ OnIt(j, "requeueing")' <=> OnIt(j, "requeueing")
         /\ OnIt(j, "finishing")' <=> OnIt(j, "finishing")
  BY DEF Idle, OnIt

\* A goroutine of a prompt job is the only one on it.
LEMMA OnlyOne ==
  ASSUME TallyInv, NEW s \in Slot, runs[s].phase # "idle",
         jobs[runs[s].job].kind \in Prompt
  PROVE  /\ runs[s].job \in Job /\ jobs[runs[s].job].state = "running"
         /\ ~Idle(runs[s].job)
         /\ \A p \in Phases \ {"idle"} : OnIt(runs[s].job, p) <=> runs[s].phase = p
  BY DEF TallyInv, RunInv, TypeOK, Goroutine, Covered, Alone, Idle, OnIt

\* Faults are paid, and never paid back.
LEMMA PaidGrows ==
  ASSUME TallyInv, [Next]_vars
  PROVE  /\ faults' \in 0..MaxFaults /\ faults' <= faults
         /\ Paid' \in Nat /\ Paid' >= Paid
  <1>0. faults \in 0..MaxFaults /\ Paid \in Nat /\ MaxFaults \in Nat
    BY NumbersAssumption DEF TallyInv, RunInv, TypeOK, Paid
  <1>1. CASE faults' = faults /\ proc' = proc
    BY <1>0, <1>1 DEF Paid
  <1>2. CASE Fault /\ proc' = proc
    BY <1>0, <1>2 DEF Paid, Fault
  <1>3. CASE Close
    BY <1>0, <1>3 DEF Paid, Fault, Close
  <1>4. CASE Exit
    BY <1>0, <1>4 DEF Paid, Exit
  <1>5. CASE Crash
    BY <1>0, <1>5 DEF Paid, Fault, Crash
  <1>6. CASE Restart
    BY <1>0, <1>6 DEF Paid, Restart
  <1> QED
    BY <1>1, <1>2, <1>3, <1>4, <1>5, <1>6
    DEF Next, Caller, Goroutines, Enqueue, EnqueueBatch, Claim, ClaimLost, StartJob,
        HandlerOk, HandlerErr, FailRead, Requeue, MarkFailed, MarkDone, EndRun,
        StatementError, Sweep, Tick, vars

\* What a step of the only goroutine of a prompt job leaves: its new phase.
LEMMA RunsHere ==
  ASSUME TallyInv, NEW j \in Job, NEW s \in Slot, runs[s].phase # "idle",
         runs[s].job = j, jobs[j].kind \in Prompt,
         \A u \in Slot \ {s} : runs'[u] = runs[u]
  PROVE  /\ runs'[s].phase = "idle" =>
              Idle(j)' /\ ~OnIt(j, "requeueing")' /\ ~OnIt(j, "finishing")'
         /\ runs'[s].phase # "idle" /\ runs'[s].job = j =>
              /\ ~Idle(j)'
              /\ OnIt(j, "requeueing")' <=> runs'[s].phase = "requeueing"
              /\ OnIt(j, "finishing")' <=> runs'[s].phase = "finishing"
  BY DEF TallyInv, RunInv, Alone, Idle, OnIt

\* Claims spend the attempt a row had left, a run that goes on spends nothing,
\* and whatever is lost or repeated is paid for by a fault.
LEMMA TallyStep == TallyInv /\ [Next]_vars => TallyInv'
  <1> SUFFICES ASSUME TallyInv, [Next]_vars PROVE TallyInv'
    OBVIOUS
  <1>0. RunInv /\ RunInv' /\ TypeOK /\ TypeOK'
    BY RunInvStep DEF TallyInv, RunInv
  <1>p. /\ faults' \in 0..MaxFaults /\ faults' \in Int /\ faults' <= faults
        /\ Paid' \in Nat /\ Paid' \in Int /\ Paid' >= Paid /\ Paid \in Nat
        /\ faults \in 0..MaxFaults
    BY PaidGrows, NumbersAssumption DEF TallyInv, RunInv, TypeOK, Paid
  <1> SUFFICES ASSUME NEW j \in Job PROVE Tally(j)'
    BY <1>0, <1>p DEF TallyInv
  <1>t. /\ jobs[j] \in Row /\ jobs[j].attempts \in Nat /\ started[j] \in Nat
        /\ okRuns[j] \in Nat /\ Paid <= MaxFaults - faults /\ Tally(j)
        /\ MaxFaults \in Nat /\ MaxAttempts \in Nat \ {0}
    BY TallyTypes, NumbersAssumption
  <1>k. ASSUME /\ jobs'[j].state = jobs[j].state /\ jobs'[j].kind = jobs[j].kind
               /\ jobs'[j].attempts = jobs[j].attempts,
               okRuns'[j] = okRuns[j], started'[j] = started[j],
               \A s \in Slot : runs'[s].phase = runs[s].phase /\ runs'[s].job = runs[s].job
        PROVE  Tally(j)'
    <2>1. /\ Idle(j)' <=> Idle(j)
          /\ OnIt(j, "requeueing")' <=> OnIt(j, "requeueing")
          /\ OnIt(j, "finishing")' <=> OnIt(j, "finishing")
      BY <1>k DEF Idle, OnIt
    <2> QED BY <1>k, <1>p, <2>1, TallyKept
  <1>e. ASSUME NEW s \in Slot, jobs'[j] = jobs[j],
               okRuns'[j] = okRuns[j], started'[j] = started[j],
               \A u \in Slot \ {s} : runs'[u] = runs[u],
               runs[s].phase = "idle" \/ runs[s].job # j,
               runs'[s].phase = "idle" \/ runs'[s].job # j
        PROVE  Tally(j)'
    BY <1>e, <1>p, RunsElsewhere, TallyKept
  <1>n. ASSUME jobs[j].state = "absent", jobs'[j].state = "queued",
               jobs'[j].attempts = 0, okRuns' = okRuns, started' = started
        PROVE  Tally(j)'
    <2>1. /\ started'[j] = 0 /\ okRuns'[j] = 0 /\ jobs'[j].attempts = 0
          /\ jobs'[j].state = "queued"
      BY <1>n, <1>t DEF Tally
    <2>2. ASSUME NEW f \in 0..MaxFaults, NEW p \in Nat
          PROVE  /\ 0 <= 0 + (MaxFaults - f) /\ 0 <= MaxAttempts + (MaxFaults - f)
                 /\ 0 <= MaxAttempts + p /\ 0 < MaxAttempts + p /\ 0 < MaxAttempts
                 /\ 0 <= p + 1 /\ 0 <= p
      BY NumbersAssumption
    <2>3. /\ 0 <= 0 + (MaxFaults - faults') /\ 0 <= MaxAttempts + (MaxFaults - faults')
          /\ 0 <= MaxAttempts + Paid' /\ 0 < MaxAttempts + Paid' /\ 0 < MaxAttempts
          /\ 0 <= Paid' + 1 /\ 0 <= Paid'
      BY <1>p, <2>2
    <2> QED BY <2>1, <2>3 DEF Tally
  <1>1. ASSUME NEW i \in Job, NEW k \in Kind, NEW key \in Key \cup {NoKey},
               Enqueue(i, k, key)
        PROVE  Tally(j)'
    <2>1. CASE i = j
      BY <1>0, <1>1, <1>n, <2>1 DEF Enqueue, NoRow, TypeOK
    <2>2. CASE i # j
      BY <1>0, <1>1, <1>k, <2>2 DEF Enqueue, TypeOK
    <2> QED BY <2>1, <2>2
  <1>2. ASSUME NEW J \in SUBSET Job, NEW k \in Kind, EnqueueBatch(J, k)
        PROVE  Tally(j)'
    <2>1. CASE j \in J
      BY <1>2, <1>n, <2>1 DEF EnqueueBatch, NoRow
    <2>2. CASE j \notin J
      BY <1>2, <1>k, <2>2 DEF EnqueueBatch
    <2> QED BY <2>1, <2>2
  <1>c. ASSUME Claimed(j)
        PROVE  /\ jobs[j].state = "queued" /\ jobs'[j].state = "running"
               /\ jobs'[j].kind = jobs[j].kind
               /\ jobs'[j].attempts = jobs[j].attempts + 1
               /\ jobs[j].kind \in Prompt => Idle(j)
               /\ jobs[j].kind \in Prompt => jobs[j].attempts < MaxAttempts + Paid
               /\ jobs[j].kind \in Prompt => okRuns[j] <= Paid
    <2>1. /\ jobs[j].state = "queued" /\ jobs'[j].state = "running"
          /\ jobs'[j].kind = jobs[j].kind
          /\ jobs'[j].attempts = jobs[j].attempts + 1
      BY <1>0, <1>t, <1>c DEF Claimed, Due, TypeOK, Row
    <2>2. jobs[j].kind \in Prompt => Idle(j)
      BY <1>0, <2>1 DEF RunInv, Covered, Idle
    <2> QED BY <1>t, <2>1, <2>2 DEF Tally, Settled, Idle, OnIt
  <1>3. ASSUME NEW s \in Slot, NEW i \in Job, Claim(s, i)
        PROVE  Tally(j)'
    <2>1. /\ runs'[s].phase = "claimed" /\ runs'[s].job = i
          /\ \A u \in Slot \ {s} : runs'[u] = runs[u]
      BY <1>0, <1>3 DEF Claim, TypeOK
    <2>2. CASE i = j
      <3>1. /\ started'[j] = started[j] + 1 /\ okRuns'[j] = okRuns[j]
            /\ faults' = faults /\ Paid' = Paid
        BY <1>0, <1>3, <2>2 DEF Claim, TypeOK, Paid
      <3>2. jobs[j].kind \in Prompt =>
              ~Idle(j)' /\ ~OnIt(j, "requeueing")' /\ ~OnIt(j, "finishing")'
        BY <1>3, <1>c, <2>1, <2>2 DEF Claim, Idle, OnIt
      <3> QED BY <1>3, <1>c, <1>t, <1>p, <2>2, <3>1, <3>2 DEF Claim, Tally, Settled
    <2>3. CASE i # j
      <3>1. jobs'[j] = jobs[j] /\ started'[j] = started[j] /\ okRuns'[j] = okRuns[j]
        BY <1>0, <1>3, <2>3 DEF Claim, Claimed, TypeOK
      <3> QED BY <1>3, <1>e, <2>1, <2>3, <3>1 DEF Claim
    <2> QED BY <2>2, <2>3
  <1>4. ASSUME NEW i \in Job, ClaimLost(i)
        PROVE  Tally(j)'
    <2>1. CASE i = j
      <3>1. /\ started' = started /\ okRuns' = okRuns /\ faults' = faults - 1
            /\ Paid' = Paid + 1
        BY <1>0, <1>4, <1>t DEF ClaimLost, Claimed, Fault, Paid, TypeOK
      <3>2. jobs[j].kind \in Prompt => ~OnIt(j, "requeueing")'
        BY <1>4, <1>c, <2>1 DEF ClaimLost, Idle, OnIt
      <3> QED BY <1>4, <1>c, <1>t, <1>p, <2>1, <3>1, <3>2
              DEF ClaimLost, Tally, Settled
    <2>2. CASE i # j
      BY <1>0, <1>4, <1>k, <2>2 DEF ClaimLost, Claimed, TypeOK
    <2> QED BY <2>1, <2>2
  \* A goroutine that is on j: what its step leaves of the tally.
  <1>h. ASSUME NEW s \in Slot, runs[s].phase # "idle", runs[s].job = j
        PROVE  /\ jobs[j].state # "absent"
               /\ jobs[j].kind \in Prompt =>
                    /\ jobs[j].state = "running"
                    /\ jobs[j].attempts <= MaxAttempts + Paid
                    /\ runs[s].phase = "requeueing" => jobs[j].attempts < MaxAttempts
                    /\ runs[s].phase # "finishing" => okRuns[j] <= Paid
    BY <1>h, <1>0, <1>t, OnlyOne DEF Tally, RunInv, Covered, Settled, OnIt, Phases
  <1>5. ASSUME NEW s \in Slot, StartJob(s) \/ HandlerErr(s) \/ FailRead(s)
        PROVE  Tally(j)'
    <2>1. /\ jobs' = jobs /\ okRuns' = okRuns /\ started' = started
          /\ faults' = faults /\ Paid' = Paid
          /\ runs[s].phase \in {"claimed", "handling", "failing"}
          /\ runs'[s].phase \notin {"idle", "finishing"} /\ runs'[s].job = runs[s].job
          /\ \A u \in Slot \ {s} : runs'[u] = runs[u]
          /\ runs'[s].phase = "requeueing" => jobs[runs[s].job].attempts < MaxAttempts
      <3>1. CASE StartJob(s) \/ HandlerErr(s)
        BY <1>0, <3>1 DEF StartJob, HandlerErr, Goto, TypeOK, Goroutine, Paid
      <3>2. CASE FailRead(s)
        <4>1. jobs[runs[s].job].attempts \in Nat
          BY <1>0 DEF TypeOK, Goroutine, Row
        <4> QED
          BY <1>0, <1>t, <3>2, <4>1 DEF FailRead, TypeOK, Goroutine, Paid
      <3> QED BY <1>5, <3>1, <3>2
    <2>2. CASE runs[s].job # j
      BY <1>e, <2>1, <2>2
    <2>3. CASE runs[s].job = j
      <3>1. jobs[j].kind \in Prompt =>
              ~Idle(j)' /\ (OnIt(j, "requeueing")' => jobs[j].attempts < MaxAttempts)
        BY <2>1, <2>3, RunsHere
      <3> QED BY <1>h, <1>t, <1>p, <2>1, <2>3, <3>1 DEF Tally, Settled
    <2> QED BY <2>2, <2>3
  <1>6. ASSUME NEW s \in Slot, HandlerOk(s)
        PROVE  Tally(j)'
    <2>1. /\ jobs' = jobs /\ started' = started /\ faults' = faults /\ Paid' = Paid
          /\ runs[s].phase = "handling"
          /\ runs'[s].phase = "finishing" /\ runs'[s].job = runs[s].job
          /\ \A u \in Slot \ {s} : runs'[u] = runs[u]
          /\ okRuns'[j] = IF runs[s].job = j THEN okRuns[j] + 1 ELSE okRuns[j]
      BY <1>0, <1>6 DEF HandlerOk, Goto, TypeOK, Goroutine, Paid
    <2>2. CASE runs[s].job # j
      BY <1>e, <2>1, <2>2
    <2>3. CASE runs[s].job = j
      <3>1. jobs[j].kind \in Prompt =>
              ~Idle(j)' /\ ~OnIt(j, "requeueing")' /\ OnIt(j, "finishing")'
        BY <2>1, <2>3, RunsHere
      <3> QED BY <1>h, <1>t, <1>p, <2>1, <2>3, <3>1 DEF Tally, Settled
    <2> QED BY <2>2, <2>3
  <1>7. ASSUME NEW s \in Slot,
               Requeue(s) \/ MarkFailed(s) \/ MarkDone(s) \/ StatementError(s)
        PROVE  Tally(j)'
    <2>1. /\ runs[s].phase # "idle" /\ runs'[s].phase = "idle"
          /\ \A u \in Slot \ {s} : runs'[u] = runs[u]
          /\ okRuns' = okRuns /\ started' = started
      BY <1>0, <1>7 DEF Requeue, MarkFailed, MarkDone, StatementError, EndRun, NoRun,
                        TypeOK
    <2>2. CASE runs[s].job # j
      <3>1. jobs'[j] = jobs[j]
        BY <1>0, <1>7, <2>2 DEF Requeue, MarkFailed, MarkDone, StatementError, TypeOK
      <3> QED BY <1>e, <2>1, <2>2, <3>1
    <2>3. CASE runs[s].job = j
      <3>1. jobs[j].kind \in Prompt => ~OnIt(j, "requeueing")' /\ ~OnIt(j, "finishing")'
        BY <2>1, <2>3, RunsHere
      <3>2. CASE Requeue(s) \/ MarkFailed(s) \/ MarkDone(s)
        <4>1. /\ jobs'[j].attempts = jobs[j].attempts /\ jobs'[j].kind = jobs[j].kind
              /\ faults' = faults /\ Paid' = Paid
              /\ \/ jobs'[j].state = "queued" /\ runs[s].phase = "requeueing"
                 \/ jobs'[j].state = "failed" /\ runs[s].phase = "rejecting"
                 \/ jobs'[j].state = "done" /\ runs[s].phase = "finishing"
          BY <1>0, <1>t, <2>3, <3>2
          DEF Requeue, MarkFailed, MarkDone, EndRun, TypeOK, Row, Paid
        <4> QED BY <1>h, <1>t, <1>p, <2>1, <2>3, <3>1, <4>1 DEF Tally, Settled
      <3>3. CASE StatementError(s)
        <4>1. jobs' = jobs /\ faults' = faults - 1 /\ Paid' = Paid + 1
          BY <1>t, <1>p, <3>3 DEF StatementError, EndRun, Fault, Paid
        <4> QED BY <1>h, <1>t, <1>p, <2>1, <2>3, <3>1, <4>1 DEF Tally, Settled
      <3> QED BY <1>7, <3>2, <3>3
    <2> QED BY <2>2, <2>3
  <1>8. CASE Sweep
    <2>1. /\ jobs'[j].kind = jobs[j].kind /\ jobs'[j].attempts = jobs[j].attempts
          /\ \/ jobs'[j].state = jobs[j].state
             \/ jobs[j].state = "running" /\ jobs'[j].state = "queued"
      <3>1. CASE Expired(j)
        BY <1>8, <1>t, <3>1 DEF Sweep, Expired, Row
      <3>2. CASE ~Expired(j)
        BY <1>8, <3>2 DEF Sweep
      <3> QED BY <3>1, <3>2
    <2>2. /\ okRuns' = okRuns /\ started' = started /\ faults' = faults
          /\ runs' = runs /\ Paid' = Paid
      BY <1>8 DEF Sweep, Paid
    <2>3. /\ Idle(j)' <=> Idle(j)
          /\ OnIt(j, "requeueing")' <=> OnIt(j, "requeueing")
          /\ OnIt(j, "finishing")' <=> OnIt(j, "finishing")
      BY <2>2 DEF Idle, OnIt
    <2> QED BY <1>t, <2>1, <2>2, <2>3 DEF Tally, Settled
  <1>9. CASE Close \/ Restart \/ UNCHANGED vars
    BY <1>k, <1>9 DEF Close, Restart, vars
  <1>10. CASE Exit \/ Crash
    <2>1. /\ jobs' = jobs /\ okRuns' = okRuns /\ started' = started
          /\ Paid' = Paid + 1 /\ ~OnIt(j, "requeueing")'
      BY <1>10, <1>t, <1>p DEF Exit, Crash, Fault, Paid, NoRun, OnIt
    <2> QED BY <1>t, <1>p, <2>1 DEF Tally, Settled
  <1>11. CASE Tick
    <2>1. /\ jobs'[j].state = jobs[j].state /\ jobs'[j].kind = jobs[j].kind
          /\ jobs'[j].attempts = jobs[j].attempts
      BY <1>t, <1>11, Zenon DEF Tick, Row
    <2>2. \A s \in Slot : runs'[s].phase = runs[s].phase /\ runs'[s].job = runs[s].job
      <3>1. \A s \in Slot : runs[s] \in Goroutine
        BY <1>0 DEF TypeOK
      <3> QED BY <3>1, <1>11, Zenon DEF Tick, Goroutine
    <2> QED BY <1>k, <1>11, <2>1, <2>2 DEF Tick
  <1> QED
    BY <1>1, <1>2, <1>3, <1>4, <1>5, <1>6, <1>7, <1>8, <1>9, <1>10, <1>11
    DEF Next, Caller, Goroutines

\* Without faults the budget is exact, attempts counts the runs and no success
\* is repeated; each crash, shutdown, lost claim or failed statement pays for one
\* more of each, whatever the number of jobs and goroutines.
THEOREM FaultsPayForRepeats == Spec => []OnlyFaultsRepeatWork
  BY TallyInit, TallyStep, TallyImplies, PTL DEF Spec

-----------------------------------------------------------------------------
(***************************************************************************)
(* For the components whose handlers run in the queue: what the queue's    *)
(* own steps do to the runs, and the only way for a row to become done.    *)
(***************************************************************************)

\* The steps in which no handler starts or returns and no process ends.
QueueOnly ==
    \/ \E s \in Slot, j \in Job : Claim(s, j)
    \/ \E j \in Job : ClaimLost(j)
    \/ \E s \in Slot : \/ FailRead(s) \/ Requeue(s) \/ MarkFailed(s)
                       \/ MarkDone(s) \/ StatementError(s)
    \/ Sweep
    \/ Close
    \/ Restart
    \/ Tick

\* They leave every handler where it is, start none, and let none return nil.
LEMMA QueueOnlyRuns ==
  ASSUME TypeOK, QueueOnly, NEW s \in Slot
  PROVE  /\ runs'[s].phase = "handling" <=> runs[s].phase = "handling"
         /\ runs'[s].phase = "finishing" => runs[s].phase = "finishing"
         /\ runs'[s].phase \in {"handling", "finishing"} => runs'[s].job = runs[s].job
  <1> DEFINE Stays == /\ runs'[s].phase = "handling" <=> runs[s].phase = "handling"
                      /\ runs'[s].phase = "finishing" => runs[s].phase = "finishing"
                      /\ runs'[s].phase \in {"handling", "finishing"} => runs'[s].job = runs[s].job
  <1>0. runs[s] \in Goroutine
    BY DEF TypeOK
  <1>1. ASSUME runs' = runs PROVE Stays
    BY <1>1
  <1>2. ASSUME NEW u \in Slot, NEW j \in Job, Claim(u, j) PROVE Stays
    BY <1>2 DEF Claim, TypeOK
  <1>3. ASSUME NEW u \in Slot, FailRead(u) PROVE Stays
    <2>1. CASE u # s
      BY <1>3, <2>1 DEF FailRead, TypeOK
    <2>2. CASE u = s
      <3>1. /\ runs'[s].phase \in {"rejecting", "requeueing"}
            /\ runs[s].phase = "failing"
        BY <1>0, <1>3, <2>2 DEF FailRead, TypeOK, Goroutine
      <3> QED BY <3>1
    <2> QED BY <2>1, <2>2
  <1>4. ASSUME NEW u \in Slot, runs' = [runs EXCEPT ![u] = NoRun],
               runs[u].phase # "handling"
        PROVE  Stays
    BY <1>4 DEF NoRun, TypeOK
  <1>5. CASE Tick
    <2>1. runs'[s].phase = runs[s].phase /\ runs'[s].job = runs[s].job
      BY <1>0, <1>5, Zenon DEF Tick, Goroutine
    <2> QED BY <2>1
  <1> QED
    BY <1>1, <1>2, <1>3, <1>4, <1>5
    DEF QueueOnly, ClaimLost, Requeue, MarkFailed, MarkDone, StatementError, EndRun,
        Sweep, Close, Restart

\* They insert no row and change neither the kind nor the key of one.
LEMMA QueueOnlyRows ==
  ASSUME RunInv, QueueOnly, NEW j \in Job
  PROVE  /\ jobs'[j].state = "absent" <=> jobs[j].state = "absent"
         /\ jobs'[j].kind = jobs[j].kind
         /\ jobs'[j].key = jobs[j].key
  <1> DEFINE Stays == /\ jobs'[j].state = "absent" <=> jobs[j].state = "absent"
                      /\ jobs'[j].kind = jobs[j].kind
                      /\ jobs'[j].key = jobs[j].key
  <1>0. jobs[j] \in Row /\ TypeOK
    BY DEF RunInv, TypeOK
  <1>1. ASSUME jobs' = jobs PROVE Stays
    BY <1>1
  <1>2. ASSUME NEW i \in Job, Claimed(i) PROVE Stays
    BY <1>0, <1>2 DEF Claimed, Due, TypeOK, Row
  <1>3. ASSUME NEW u \in Slot, Requeue(u) \/ MarkFailed(u) \/ MarkDone(u) PROVE Stays
    <2>1. jobs[runs[u].job].state # "absent"
      BY <1>3 DEF RunInv, Covered, Requeue, MarkFailed, MarkDone
    <2> QED BY <1>0, <1>3, <2>1 DEF Requeue, MarkFailed, MarkDone, TypeOK, Row
  <1>4. CASE Sweep
    BY <1>0, <1>4 DEF Sweep, Expired, Row
  <1>5. CASE Tick
    BY <1>0, <1>5, Zenon DEF Tick, Row
  <1> QED
    BY <1>1, <1>2, <1>3, <1>4, <1>5
    DEF QueueOnly, Claim, ClaimLost, FailRead, StatementError, Close, Restart

\* A row is done because of a run whose handler has returned nil.
LEMMA DoneBy ==
  ASSUME TypeOK, [Next]_vars, NEW j \in Job, jobs'[j].state = "done"
  PROVE  \/ jobs[j].state = "done"
         \/ \E s \in Slot : runs[s].phase = "finishing" /\ runs[s].job = j
  <1>0. jobs[j] \in Row
    BY DEF TypeOK
  <1>1. CASE jobs' = jobs
    BY <1>1
  <1>2. ASSUME NEW i \in Job, NEW k \in Kind, NEW key \in Key \cup {NoKey},
               Enqueue(i, k, key)
        PROVE  jobs[j].state = "done"
    BY <1>2 DEF Enqueue, NoRow, TypeOK
  <1>3. ASSUME NEW J \in SUBSET Job, NEW k \in Kind, EnqueueBatch(J, k)
        PROVE  jobs[j].state = "done"
    BY <1>3 DEF EnqueueBatch, NoRow, TypeOK
  <1>4. ASSUME NEW i \in Job, Claimed(i)
        PROVE  jobs[j].state = "done"
    BY <1>0, <1>4 DEF Claimed, TypeOK, Row
  <1>5. ASSUME NEW u \in Slot, Requeue(u) \/ MarkFailed(u)
        PROVE  jobs[j].state = "done"
    BY <1>0, <1>5 DEF Requeue, MarkFailed, TypeOK, Row
  <1>6. ASSUME NEW u \in Slot, MarkDone(u)
        PROVE  jobs[j].state = "done" \/ (runs[u].phase = "finishing" /\ runs[u].job = j)
    BY <1>0, <1>6 DEF MarkDone, TypeOK, Row
  <1>7. CASE Sweep
    BY <1>0, <1>7 DEF Sweep, Row
  <1>8. CASE Tick
    <2>1. jobs'[j].state = jobs[j].state
      BY <1>0, <1>8, Zenon DEF Tick, Row
    <2> QED BY <2>1
  <1> QED
    BY <1>1, <1>2, <1>3, <1>4, <1>5, <1>6, <1>7, <1>8
    DEF Next, Caller, Goroutines, Claim, ClaimLost, StartJob, HandlerOk, HandlerErr,
        FailRead, StatementError, Close, Exit, Crash, Restart, vars

\* What a goroutine does when its handler is called or returns, if every kind has
\* one and every payload is good.
LEMMA HandlerMoves ==
  ASSUME TypeOK, Kind = Handled, BadPayload = {},
         NEW s \in Slot, StartJob(s) \/ HandlerOk(s) \/ HandlerErr(s)
  PROVE  /\ jobs' = jobs /\ proc' = proc
         /\ runs'[s].job = runs[s].job /\ runs[s].job \in Job
         /\ \A u \in Slot \ {s} : runs'[u] = runs[u]
         /\ StartJob(s) => runs[s].phase = "claimed" /\ runs'[s].phase = "handling"
         /\ HandlerOk(s) => runs[s].phase = "handling" /\ runs'[s].phase = "finishing"
         /\ HandlerErr(s) => runs[s].phase = "handling" /\ runs'[s].phase = "failing"
  <1>0. runs[s] \in Goroutine /\ runs[s].job \in Job
    BY DEF TypeOK, Goroutine
  <1>1. jobs[runs[s].job].kind \in Handled /\ runs[s].job \notin BadPayload
    BY <1>0 DEF TypeOK, Row
  <1>2. /\ jobs' = jobs /\ proc' = proc
        /\ runs'[s].job = runs[s].job
        /\ \A u \in Slot \ {s} : runs'[u] = runs[u]
    BY <1>0 DEF StartJob, HandlerOk, HandlerErr, Goto, TypeOK, Goroutine
  <1>3. StartJob(s) => runs[s].phase = "claimed" /\ runs'[s].phase = "handling"
    BY <1>0, <1>1 DEF StartJob, Goto, TypeOK, Goroutine
  <1>4. HandlerOk(s) => runs[s].phase = "handling" /\ runs'[s].phase = "finishing"
    BY <1>0 DEF HandlerOk, Goto, TypeOK, Goroutine
  <1>5. HandlerErr(s) => runs[s].phase = "handling" /\ runs'[s].phase = "failing"
    BY <1>0 DEF HandlerErr, Goto, TypeOK, Goroutine
  <1> QED BY <1>0, <1>2, <1>3, <1>4, <1>5
=============================================================================
