------------------------------- MODULE JobQueue -------------------------------
(***************************************************************************)
(* The Postgres job queue of internal/jobs: the jobs table, the worker     *)
(* process that claims rows and runs each in a goroutine of its own, and   *)
(* the sweeper that requeues rows whose lease has expired.                 *)
(*                                                                         *)
(* Time is kept in countdown timers that Tick moves together.  A job's     *)
(* runAfter is run_after - now() and its lease is lease_until - now(); a   *)
(* goroutine's left is what remains of the timeout it runs under.          *)
(***************************************************************************)
EXTENDS Integers, FiniteSets

CONSTANTS
    Job,            \* the rows the jobs table may come to hold
    Kind,           \* job kinds
    Key,            \* dedupe keys
    NoKey,          \* the empty dedupe key: no deduplication
    NoLease,        \* lease_until is null
    Handled,        \* kinds with a registered handler
    Prompt,         \* kinds whose handler returns once its context expires
    BadPayload,     \* rows whose payload does not unmarshal to a JobPayload
    Slot,           \* goroutines executing runJob at one time (a bound)
    MaxAttempts,    \* worker.go: MaxAttempts
    Lease,          \* worker.go: leaseDuration
    JobTimeout,     \* worker.go: constJobTimeout
    StateTimeout,   \* worker.go: the 15 s of stateCtx
    SpawnDelay,     \* from the now() of the claim to the start of runJob
    BaseBackoff,    \* worker.go: baseBackoff
    MaxBackoff,     \* worker.go: maxBackoff
    MaxLag,         \* bound: how far past due the order of due rows is kept
    MaxFaults       \* bound: crashes, shutdowns and failed statements

ASSUME SetsAssumption ==
    /\ Handled \subseteq Kind
    /\ Prompt \subseteq Kind
    /\ BadPayload \subseteq Job
    /\ NoKey \notin Key
    /\ NoLease \notin Int
    /\ Job # {}
    /\ Kind # {}

ASSUME NumbersAssumption ==
    /\ MaxAttempts \in Nat \ {0}
    /\ Lease \in Nat
    /\ JobTimeout \in Nat
    /\ StateTimeout \in Nat
    /\ SpawnDelay \in Nat
    /\ BaseBackoff \in Nat
    /\ MaxBackoff \in Nat
    /\ MaxLag \in Nat
    /\ MaxFaults \in Nat

\* The lease outlives a run that keeps to its timeouts: 180 s against
\* 60 s + 15 s in the code.
ASSUME LeaseAssumption == SpawnDelay + JobTimeout + StateTimeout <= Lease

VARIABLES
    jobs,     \* the jobs table
    runs,     \* the goroutines started by worker()
    proc,     \* the process: "up", "closing" (context cancelled) or "down"
    faults,   \* how many more faults may happen
    okRuns,   \* history: handler calls that returned nil, per job
    started   \* history: goroutines started, per job

vars == <<jobs, runs, proc, faults, okRuns, started>>

-----------------------------------------------------------------------------
States == {"absent", "queued", "running", "done", "failed"}

Delays == (-MaxLag)..MaxBackoff

Leases == (-1..Lease) \cup {NoLease}

Row == [state: States, kind: Kind, key: Key \cup {NoKey}, attempts: Nat,
        runAfter: Delays, lease: Leases]

\* claimed:    claim has committed, runJob has not begun
\* handling:   inside handler(jobCtx, payload)
\* failing:    fail() is about to read attempts
\* requeueing: fail() is about to write state = 'queued'
\* rejecting:  markFailed is about to write state = 'failed'
\* finishing:  done is about to write state = 'done'
Phases == {"idle", "claimed", "handling", "failing", "requeueing",
           "rejecting", "finishing"}

Goroutine == [phase: Phases, job: Job, left: Nat, seen: Nat]

Settled == {"done", "failed"}

Active == {s \in Slot : runs[s].phase # "idle"}

RunsOf(j) == {s \in Active : runs[s].job = j}

\* What goroutine s has left of its timeout does not stretch when it expires,
\* except inside a handler that ignores its context.
Bounded(s) ==
    /\ runs[s].phase # "idle"
    /\ \/ runs[s].phase # "handling"
       \/ jobs[runs[s].job].kind \in Prompt

TypeOK ==
    /\ jobs \in [Job -> Row]
    /\ runs \in [Slot -> Goroutine]
    /\ proc \in {"up", "closing", "down"}
    /\ faults \in 0..MaxFaults
    /\ okRuns \in [Job -> Nat]
    /\ started \in [Job -> Nat]

-----------------------------------------------------------------------------
\* Mutant: the cap is forgotten.
computeBackoffUncapped(attempts) == BaseBackoff * 2^(attempts - 1)

computeBackoff(attempts) ==
    LET d == BaseBackoff * 2^(attempts - 1)
    IN  IF d \in 0..MaxBackoff THEN d ELSE MaxBackoff

\* A row not inserted yet, and a slot without a goroutine.
NoRow == [state |-> "absent", kind |-> CHOOSE k \in Kind : TRUE, key |-> NoKey,
          attempts |-> 0, runAfter |-> 0, lease |-> NoLease]

NoRun == [phase |-> "idle", job |-> CHOOSE j \in Job : TRUE,
          left |-> 0, seen |-> 0]

Init ==
    /\ jobs = [j \in Job |-> NoRow]
    /\ runs = [s \in Slot |-> NoRun]
    /\ proc = "up"
    /\ faults = MaxFaults
    /\ okRuns = [j \in Job |-> 0]
    /\ started = [j \in Job |-> 0]

Fault == faults > 0 /\ faults' = faults - 1

-----------------------------------------------------------------------------
(* The callers: a committed transaction carries its job. *)

\* The unique index on (kind, dedupe_key): a conflicting insert is a no-op
\* that returns ErrDuplicate to the caller.
Duplicate(k, key) ==
    /\ key # NoKey
    /\ \E j \in Job : /\ jobs[j].state # "absent"
                      /\ jobs[j].kind = k
                      /\ jobs[j].key = key

Enqueue(j, k, key) ==
    /\ jobs[j].state = "absent"
    /\ ~Duplicate(k, key)
    /\ jobs' = [jobs EXCEPT ![j] = [NoRow EXCEPT !.state = "queued",
                                                 !.kind = k, !.key = key]]
    /\ UNCHANGED <<runs, proc, faults, okRuns, started>>

\* CopyFrom writes all rows of the batch, without dedupe keys.
EnqueueBatch(J, k) ==
    /\ J # {}
    /\ \A j \in J : jobs[j].state = "absent"
    /\ jobs' = [j \in Job |->
                  IF j \in J
                  THEN [NoRow EXCEPT !.state = "queued", !.kind = k]
                  ELSE jobs[j]]
    /\ UNCHANGED <<runs, proc, faults, okRuns, started>>

-----------------------------------------------------------------------------
(* The workers. *)

\* Mutant: the predicate of the partial index, state <> 'done', instead of
\* state = 'queued'.
DueUnlessDone(j) ==
    /\ jobs[j].state \notin {"absent", "done"}
    /\ jobs[j].runAfter <= 0

\* Mutant: failed rows are taken up again.
DueOrFailed(j) ==
    /\ jobs[j].state \in {"queued", "failed"}
    /\ jobs[j].runAfter <= 0

Due(j) == jobs[j].state = "queued" /\ jobs[j].runAfter <= 0

\* Mutant: the lease covers the handler's timeout only.
ClaimedShortLease(j) ==
    /\ proc = "up"
    /\ Due(j)
    /\ \A i \in Job : Due(i) => jobs[j].runAfter <= jobs[i].runAfter
    /\ jobs' = [jobs EXCEPT ![j].state = "running",
                            ![j].attempts = @ + 1,
                            ![j].lease = JobTimeout]

\* Mutant: claim does not set lease_until.
ClaimedNoLease(j) ==
    /\ proc = "up"
    /\ Due(j)
    /\ \A i \in Job : Due(i) => jobs[j].runAfter <= jobs[i].runAfter
    /\ jobs' = [jobs EXCEPT ![j].state = "running", ![j].attempts = @ + 1]

\* The update of claim: the due row with the least run_after.
Claimed(j) ==
    /\ proc = "up"
    /\ Due(j)
    /\ \A i \in Job : Due(i) => jobs[j].runAfter <= jobs[i].runAfter
    /\ jobs' = [jobs EXCEPT ![j].state = "running",
                            ![j].attempts = @ + 1,
                            ![j].lease = Lease]

\* A worker claims a row, leaves it to a goroutine of its own and goes on
\* polling.
Claim(s, j) ==
    /\ runs[s].phase = "idle"
    /\ Claimed(j)
    /\ runs' = [runs EXCEPT ![s] = [phase |-> "claimed", job |-> j,
                                    left |-> SpawnDelay, seen |-> 0]]
    /\ started' = [started EXCEPT ![j] = @ + 1]
    /\ UNCHANGED <<proc, faults, okRuns>>

\* The commit of the claim took effect, but claim returned an error (a lost
\* connection, or the context cancelled meanwhile): no goroutine is started.
ClaimLost(j) ==
    /\ Claimed(j)
    /\ Fault
    /\ UNCHANGED <<runs, proc, okRuns, started>>

\* Goroutine s moves to a phase that runs under the given timeout.
Goto(s, phase, timeout) ==
    runs' = [runs EXCEPT ![s].phase = phase, ![s].left = timeout]

\* The head of runJob: payload, then handler lookup, then the handler's
\* context is made.
StartJob(s) ==
    LET j == runs[s].job
    IN  /\ runs[s].phase = "claimed"
        /\ \/ j \in BadPayload /\ Goto(s, "failing", StateTimeout)
           \/ /\ j \notin BadPayload
              /\ jobs[j].kind \notin Handled
              /\ Goto(s, "rejecting", StateTimeout)
           \/ /\ j \notin BadPayload
              /\ jobs[j].kind \in Handled
              /\ Goto(s, "handling", JobTimeout)
        /\ UNCHANGED <<jobs, proc, faults, okRuns, started>>

\* What a handler does under jobCtx, the context of its call, fails once the
\* job's timeout has passed or the worker's context is cancelled.
ContextLive(s) == runs[s].left > 0 /\ proc = "up"

HandlerOk(s) ==
    /\ runs[s].phase = "handling"
    /\ Goto(s, "finishing", StateTimeout)
    /\ okRuns' = [okRuns EXCEPT ![runs[s].job] = @ + 1]
    /\ UNCHANGED <<jobs, proc, faults, started>>

\* Mutant: the handler's error is dropped.
HandlerErrIgnored(s) ==
    /\ runs[s].phase = "handling"
    /\ Goto(s, "finishing", StateTimeout)
    /\ UNCHANGED <<jobs, proc, faults, okRuns, started>>

HandlerErr(s) ==
    /\ runs[s].phase = "handling"
    /\ Goto(s, "failing", StateTimeout)
    /\ UNCHANGED <<jobs, proc, faults, okRuns, started>>

\* Mutants: the last attempt is denied, or one too many is granted.
FailReadEarly(s) ==
    LET attempts == jobs[runs[s].job].attempts
    IN  /\ runs[s].phase = "failing"
        /\ runs' = [runs EXCEPT
             ![s].phase = IF attempts + 1 >= MaxAttempts THEN "rejecting"
                          ELSE "requeueing",
             ![s].seen = attempts]
        /\ UNCHANGED <<jobs, proc, faults, okRuns, started>>

FailReadLate(s) ==
    LET attempts == jobs[runs[s].job].attempts
    IN  /\ runs[s].phase = "failing"
        /\ runs' = [runs EXCEPT
             ![s].phase = IF attempts > MaxAttempts THEN "rejecting"
                          ELSE "requeueing",
             ![s].seen = attempts]
        /\ UNCHANGED <<jobs, proc, faults, okRuns, started>>

\* fail reads attempts in a statement of its own and decides on that value.
FailRead(s) ==
    LET attempts == jobs[runs[s].job].attempts
    IN  /\ runs[s].phase = "failing"
        /\ runs' = [runs EXCEPT
             ![s].phase = IF attempts >= MaxAttempts THEN "rejecting"
                          ELSE "requeueing",
             ![s].seen = attempts]
        /\ UNCHANGED <<jobs, proc, faults, okRuns, started>>

\* The last statement of a run: an update by id alone, whatever the row's
\* state and lease are by then.  The goroutine ends.
EndRun(s) ==
    /\ runs' = [runs EXCEPT ![s] = NoRun]
    /\ UNCHANGED <<proc, okRuns, started>>

Requeue(s) ==
    /\ runs[s].phase = "requeueing"
    /\ jobs' = [jobs EXCEPT
         ![runs[s].job].state = "queued",
         ![runs[s].job].runAfter = computeBackoff(runs[s].seen),
         ![runs[s].job].lease = NoLease]
    /\ EndRun(s)
    /\ UNCHANGED faults

MarkFailed(s) ==
    /\ runs[s].phase = "rejecting"
    /\ jobs' = [jobs EXCEPT ![runs[s].job].state = "failed"]
    /\ EndRun(s)
    /\ UNCHANGED faults

MarkDone(s) ==
    /\ runs[s].phase = "finishing"
    /\ jobs' = [jobs EXCEPT ![runs[s].job].state = "done"]
    /\ EndRun(s)
    /\ UNCHANGED faults

\* A statement of fail, markFailed or done fails: the error is logged, the
\* row stays as it is and the goroutine ends.
StatementError(s) ==
    /\ runs[s].phase \in {"failing", "requeueing", "rejecting", "finishing"}
    /\ Fault
    /\ EndRun(s)
    /\ UNCHANGED jobs

-----------------------------------------------------------------------------
(* The sweeper, the process and the clock. *)

Expired(j) ==
    /\ jobs[j].state = "running"
    /\ jobs[j].lease # NoLease
    /\ jobs[j].lease < 0

\* Mutant: the sweep gives up jobs whose budget is spent, though their last
\* run was lost and may have succeeded.
SweepGivesUp ==
    /\ proc = "up"
    /\ \E j \in Job : Expired(j)
    /\ jobs' = [j \in Job |->
                  IF Expired(j)
                  THEN [jobs[j] EXCEPT
                          !.state = IF jobs[j].attempts >= MaxAttempts
                                    THEN "failed" ELSE "queued",
                          !.runAfter = 0, !.lease = NoLease]
                  ELSE jobs[j]]
    /\ UNCHANGED <<runs, proc, faults, okRuns, started>>

Sweep ==
    /\ proc = "up"
    /\ \E j \in Job : Expired(j)
    /\ jobs' = [j \in Job |->
                  IF Expired(j)
                  THEN [jobs[j] EXCEPT !.state = "queued", !.runAfter = 0,
                                       !.lease = NoLease]
                  ELSE jobs[j]]
    /\ UNCHANGED <<runs, proc, faults, okRuns, started>>

\* SIGTERM: the context of Run is cancelled.  Claims and sweeps stop; the
\* goroutines go on, and their last statements are detached from the context.
Close ==
    /\ proc = "up"
    /\ Fault
    /\ proc' = "closing"
    /\ UNCHANGED <<jobs, runs, okRuns, started>>

\* The process ends with whatever was running in it: main does not wait for
\* Run to drain.
Exit ==
    /\ proc = "closing"
    /\ proc' = "down"
    /\ runs' = [s \in Slot |-> NoRun]
    /\ UNCHANGED <<jobs, faults, okRuns, started>>

Crash ==
    /\ proc = "up"
    /\ Fault
    /\ proc' = "down"
    /\ runs' = [s \in Slot |-> NoRun]
    /\ UNCHANGED <<jobs, okRuns, started>>

Restart ==
    /\ proc = "down"
    /\ proc' = "up"
    /\ UNCHANGED <<jobs, runs, faults, okRuns, started>>

Less(n, floor) == IF n > floor THEN n - 1 ELSE floor

\* Time passes unless a goroutine is at the end of a timeout it obeys.  A
\* row's timer is kept only in the state in which a statement reads it.
Tick ==
    /\ \A s \in Slot : Bounded(s) => runs[s].left > 0
    /\ jobs' = [j \in Job |->
                  [jobs[j] EXCEPT
                     !.runAfter = IF jobs[j].state = "queued"
                                  THEN Less(@, -MaxLag) ELSE @,
                     !.lease = IF jobs[j].state = "running" /\ @ # NoLease
                               THEN Less(@, -1) ELSE @]]
    /\ runs' = [s \in Slot |-> [runs[s] EXCEPT !.left = Less(@, 0)]]
    /\ UNCHANGED <<proc, faults, okRuns, started>>

Caller ==
    \/ \E j \in Job, k \in Kind, key \in Key \cup {NoKey} : Enqueue(j, k, key)
    \/ \E J \in SUBSET Job, k \in Kind : EnqueueBatch(J, k)

Goroutines(s) ==
    \/ StartJob(s)
    \/ HandlerOk(s)
    \/ HandlerErr(s)
    \/ FailRead(s)
    \/ Requeue(s)
    \/ MarkFailed(s)
    \/ MarkDone(s)

Next ==
    \/ Caller
    \/ \E s \in Slot, j \in Job : Claim(s, j)
    \/ \E j \in Job : ClaimLost(j)
    \/ \E s \in Slot : Goroutines(s)
    \/ \E s \in Slot : StatementError(s)
    \/ Sweep
    \/ Close
    \/ Exit
    \/ Crash
    \/ Restart
    \/ Tick

Spec == Init /\ [][Next]_vars

\* The poll loop, the sweeper's ticker, the supervisor that restarts the
\* process and the clock go on; a goroutine that can take a step takes it.
\* Callers and faults owe nothing.
Fairness ==
    /\ \A j \in Job : WF_vars(\E s \in Slot : Claim(s, j))
    /\ \A s \in Slot : WF_vars(Goroutines(s))
    /\ WF_vars(Sweep)
    /\ WF_vars(Exit)
    /\ WF_vars(Restart)
    /\ WF_vars(Tick)

FairSpec == Spec /\ Fairness

-----------------------------------------------------------------------------
(* Properties. *)

\* A job whose handler obeys its context is never executed by two goroutines
\* at once: claim, the lease and sweep keep the runs of a row disjoint although
\* nothing ties a goroutine to the lease it was started under.
SingleRunner ==
    \A s, t \in Active :
        runs[s].job = runs[t].job /\ jobs[runs[s].job].kind \in Prompt => s = t

\* What a goroutine that obeys its timeouts may still take after its present
\* phase.
Remaining(phase) ==
    CASE phase = "claimed"  -> JobTimeout + StateTimeout
      [] phase = "handling" -> StateTimeout
      [] OTHER              -> 0

\* While such a goroutine is alive its row is running, under a lease that
\* outlasts every timeout the goroutine may still use up.
LeaseCoversRun ==
    \A s \in Active :
        LET j == runs[s].job
        IN  jobs[j].kind \in Prompt =>
              /\ jobs[j].state = "running"
              /\ jobs[j].lease # NoLease
              /\ jobs[j].lease >= runs[s].left + Remaining(runs[s].phase)

\* done and failed are final for such a job: no late update by id of done,
\* markFailed or fail, and no sweep, moves the row again.
KeepsSettled ==
    \A j \in Job : jobs[j].state \in Settled /\ jobs[j].kind \in Prompt
                   => jobs'[j].state = jobs[j].state

SettledIsFinal == [][KeepsSettled]_vars

\* A row reads done only if a handler has returned nil for it, whatever
\* crashed, expired or was written late in between.
DoneWasHandled ==
    \A j \in Job : jobs[j].state = "done" => okRuns[j] > 0

\* fail gives a job up only when its budget of attempts is spent, although
\* it decides on attempts read in an earlier statement; other failed rows have
\* no handler.
FailedSpentBudget ==
    \A j \in Job : jobs[j].state = "failed"
                   => jobs[j].attempts >= MaxAttempts \/ jobs[j].kind \notin Handled

\* Claims beyond MaxAttempts, attempts that no goroutine was started for, and
\* handler calls beyond the first that succeeded, are paid for by faults:
\* without a crash, a shutdown or a failed statement the budget is exact,
\* attempts counts runs and a success is never repeated.
OnlyFaultsRepeatWork ==
    LET spent == MaxFaults - faults
    IN  \A j \in Job : jobs[j].kind \in Prompt =>
          /\ jobs[j].attempts <= MaxAttempts + spent
          /\ jobs[j].attempts \in started[j]..(started[j] + spent)
          /\ okRuns[j] <= 1 + spent

\* Every queued job ends up done or failed: no crash, lost claim, lost state
\* update or shutdown leaves it running forever.
EventuallySettled ==
    \A j \in Job : jobs[j].state = "queued" ~> jobs[j].state \in Settled
=============================================================================
