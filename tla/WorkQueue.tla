------------------------------ MODULE WorkQueue ------------------------------
(***************************************************************************)
(* What the job queue promises to those who enqueue work and to those who  *)
(* write handlers: a job waits until some worker takes it, at most one     *)
(* worker works on it at a time, nobody's job is taken away from a worker  *)
(* that is still on it, a job is done only if its work once succeeded, and *)
(* done and failed are the end.  Leases, attempts, backoff, timeouts and   *)
(* the process are the implementation's affair.                            *)
(***************************************************************************)
CONSTANTS
    Work,      \* the jobs
    Worker     \* whoever may work on them

VARIABLES
    status,    \* of each job
    holders,   \* the workers that are on it
    succeeded  \* whether the work has ever succeeded

wvars == <<status, holders, succeeded>>

Init ==
    /\ status = [w \in Work |-> "absent"]
    /\ holders = [w \in Work |-> {}]
    /\ succeeded = [w \in Work |-> FALSE]

\* The jobs of W move together to status st; whoever held them lets go.
Move(W, st) ==
    /\ status' = [w \in Work |-> IF w \in W THEN st ELSE status[w]]
    /\ holders' = [w \in Work |-> IF w \in W THEN {} ELSE holders[w]]
    /\ UNCHANGED succeeded

Submit(W) ==
    /\ \A w \in W : status[w] = "absent"
    /\ Move(W, "waiting")

\* A worker with nothing else to do takes a job that nobody is on.
Take(w, h) ==
    /\ status[w] = "waiting"
    /\ holders[w] = {}
    /\ \A v \in Work : h \notin holders[v]
    /\ status' = [status EXCEPT ![w] = "working"]
    /\ holders' = [holders EXCEPT ![w] = {h}]
    /\ UNCHANGED succeeded

\* It is taken, but the taker is lost at once.
TakeInVain(w) ==
    /\ status[w] = "waiting"
    /\ status' = [status EXCEPT ![w] = "working"]
    /\ UNCHANGED <<holders, succeeded>>

Held(w) == status[w] = "working" /\ \E h \in Worker : holders[w] = {h}

Succeed(w) ==
    /\ Held(w)
    /\ succeeded' = [succeeded EXCEPT ![w] = TRUE]
    /\ UNCHANGED <<status, holders>>

\* The one who holds a job ends it, or puts it back.
Finish(w) == Held(w) /\ succeeded[w] /\ Move({w}, "done")

GiveUp(w) == Held(w) /\ Move({w}, "failed")

PutBack(w) == Held(w) /\ Move({w}, "waiting")

\* Workers are lost, and leave their jobs as they are.
Lose(W) ==
    /\ holders' = [w \in Work |-> IF w \in W THEN {} ELSE holders[w]]
    /\ UNCHANGED <<status, succeeded>>

\* Only jobs that nobody is on are taken back.
Reclaim(W) ==
    /\ \A w \in W : status[w] = "working" /\ holders[w] = {}
    /\ Move(W, "waiting")

Next ==
    \/ \E W \in SUBSET Work : Submit(W) \/ Lose(W) \/ Reclaim(W)
    \/ \E w \in Work, h \in Worker : Take(w, h)
    \/ \E w \in Work : \/ TakeInVain(w) \/ Succeed(w) \/ Finish(w)
                       \/ GiveUp(w) \/ PutBack(w)

Spec == Init /\ [][Next]_wvars
=============================================================================
