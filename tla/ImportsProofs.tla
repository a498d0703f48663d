---------------------------- MODULE ImportsProofs ----------------------------
(***************************************************************************)
(* Proofs about imports inside the job queue, for every number of imports, *)
(* goroutines, Apply requests and posts and every choice of timeouts.      *)
(***************************************************************************)
EXTENDS Imports, JobQueueProofs

(* The queue underneath. *)

\* Every step of the composition is one of the queue, or leaves it alone.
LEMMA ImportsQueue == [ImportsNext]_allVars => [Next]_vars
  <1> SUFFICES ASSUME [ImportsNext]_allVars PROVE [Next]_vars
    OBVIOUS
  <1>1. ASSUME NEW i \in Job, NEW k \in Kind, StartImport(i, k)
        PROVE  Next
    <2>1. i \in Key \cup {NoKey}
      BY ImportsAssumption
    <2> QED BY <1>1, <2>1 DEF StartImport, Next, Caller
  <1>2. ASSUME NEW s \in Slot, handleJob(s)
        PROVE  [Next]_vars
    BY <1>2 DEF handleJob, Enter, JobLoad, JobConvert, JobWrite, JobError, Next, Goroutines
  <1>3. CASE QueueStep
    BY <1>3 DEF QueueStep, Next, Goroutines
  <1>4. CASE Stop
    BY <1>4 DEF Stop, Next
  <1>5. ASSUME NEW a \in Apply, ApplyStep(a)
        PROVE  UNCHANGED vars
    BY <1>5 DEF ApplyStep, ApplyRead, ApplyCreate, ApplyLink, ApplyRefused
  <1>6. ASSUME NEW p \in PostId, DeleteDraft(p)
        PROVE  UNCHANGED vars
    BY <1>6 DEF DeleteDraft
  <1>7. CASE UNCHANGED allVars
    BY <1>7 DEF allVars, vars
  <1> QED
    BY <1>1, <1>2, <1>3, <1>4, <1>5, <1>6, <1>7 DEF ImportsNext

-----------------------------------------------------------------------------
(* Types. *)

LEMMA ImportsDefaults ==
  /\ NoWork \in Work /\ NoApply \in ApplyReq
  /\ (CHOOSE i \in Job : TRUE) \in Job
  <1>1. (CHOOSE i \in Job : TRUE) \in Job
    BY SetsAssumption
  <1> QED BY <1>1 DEF NoWork, Work, NoApply, ApplyReq

LEMMA ImportsTypeInit == ImportsInit => ImportsTypeOK
  <1> SUFFICES ASSUME ImportsInit PROVE ImportsTypeOK
    OBVIOUS
  <1>1. TypeOK
    BY RunInvInit DEF ImportsInit, RunInv
  <1> QED
    BY <1>1, ImportsDefaults DEF ImportsInit, ImportsTypeOK, ImportRow, Draft

\* Every statement of Start, handleJob, Apply and Delete keeps the types.
LEMMA ImportsTypeStep == ImportsTypeOK /\ [ImportsNext]_allVars => ImportsTypeOK'
  <1> SUFFICES ASSUME ImportsTypeOK, [ImportsNext]_allVars PROVE ImportsTypeOK'
    OBVIOUS
  <1> USE ImportsDefaults
  <1>0. TypeOK /\ TypeOK'
    BY ImportsQueue, TypeStep DEF ImportsTypeOK
  <1>1. ASSUME NEW i \in Job, NEW k \in Kind, StartImport(i, k)
        PROVE  ImportsTypeOK'
    BY <1>0, <1>1 DEF StartImport, ImportsTypeOK, ImportRow
  <1>2. ASSUME NEW s \in Slot, handleJob(s)
        PROVE  ImportsTypeOK'
    <2>0. drafts' = drafts /\ applies' = applies /\ runs[s].job \in Job
      BY <1>0, <1>2
      DEF handleJob, Enter, JobLoad, JobConvert, JobWrite, JobError, TypeOK, Goroutine
    <2>1. work' \in [Slot -> Work]
      BY <1>2
      DEF handleJob, Enter, JobLoad, JobConvert, JobWrite, JobError, ImportsTypeOK, Work
    <2>2. imports' \in [Job -> ImportRow]
      <3>1. CASE imports' = imports
        BY <3>1 DEF ImportsTypeOK
      <3>2. CASE JobWrite(s)
        <4>1. work[s].md \in Markdown \cup {NoText}
          BY DEF ImportsTypeOK, Work
        <4> QED BY <2>0, <3>2, <4>1 DEF JobWrite, ImportsTypeOK, ImportRow
      <3> QED
        BY <1>2, <3>1, <3>2 DEF handleJob, Enter, JobLoad, JobConvert, JobError
    <2> QED BY <1>0, <2>0, <2>1, <2>2 DEF ImportsTypeOK
  <1>3. CASE QueueStep
    BY <1>0, <1>3 DEF QueueStep, importVars, ImportsTypeOK
  <1>4. CASE Stop
    BY <1>0, <1>4 DEF Stop, ImportsTypeOK
  <1>5. ASSUME NEW a \in Apply, NEW i \in Job, ApplyRead(a, i)
        PROVE  ImportsTypeOK'
    BY <1>0, <1>5 DEF ApplyRead, vars, ImportsTypeOK, ImportRow, ApplyReq
  <1>6. ASSUME NEW a \in Apply, NEW p \in PostId, ApplyCreate(a, p)
        PROVE  ImportsTypeOK'
    BY <1>0, <1>6 DEF ApplyCreate, vars, ImportsTypeOK, Draft, ApplyReq
  <1>7. ASSUME NEW a \in Apply, ApplyLink(a)
        PROVE  ImportsTypeOK'
    <2>1. /\ applies[a].post \in PostId \cup {NoPost} /\ applies[a].import \in Job
      BY DEF ImportsTypeOK, ApplyReq
    <2> QED BY <1>0, <1>7, <2>1 DEF ApplyLink, vars, ImportsTypeOK, ImportRow
  <1>8. ASSUME NEW a \in Apply, ApplyRefused(a)
        PROVE  ImportsTypeOK'
    BY <1>0, <1>8 DEF ApplyRefused, vars, ImportsTypeOK
  <1>9. ASSUME NEW p \in PostId, DeleteDraft(p)
        PROVE  ImportsTypeOK'
    BY <1>0, <1>9 DEF DeleteDraft, vars, ImportsTypeOK, ImportRow, Draft
  <1>10. CASE UNCHANGED allVars
    BY <1>0, <1>10 DEF allVars, ImportsTypeOK
  <1> QED
    BY <1>1, <1>2, <1>3, <1>4, <1>5, <1>6, <1>7, <1>8, <1>9, <1>10
    DEF ImportsNext, ApplyStep

\* The queue, the imports, the drafts and the requests keep their types.
THEOREM ImportsTypeCorrect == ImportsSpec => []ImportsTypeOK
  BY ImportsTypeInit, ImportsTypeStep, PTL DEF ImportsSpec

-----------------------------------------------------------------------------
(***************************************************************************)
(* Outcomes.  That a done job has an outcome rests on what a goroutine     *)
(* knows when its handler has returned nil; that the outcome of a prompt   *)
(* conversion is final rests on SingleRunner: the goroutine that found the *)
(* import converting is the only one that can write.                       *)
(***************************************************************************)
Outcome(i) == imports[i].status \in {"done", "error"}

Handler(s) ==
  /\ work[s].at # "none" <=> runs[s].phase = "handling"
  /\ runs[s].phase = "finishing" => Outcome(runs[s].job)
  /\ work[s].at \in {"convert", "write"} /\ jobs[runs[s].job].kind \in Prompt =>
       imports[runs[s].job].status = "converting"

OutcomeInv ==
  /\ ImportsTypeOK
  /\ RunInv
  /\ \A i \in Job : jobs[i].state = "absent" <=> imports[i].status = "none"
  /\ \A s \in Slot : Handler(s)
  /\ JobDoneMeansOutcome

LEMMA OutcomeInit == ImportsInit => OutcomeInv
  <1> SUFFICES ASSUME ImportsInit PROVE OutcomeInv
    OBVIOUS
  <1>1. ImportsTypeOK /\ RunInv
    BY ImportsTypeInit, RunInvInit DEF ImportsInit
  <1> QED
    BY <1>1
    DEF ImportsInit, Init, OutcomeInv, Handler, NoWork, NoRun, NoRow, JobDoneMeansOutcome

\* The only goroutine that can write an import is the one in JobWrite, and a
\* prompt import is then converting.
LEMMA ImportsMove ==
  ASSUME OutcomeInv, [ImportsNext]_allVars, NEW i \in Job,
         \/ imports'[i].status # imports[i].status
         \/ imports'[i].md # imports[i].md
  PROVE  \/ \E k \in Kind : StartImport(i, k)
         \/ \E s \in Slot : /\ JobWrite(s) /\ runs[s].job = i
                            /\ imports'[i].status \in {"done", "error"}
                            /\ jobs[i].state # "absent"
                            /\ jobs[i].kind \in Prompt => imports[i].status = "converting"
  <1>0. ImportsTypeOK /\ imports[i] \in ImportRow
    BY DEF OutcomeInv, ImportsTypeOK
  <1>1. ASSUME NEW j \in Job, NEW k \in Kind, StartImport(j, k)
        PROVE  j = i
    BY <1>0, <1>1 DEF StartImport, ImportsTypeOK
  <1>2. ASSUME NEW s \in Slot, JobWrite(s)
        PROVE  /\ runs[s].job = i
               /\ imports'[i].status \in {"done", "error"}
               /\ jobs[i].state # "absent"
               /\ jobs[i].kind \in Prompt => imports[i].status = "converting"
    <2>1. /\ runs[s].job = i
          /\ imports'[i].status \in {"done", "error"}
      BY <1>0, <1>2 DEF JobWrite, ImportsTypeOK, ImportRow
    <2>2. Handler(s) /\ Covered(s)
      BY DEF OutcomeInv, RunInv
    <2> QED
      BY <1>2, <2>1, <2>2 DEF JobWrite, Handler, Covered
  <1>3. ASSUME NEW a \in Apply, ApplyLink(a)
        PROVE  FALSE
    BY <1>0, <1>3 DEF ApplyLink, ImportsTypeOK, ImportRow
  <1>4. ASSUME NEW p \in PostId, DeleteDraft(p)
        PROVE  FALSE
    BY <1>0, <1>4 DEF DeleteDraft, ImportRow
  <1> QED
    BY <1>1, <1>2, <1>3, <1>4
    DEF ImportsNext, handleJob, Enter, JobLoad, JobConvert, JobError, QueueStep, importVars,
        Stop, ApplyStep, ApplyRead, ApplyCreate, ApplyRefused, allVars

\* An outcome is never taken back, and that of a prompt conversion is final.
LEMMA OutcomeStays ==
  ASSUME OutcomeInv, [ImportsNext]_allVars
  PROVE  KeepsOutcomes /\ \A i \in Job : Outcome(i) => Outcome(i)'
  <1>1. ASSUME NEW i \in Job, Outcome(i),
               \/ imports'[i].status # imports[i].status
               \/ imports'[i].md # imports[i].md
        PROVE  Outcome(i)' /\ jobs[i].kind \notin Prompt
    <2>1. jobs[i].state # "absent"
      BY <1>1 DEF OutcomeInv, Outcome
    <2>2. ~\E k \in Kind : StartImport(i, k)
      BY <2>1 DEF StartImport, Enqueue
    <2> QED BY <1>1, <2>2, ImportsMove DEF Outcome
  <1> QED BY <1>1 DEF KeepsOutcomes, Outcome

\* The row and the job of an import are inserted together.
LEMMA RowsStep ==
  ASSUME OutcomeInv, [ImportsNext]_allVars, NEW i \in Job
  PROVE  jobs'[i].state = "absent" <=> imports'[i].status = "none"
  <1>0. /\ ImportsTypeOK /\ TypeOK /\ RunInv
        /\ jobs[i].state = "absent" <=> imports[i].status = "none"
    BY DEF OutcomeInv, RunInv
  <1>1. ASSUME NEW k \in Kind, StartImport(i, k)
        PROVE  jobs'[i].state # "absent" /\ imports'[i].status # "none"
    BY <1>0, <1>1 DEF StartImport, Enqueue, ImportsTypeOK, ImportRow, TypeOK
  <1>2. CASE ~\E k \in Kind : StartImport(i, k)
    <2>1. imports'[i].status = "none" <=> imports[i].status = "none"
      BY <1>0, <1>2, ImportsMove
    <2>2. jobs'[i].state = "absent" <=> jobs[i].state = "absent"
      <3>1. CASE jobs' = jobs
        BY <3>1
      <3>2. CASE QueueStep
        BY <1>0, <3>2, QueueOnlyRows DEF QueueStep, QueueOnly
      <3>3. ASSUME NEW j \in Job, NEW k \in Kind, StartImport(j, k)
            PROVE  jobs'[i] = jobs[i]
        BY <1>0, <1>2, <3>3 DEF StartImport, Enqueue, TypeOK
      <3>4. ASSUME NEW s \in Slot, handleJob(s)
            PROVE  jobs' = jobs
        BY <3>4
        DEF handleJob, Enter, JobLoad, JobConvert, JobWrite, JobError, StartJob, HandlerOk,
            HandlerErr, vars
      <3> QED
        BY <3>1, <3>2, <3>3, <3>4
        DEF ImportsNext, Stop, Exit, Crash, ApplyStep, ApplyRead, ApplyCreate,
            ApplyLink, ApplyRefused, DeleteDraft, allVars, vars
    <2> QED BY <1>0, <2>1, <2>2
  <1> QED BY <1>1, <1>2

\* A goroutine keeps what it knows of its import while others work on theirs.
LEMMA HandlerElsewhere ==
  ASSUME OutcomeInv, [ImportsNext]_allVars, NEW u \in Slot,
         work'[u] = work[u],
         /\ runs'[u].phase = "handling" <=> runs[u].phase = "handling"
         /\ runs'[u].phase = "finishing" => runs[u].phase = "finishing"
         /\ runs'[u].phase \in {"handling", "finishing"} => runs'[u].job = runs[u].job,
         jobs[runs[u].job].kind \in Prompt /\ runs[u].phase = "handling" =>
           imports'[runs[u].job].status = imports[runs[u].job].status
  PROVE  Handler(u)'
  <1>0. Handler(u) /\ runs[u].job \in Job /\ Covered(u) /\ TypeOK
    BY DEF OutcomeInv, RunInv, TypeOK, Goroutine
  <1>1. Outcome(runs[u].job) => imports'[runs[u].job].status \in {"done", "error"}
    BY <1>0, OutcomeStays DEF Outcome
  <1>2. runs[u].phase = "handling" => jobs'[runs[u].job].kind = jobs[runs[u].job].kind
    BY <1>0, RowsGrow, ImportsQueue DEF Covered
  <1> QED BY <1>0, <1>1, <1>2 DEF Handler, Outcome

\* What the goroutine that takes a step of handleJob knows after it.
LEMMA HandlerStep ==
  ASSUME OutcomeInv, [ImportsNext]_allVars, NEW u \in Slot
  PROVE  Handler(u)'
  <1>0. /\ ImportsTypeOK /\ TypeOK /\ RunInv /\ Handler(u) /\ Covered(u)
        /\ runs[u].job \in Job /\ work[u] \in Work
        /\ Kind = Handled /\ BadPayload = {}
    BY ImportsAssumption DEF OutcomeInv, RunInv, TypeOK, Goroutine, ImportsTypeOK
  <1>k. ASSUME work'[u] = work[u], runs'[u] = runs[u],
               jobs[runs[u].job].kind \in Prompt /\ runs[u].phase = "handling" =>
                 imports'[runs[u].job].status = imports[runs[u].job].status
        PROVE  Handler(u)'
    BY <1>k, HandlerElsewhere
  <1>1. ASSUME NEW i \in Job, NEW k \in Kind, StartImport(i, k)
        PROVE  Handler(u)'
    <2>1. runs[u].phase = "handling" => runs[u].job # i
      BY <1>0, <1>1 DEF StartImport, Enqueue, Covered
    <2> QED
      BY <1>0, <1>1, <1>k, <2>1 DEF StartImport, Enqueue, ImportsTypeOK
  <1>2. ASSUME NEW s \in Slot, handleJob(s), u # s
        PROVE  Handler(u)'
    <2>1. work'[u] = work[u]
      BY <1>0, <1>2
      DEF handleJob, Enter, JobLoad, JobConvert, JobWrite, JobError, ImportsTypeOK
    <2>2. runs'[u] = runs[u]
      BY <1>0, <1>2, HandlerMoves
      DEF handleJob, Enter, JobLoad, JobConvert, JobWrite, JobError, vars
    <2>3. jobs[runs[u].job].kind \in Prompt /\ runs[u].phase = "handling" =>
            imports'[runs[u].job].status = imports[runs[u].job].status
      <3>1. CASE imports' = imports
        BY <3>1
      <3>2. CASE JobWrite(s)
        <4>1. runs[s].phase = "handling"
          BY <3>2 DEF JobWrite, HandlerOk, HandlerErr
        <4>2. jobs[runs[u].job].kind \in Prompt /\ runs[u].phase = "handling" =>
                runs[u].job # runs[s].job
          BY <1>0, <1>2, <4>1 DEF RunInv, Alone
        <4> QED BY <1>0, <3>2, <4>2 DEF JobWrite, ImportsTypeOK
      <3> QED
        BY <1>2, <3>1, <3>2 DEF handleJob, Enter, JobLoad, JobConvert, JobError
    <2> QED BY <1>k, <2>1, <2>2, <2>3
  <1>3. CASE Enter(u)
    BY <1>0, <1>3, HandlerMoves DEF Enter, Handler, ImportsTypeOK
  <1>4. CASE JobLoad(u)
    <2>1. CASE /\ imports[runs[u].job].status = "converting"
               /\ work' = [work EXCEPT ![u].at = "convert"]
               /\ UNCHANGED vars
      <3>1. work'[u].at = "convert" /\ runs' = runs /\ jobs' = jobs /\ imports' = imports
        BY <1>0, <1>4, <2>1 DEF JobLoad, ImportsTypeOK, Work, vars
      <3>2. work[u].at = "load"
        BY <1>4 DEF JobLoad
      <3> QED BY <1>0, <2>1, <3>1, <3>2 DEF Handler
    <2>2. CASE /\ imports[runs[u].job].status # "converting"
               /\ work' = [work EXCEPT ![u] = NoWork]
               /\ HandlerOk(u)
      <3>1. work'[u].at = "none" /\ imports' = imports
        BY <1>0, <1>4, <2>2 DEF JobLoad, ImportsTypeOK, NoWork
      <3>2. /\ runs'[u].phase = "finishing" /\ runs'[u].job = runs[u].job
            /\ runs[u].phase = "handling"
        BY <1>0, <2>2, HandlerMoves
      <3>3. imports[runs[u].job].status \in {"done", "error"}
        BY <1>0, <2>2, <3>2 DEF OutcomeInv, Covered, ImportsTypeOK, ImportRow
      <3> QED BY <3>1, <3>2, <3>3 DEF Handler, Outcome
    <2> QED BY <1>4, <2>1, <2>2 DEF JobLoad
  <1>5. ASSUME NEW md \in Markdown \cup {NoText}, JobConvert(u, md)
        PROVE  Handler(u)'
    <2>1. /\ work'[u].at = "write" /\ work[u].at = "convert"
          /\ runs' = runs /\ jobs' = jobs /\ imports' = imports
      BY <1>0, <1>5 DEF JobConvert, ImportsTypeOK, vars
    <2> QED BY <1>0, <2>1 DEF Handler, Outcome
  <1>6. CASE JobWrite(u)
    <2>1. work'[u].at = "none" /\ imports'[runs[u].job].status \in {"done", "error"}
      BY <1>0, <1>6 DEF JobWrite, ImportsTypeOK, NoWork, ImportRow
    <2>2. runs'[u].phase \in {"finishing", "failing"} /\ runs'[u].job = runs[u].job
      BY <1>0, <1>6, HandlerMoves DEF JobWrite
    <2> QED BY <2>1, <2>2 DEF Handler, Outcome
  <1>7. CASE JobError(u)
    <2>1. work'[u].at = "none"
      BY <1>0, <1>7 DEF JobError, ImportsTypeOK, NoWork
    <2>2. runs'[u].phase = "failing"
      BY <1>0, <1>7, HandlerMoves DEF JobError
    <2> QED BY <2>1, <2>2 DEF Handler
  <1>8. CASE QueueStep
    BY <1>0, <1>8, QueueOnlyRuns, HandlerElsewhere DEF QueueStep, QueueOnly, importVars
  <1>9. CASE Stop
    BY <1>0, <1>9 DEF Stop, Exit, Crash, Handler, NoWork, NoRun
  <1>10. ASSUME NEW a \in Apply, ApplyLink(a)
         PROVE  Handler(u)'
    <2>1. imports'[runs[u].job].status = imports[runs[u].job].status
      BY <1>0, <1>10 DEF ApplyLink, ImportsTypeOK, ImportRow
    <2> QED BY <1>10, <1>k, <2>1 DEF ApplyLink, vars
  <1>11. ASSUME NEW p \in PostId, DeleteDraft(p)
         PROVE  Handler(u)'
    <2>1. imports'[runs[u].job].status = imports[runs[u].job].status
      BY <1>0, <1>11 DEF DeleteDraft, ImportsTypeOK, ImportRow
    <2> QED BY <1>11, <1>k, <2>1 DEF DeleteDraft, vars
  <1>12. ASSUME NEW a \in Apply, ApplyStep(a), imports' = imports
         PROVE  Handler(u)'
    BY <1>12, <1>k DEF ApplyStep, ApplyRead, ApplyCreate, ApplyLink, ApplyRefused, vars
  <1>13. CASE UNCHANGED allVars
    BY <1>13, <1>k DEF allVars
  <1> QED
    BY <1>1, <1>2, <1>3, <1>4, <1>5, <1>6, <1>7, <1>8, <1>9, <1>10, <1>11, <1>12, <1>13
    DEF ImportsNext, handleJob, ApplyStep, ApplyRead, ApplyCreate, ApplyRefused

LEMMA OutcomeStep == OutcomeInv /\ [ImportsNext]_allVars => OutcomeInv'
  <1> SUFFICES ASSUME OutcomeInv, [ImportsNext]_allVars PROVE OutcomeInv'
    OBVIOUS
  <1>1. ImportsTypeOK' /\ RunInv'
    BY ImportsTypeStep, ImportsQueue, RunInvStep DEF OutcomeInv
  <1>2. JobDoneMeansOutcome'
    <2> SUFFICES ASSUME NEW i \in Job, jobs'[i].state = "done"
                 PROVE  Outcome(i)'
      BY DEF JobDoneMeansOutcome, Outcome
    <2>1. \/ jobs[i].state = "done"
          \/ \E s \in Slot : runs[s].phase = "finishing" /\ runs[s].job = i
      BY DoneBy, ImportsQueue DEF OutcomeInv, RunInv
    <2>2. Outcome(i)
      BY <2>1 DEF OutcomeInv, JobDoneMeansOutcome, Handler, Outcome
    <2> QED BY <2>2, OutcomeStays
  <1> QED BY <1>1, <1>2, RowsStep, HandlerStep DEF OutcomeInv

\* When the job of an import is done, the import has an outcome.
THEOREM DoneJobsHaveOutcomes == ImportsSpec => []JobDoneMeansOutcome
  BY OutcomeInit, OutcomeStep, PTL DEF ImportsSpec, OutcomeInv

\* An import whose conversion ends with its context is converted once.
THEOREM ConvertedOnce == ImportsSpec => NeverReconverted
  <1>1. OutcomeInv /\ [ImportsNext]_allVars => [KeepsOutcomes]_allVars
    BY OutcomeStays
  <1> QED
    BY <1>1, OutcomeInit, OutcomeStep, PTL DEF ImportsSpec, NeverReconverted

-----------------------------------------------------------------------------
(***************************************************************************)
(* Links.  Apply carries a copy of the conversion across three             *)
(* transactions: the invariant says that the copy is still the import's.   *)
(***************************************************************************)
MadeFrom(d, i, md) == d.state # "absent" /\ d.source = i /\ d.md = md

Applying(a) ==
  LET q == applies[a]
  IN  /\ q.at # "idle" =>
           /\ Outcome(q.import)
           /\ jobs[q.import].kind \in Prompt => q.md = imports[q.import].md
      /\ q.at = "link" =>
           q.post \in PostId /\ MadeFrom(drafts[q.post], q.import, q.md)

Linked(i) == imports[i].post # NoPost =>
  /\ Outcome(i)
  /\ drafts[imports[i].post].state = "live" /\ drafts[imports[i].post].source = i
  /\ jobs[i].kind \in Prompt => drafts[imports[i].post].md = imports[i].md

LinkInv ==
  /\ OutcomeInv
  /\ \A a \in Apply : Applying(a)
  /\ \A i \in Job : Linked(i)

LEMMA LinkImplies == LinkInv => LinkIsConversion
  BY DEF LinkInv, Linked, LinkIsConversion

LEMMA LinkInit == ImportsInit => LinkInv
  <1> SUFFICES ASSUME ImportsInit PROVE LinkInv
    OBVIOUS
  <1>1. OutcomeInv
    BY OutcomeInit
  <1> QED
    BY <1>1 DEF ImportsInit, LinkInv, Applying, Linked, NoApply

\* What a request knows of an import that has an outcome stays true.
LEMMA OutcomeKept ==
  ASSUME OutcomeInv, [ImportsNext]_allVars, NEW i \in Job, Outcome(i)
  PROVE  /\ imports'[i].status \in {"done", "error"}
         /\ jobs'[i].kind = jobs[i].kind
         /\ jobs[i].kind \in Prompt => imports'[i].md = imports[i].md
  <1>1. jobs[i].state # "absent" /\ TypeOK
    BY DEF OutcomeInv, Outcome, RunInv
  <1>2. jobs'[i].kind = jobs[i].kind
    BY <1>1, RowsGrow, ImportsQueue
  <1> QED BY <1>2, OutcomeStays DEF Outcome, KeepsOutcomes

\* What Apply and Delete do to the drafts: a new one, or a dead one.
LEMMA DraftsStep ==
  ASSUME ImportsTypeOK, [ImportsNext]_allVars, NEW p \in PostId, drafts[p].state # "absent"
  PROVE  /\ drafts'[p].state # "absent"
         /\ drafts'[p].source = drafts[p].source /\ drafts'[p].md = drafts[p].md
         /\ drafts'[p] = drafts[p] \/ DeleteDraft(p)
  <1>0. drafts[p] \in Draft
    BY DEF ImportsTypeOK
  <1>1. CASE drafts' = drafts
    BY <1>1
  <1>2. ASSUME NEW a \in Apply, NEW q \in PostId, ApplyCreate(a, q)
        PROVE  drafts'[p] = drafts[p]
    BY <1>2 DEF ApplyCreate, ImportsTypeOK
  <1>3. ASSUME NEW q \in PostId, DeleteDraft(q)
        PROVE  /\ drafts'[p].state # "absent"
               /\ drafts'[p].source = drafts[p].source /\ drafts'[p].md = drafts[p].md
               /\ drafts'[p] = drafts[p] \/ q = p
    BY <1>0, <1>3 DEF DeleteDraft, ImportsTypeOK, Draft
  <1> QED
    BY <1>1, <1>2, <1>3
    DEF ImportsNext, StartImport, handleJob, Enter, JobLoad, JobConvert, JobWrite, JobError,
        QueueStep, importVars, Stop, ApplyStep, ApplyRead, ApplyLink, ApplyRefused, allVars

LEMMA ApplyingStep ==
  ASSUME LinkInv, [ImportsNext]_allVars, NEW a \in Apply
  PROVE  Applying(a)'
  <1>0. ImportsTypeOK /\ OutcomeInv /\ Applying(a) /\ applies[a] \in ApplyReq
        /\ applies[a].import \in Job
    BY DEF LinkInv, OutcomeInv, ImportsTypeOK, ApplyReq
  <1>i. ASSUME applies'[a].at = "idle"
        PROVE  Applying(a)'
    BY <1>i DEF Applying
  <1>k. ASSUME applies'[a] = applies[a]
        PROVE  Applying(a)'
    <2>1. applies[a].at # "idle" =>
            /\ imports'[applies[a].import].status \in {"done", "error"}
            /\ jobs'[applies[a].import].kind = jobs[applies[a].import].kind
            /\ jobs[applies[a].import].kind \in Prompt =>
                 imports'[applies[a].import].md = imports[applies[a].import].md
      BY <1>0, OutcomeKept DEF Applying
    <2>2. applies[a].at = "link" =>
            /\ drafts'[applies[a].post].state # "absent"
            /\ drafts'[applies[a].post].source = drafts[applies[a].post].source
            /\ drafts'[applies[a].post].md = drafts[applies[a].post].md
      BY <1>0, DraftsStep DEF Applying, MadeFrom
    <2> QED BY <1>0, <1>k, <2>1, <2>2 DEF Applying, Outcome, MadeFrom
  <1>1. ASSUME NEW b \in Apply, NEW i \in Job, ApplyRead(b, i)
        PROVE  Applying(a)'
    <2>1. CASE b = a
      <3>1. /\ applies'[a].at = "create" /\ applies'[a].import = i
            /\ applies'[a].md = imports[i].md /\ imports' = imports /\ jobs' = jobs
            /\ imports[i].status = "done"
        BY <1>0, <1>1, <2>1 DEF ApplyRead, applyGate, ImportsTypeOK, vars
      <3> QED BY <3>1 DEF Applying, Outcome
    <2>2. CASE b # a
      BY <1>0, <1>1, <1>k, <2>2 DEF ApplyRead, ImportsTypeOK
    <2> QED BY <2>1, <2>2
  <1>2. ASSUME NEW b \in Apply, NEW p \in PostId, ApplyCreate(b, p)
        PROVE  Applying(a)'
    <2>1. CASE b = a
      <3>1. /\ applies'[a].at = "link" /\ applies'[a].import = applies[a].import
            /\ applies'[a].md = applies[a].md /\ applies'[a].post = p
            /\ applies[a].at = "create" /\ imports' = imports /\ jobs' = jobs
        BY <1>0, <1>2, <2>1 DEF ApplyCreate, ImportsTypeOK, ApplyReq, vars
      <3>2. /\ drafts'[p].state = "live" /\ drafts'[p].source = applies[a].import
            /\ drafts'[p].md = applies[a].md
        BY <1>0, <1>2, <2>1 DEF ApplyCreate, ImportsTypeOK
      <3> QED BY <1>0, <3>1, <3>2 DEF Applying, Outcome, MadeFrom
    <2>2. CASE b # a
      BY <1>0, <1>2, <1>k, <2>2 DEF ApplyCreate, ImportsTypeOK
    <2> QED BY <2>1, <2>2
  <1>3. ASSUME NEW b \in Apply, ApplyLink(b) \/ ApplyRefused(b)
        PROVE  Applying(a)'
    <2>1. applies'[a] = applies[a] \/ applies'[a].at = "idle"
      BY <1>0, <1>3 DEF ApplyLink, ApplyRefused, ImportsTypeOK, NoApply
    <2> QED BY <1>i, <1>k, <2>1
  <1>4. CASE Stop
    BY <1>4, <1>i DEF Stop, NoApply
  <1> QED
    BY <1>1, <1>2, <1>3, <1>4, <1>k
    DEF ImportsNext, StartImport, handleJob, Enter, JobLoad, JobConvert, JobWrite, JobError,
        QueueStep, importVars, ApplyStep, DeleteDraft, allVars

\* The link of an import changes in ApplyLink, from null, and in DeleteDraft.
LEMMA LinksMove ==
  ASSUME LinkInv, [ImportsNext]_allVars, NEW i \in Job,
         imports'[i].post # imports[i].post
  PROVE  \/ \E a \in Apply : /\ ApplyLink(a) /\ applies[a].import = i
                             /\ imports[i].post = NoPost
                             /\ imports'[i].post = applies[a].post
         \/ \E p \in PostId : DeleteDraft(p) /\ imports[i].post = p
                              /\ imports'[i].post = NoPost
  <1>0. ImportsTypeOK /\ imports[i] \in ImportRow
    BY DEF LinkInv, OutcomeInv, ImportsTypeOK
  <1>1. ASSUME NEW j \in Job, NEW k \in Kind, StartImport(j, k)
        PROVE  FALSE
    BY <1>0, <1>1 DEF StartImport, ImportsTypeOK, ImportRow
  <1>2. ASSUME NEW s \in Slot, JobWrite(s)
        PROVE  FALSE
    BY <1>0, <1>2 DEF JobWrite, ImportsTypeOK, ImportRow
  <1>3. ASSUME NEW a \in Apply, ApplyLink(a)
        PROVE  /\ applies[a].import = i /\ imports[i].post = NoPost
               /\ imports'[i].post = applies[a].post
    BY <1>0, <1>3 DEF ApplyLink, LinkPossible, ImportsTypeOK, ImportRow
  <1>4. ASSUME NEW p \in PostId, DeleteDraft(p)
        PROVE  imports[i].post = p /\ imports'[i].post = NoPost
    BY <1>0, <1>4 DEF DeleteDraft, ImportRow
  <1> QED
    BY <1>1, <1>2, <1>3, <1>4
    DEF ImportsNext, handleJob, Enter, JobLoad, JobConvert, JobError, QueueStep, importVars,
        Stop, ApplyStep, ApplyRead, ApplyCreate, ApplyRefused, allVars

LEMMA LinkedStep ==
  ASSUME LinkInv, [ImportsNext]_allVars, NEW i \in Job
  PROVE  Linked(i)'
  <1>0. /\ ImportsTypeOK /\ OutcomeInv /\ Linked(i) /\ imports[i] \in ImportRow
        /\ imports[i].post \in PostId \cup {NoPost}
    BY DEF LinkInv, OutcomeInv, ImportsTypeOK, ImportRow
  <1>1. CASE imports'[i].post = imports[i].post
    <2>1. CASE imports[i].post = NoPost
      BY <1>1, <2>1 DEF Linked
    <2>2. CASE imports[i].post # NoPost
      <3>1. PICK p \in PostId : p = imports[i].post
        BY <1>0, <2>2
      <3>2. ~DeleteDraft(p)
        BY <1>0, <1>1, <2>2, <3>1 DEF DeleteDraft, ImportRow
      <3>3. drafts'[p] = drafts[p]
        BY <1>0, <2>2, <3>1, <3>2, DraftsStep DEF Linked
      <3>4. /\ imports'[i].status \in {"done", "error"}
            /\ jobs'[i].kind = jobs[i].kind
            /\ jobs[i].kind \in Prompt => imports'[i].md = imports[i].md
        BY <1>0, <2>2, OutcomeKept DEF Linked
      <3> QED BY <1>0, <1>1, <2>2, <3>1, <3>3, <3>4 DEF Linked, Outcome
    <2> QED BY <2>1, <2>2
  <1>2. ASSUME NEW a \in Apply, ApplyLink(a), applies[a].import = i,
               imports'[i].post = applies[a].post
        PROVE  Linked(i)'
    <2>1. Applying(a) /\ applies[a].at = "link" /\ drafts[applies[a].post].state = "live"
      BY <1>2 DEF LinkInv, ApplyLink, LinkPossible
    <2>2. /\ imports'[i].status = imports[i].status /\ imports'[i].md = imports[i].md
          /\ drafts' = drafts /\ jobs' = jobs
      BY <1>0, <1>2 DEF ApplyLink, ImportsTypeOK, ImportRow, vars
    <2> QED BY <1>2, <2>1, <2>2 DEF Applying, Linked, Outcome, MadeFrom
  <1>3. CASE imports'[i].post = NoPost
    BY <1>3 DEF Linked
  <1> QED BY <1>1, <1>2, <1>3, LinksMove

LEMMA LinkStep == LinkInv /\ [ImportsNext]_allVars => LinkInv'
  BY OutcomeStep, ApplyingStep, LinkedStep DEF LinkInv

\* The post an import links to exists and was made from it, from the conversion
\* that the import still shows if that ended with its context.
THEOREM LinksAreConversions == ImportsSpec => []LinkIsConversion
  BY LinkInit, LinkStep, LinkImplies, PTL DEF ImportsSpec

\* An import is unlinked only by the deletion of its draft, never moved to
\* another one.
THEOREM LinksStay == ImportsSpec => LinkStays
  <1>1. LinkInv /\ [ImportsNext]_allVars => [KeepsLinks]_allVars
    <2> SUFFICES ASSUME LinkInv, [ImportsNext]_allVars, NEW i \in Job,
                        imports[i].post # NoPost, imports'[i].post # imports[i].post
                 PROVE  /\ imports'[i].post = NoPost
                        /\ drafts'[imports[i].post].state = "deleted"
      BY DEF KeepsLinks
    <2>1. PICK p \in PostId : DeleteDraft(p) /\ imports[i].post = p /\ imports'[i].post = NoPost
      BY LinksMove
    <2> QED
      BY <2>1 DEF DeleteDraft, LinkInv, OutcomeInv, ImportsTypeOK, Draft
  <1> QED
    BY <1>1, LinkInit, LinkStep, PTL DEF ImportsSpec, LinkStays
=============================================================================
