------------------------------- MODULE Imports -------------------------------
(***************************************************************************)
(* internal/import composed with the job queue: an import is a row of the  *)
(* imports table and, inserted in the same transaction, the job that       *)
(* converts it.  Job is the set of import ids here; the dedupe key of a    *)
(* job is its import's id.  The handler of JobQueue, one step there, is    *)
(* the body of handleJob here; Apply turns a conversion into a draft in    *)
(* three transactions of its own.  The program has one kind of job for     *)
(* imports; the kinds of the model tell documents apart by whether their   *)
(* conversion ends with the job's context (Prompt).  Nothing in the code   *)
(* makes it: pandoc and pdftotext are started without the context.         *)
(***************************************************************************)
EXTENDS JobQueue

CONSTANTS
    Markdown,   \* what conversions produce
    Blank,      \* a conversion that is all white space
    NoText,     \* markdown_out is null
    PostId,
    NoPost,     \* post_id is null
    Apply       \* Apply requests in flight

ASSUME ImportsAssumption ==
    /\ Blank \in Markdown
    /\ NoText \notin Markdown
    /\ NoPost \notin PostId
    /\ Job \subseteq Key
    /\ Kind = Handled
    /\ BadPayload = {}

VARIABLES
    imports,   \* the imports table
    work,      \* per goroutine inside the handler: how far handleJob is
    drafts,    \* the posts that Apply has created
    applies    \* Apply requests between their transactions

importVars == <<imports, work, drafts, applies>>

allVars == <<jobs, runs, proc, faults, okRuns, started, imports, work, drafts,
             applies>>

-----------------------------------------------------------------------------
ImportRow == [status: {"none", "converting", "done", "error"},
              md: Markdown \cup {NoText}, post: PostId \cup {NoPost}]

\* load: about to read the imports row; convert: fetching and converting;
\* write: about to store md, or an error when md is NoText.
Work == [at: {"none", "load", "convert", "write"}, md: Markdown \cup {NoText}]

Draft == [state: {"absent", "live", "deleted"}, source: Job,
          md: Markdown \cup {NoText}]

\* create: past applyGate; link: the draft exists, post_id is not set yet.
ApplyReq == [at: {"idle", "create", "link"}, import: Job, post: PostId \cup {NoPost},
             md: Markdown \cup {NoText}]

NoWork == [at |-> "none", md |-> NoText]

NoApply == [at |-> "idle", import |-> CHOOSE i \in Job : TRUE, post |-> NoPost,
            md |-> NoText]

ImportsTypeOK ==
    /\ TypeOK
    /\ imports \in [Job -> ImportRow]
    /\ work \in [Slot -> Work]
    /\ drafts \in [PostId -> Draft]
    /\ applies \in [Apply -> ApplyReq]

ImportsInit ==
    /\ Init
    /\ imports = [i \in Job |-> [status |-> "none", md |-> NoText, post |-> NoPost]]
    /\ work = [s \in Slot |-> NoWork]
    /\ drafts = [p \in PostId |-> [state |-> "absent", md |-> NoText,
                                   source |-> CHOOSE i \in Job : TRUE]]
    /\ applies = [a \in Apply |-> NoApply]

-----------------------------------------------------------------------------
(* Start: the row and its job in one transaction. *)

StartImport(i, k) ==
    /\ Enqueue(i, k, i)
    /\ imports' = [imports EXCEPT ![i].status = "converting"]
    /\ UNCHANGED <<work, drafts, applies>>

-----------------------------------------------------------------------------
(* handleJob *)

Enter(s) ==
    /\ StartJob(s)
    /\ work' = [work EXCEPT ![s] = [at |-> "load", md |-> NoText]]
    /\ UNCHANGED <<imports, drafts, applies>>

\* Mutant: the status of the row is not looked at.
JobLoadAnyStatus(s) ==
    /\ work[s].at = "load"
    /\ ContextLive(s)
    /\ work' = [work EXCEPT ![s].at = "convert"]
    /\ UNCHANGED <<vars, imports, drafts, applies>>

\* An import that is no longer converting is skipped.  So is one that is gone,
\* which only the deletion of its tenant makes it; that is in Members, not here.
JobLoad(s) ==
    LET i == runs[s].job
    IN  /\ work[s].at = "load"
        /\ ContextLive(s)
        /\ \/ /\ imports[i].status = "converting"
              /\ work' = [work EXCEPT ![s].at = "convert"]
              /\ UNCHANGED vars
           \/ /\ imports[i].status # "converting"
              /\ work' = [work EXCEPT ![s] = NoWork]
              /\ HandlerOk(s)
        /\ UNCHANGED <<imports, drafts, applies>>

\* pandoc or pdftotext has ended.  The subprocess is started without the
\* context, so this may be long after the timeout.
JobConvert(s, md) ==
    /\ work[s].at = "convert"
    /\ work' = [work EXCEPT ![s] = [at |-> "write", md |-> md]]
    /\ UNCHANGED <<vars, imports, drafts, applies>>

\* Mutant: a failed conversion is written as the queue's word for it.
JobWriteFailed(s) ==
    LET i == runs[s].job
    IN  /\ work[s].at = "write"
        /\ ContextLive(s)
        /\ imports' = [imports EXCEPT
             ![i].status = IF work[s].md = NoText THEN "failed" ELSE "done",
             ![i].md = IF work[s].md = NoText THEN @ ELSE work[s].md]
        /\ work' = [work EXCEPT ![s] = NoWork]
        /\ HandlerOk(s)
        /\ UNCHANGED <<drafts, applies>>

\* UpdateImport by id alone, whatever the status is by then.  The commit may
\* take effect and still return an error: the job is then retried.
JobWrite(s) ==
    LET i == runs[s].job
    IN  /\ work[s].at = "write"
        /\ ContextLive(s)
        /\ imports' = [imports EXCEPT
             ![i].status = IF work[s].md = NoText THEN "error" ELSE "done",
             ![i].md = IF work[s].md = NoText THEN @ ELSE work[s].md]
        /\ work' = [work EXCEPT ![s] = NoWork]
        /\ HandlerOk(s) \/ HandlerErr(s)
        /\ UNCHANGED <<drafts, applies>>

\* Mutant: an error is logged and nil returned.
JobErrorSwallowed(s) ==
    /\ work[s].at # "none"
    /\ HandlerOk(s)
    /\ work' = [work EXCEPT ![s] = NoWork]
    /\ UNCHANGED <<imports, drafts, applies>>

\* The load, the fetch of the original or the update fails: handleJob returns
\* the error and leaves the row converting.
JobError(s) ==
    /\ work[s].at # "none"
    /\ HandlerErr(s)
    /\ work' = [work EXCEPT ![s] = NoWork]
    /\ UNCHANGED <<imports, drafts, applies>>

-----------------------------------------------------------------------------
(* The rest of the queue. *)

QueueStep ==
    /\ \/ \E s \in Slot, j \in Job : Claim(s, j)
       \/ \E j \in Job : ClaimLost(j)
       \/ \E s \in Slot : \/ FailRead(s) \/ Requeue(s) \/ MarkFailed(s)
                          \/ MarkDone(s) \/ StatementError(s)
       \/ Sweep
       \/ Close
       \/ Restart
       \/ Tick
    /\ UNCHANGED importVars

\* The process takes its handlers and its requests with it.
Stop ==
    /\ Exit \/ Crash
    /\ work' = [s \in Slot |-> NoWork]
    /\ applies' = [a \in Apply |-> NoApply]
    /\ UNCHANGED <<imports, drafts>>

-----------------------------------------------------------------------------
(* Apply, and the deletion of a draft. *)

applyGate(i) ==
    /\ imports[i].status = "done"
    /\ imports[i].post = NoPost
    /\ imports[i].md \notin {NoText, Blank}

ApplyRead(a, i) ==
    /\ proc # "down"
    /\ applies[a].at = "idle"
    /\ applyGate(i)
    /\ applies' = [applies EXCEPT ![a] = [at |-> "create", import |-> i,
                                          post |-> NoPost, md |-> imports[i].md]]
    /\ UNCHANGED <<vars, imports, work, drafts>>

\* posts.Create, in a transaction of its own.
ApplyCreate(a, p) ==
    /\ applies[a].at = "create"
    /\ drafts[p].state = "absent"
    /\ drafts' = [drafts EXCEPT ![p] = [state |-> "live", md |-> applies[a].md,
                                        source |-> applies[a].import]]
    /\ applies' = [applies EXCEPT ![a].at = "link", ![a].post = p]
    /\ UNCHANGED <<vars, imports, work>>

\* Mutant: post_id is set by id alone.
LinkPossibleById(a) == drafts[applies[a].post].state = "live"

\* SetImportPostID: where post_id is null, and the foreign key must hold.
LinkPossible(a) ==
    /\ imports[applies[a].import].post = NoPost
    /\ drafts[applies[a].post].state = "live"

ApplyLink(a) ==
    /\ applies[a].at = "link"
    /\ LinkPossible(a)
    /\ imports' = [imports EXCEPT ![applies[a].import].post = applies[a].post]
    /\ applies' = [applies EXCEPT ![a] = NoApply]
    /\ UNCHANGED <<vars, work, drafts>>

\* Create or the link fails, for the reasons above or for a lost connection:
\* the caller gets an error, and the draft, if there is one, stays.
ApplyRefused(a) ==
    /\ applies[a].at # "idle"
    /\ applies' = [applies EXCEPT ![a] = NoApply]
    /\ UNCHANGED <<vars, imports, work, drafts>>

\* Mutant: the foreign key is dropped.
DeleteDraftNoKey(p) ==
    /\ proc # "down"
    /\ drafts[p].state = "live"
    /\ drafts' = [drafts EXCEPT ![p].state = "deleted"]
    /\ UNCHANGED <<vars, imports, work, applies>>

\* posts.Delete: the foreign key sets imports.post_id to null.
DeleteDraft(p) ==
    /\ proc # "down"
    /\ drafts[p].state = "live"
    /\ drafts' = [drafts EXCEPT ![p].state = "deleted"]
    /\ imports' = [i \in Job |-> IF imports[i].post = p
                                 THEN [imports[i] EXCEPT !.post = NoPost]
                                 ELSE imports[i]]
    /\ UNCHANGED <<vars, work, applies>>

-----------------------------------------------------------------------------
handleJob(s) ==
    \/ Enter(s)
    \/ JobLoad(s)
    \/ \E md \in Markdown \cup {NoText} : JobConvert(s, md)
    \/ JobWrite(s)
    \/ JobError(s)

ApplyStep(a) ==
    \/ \E i \in Job : ApplyRead(a, i)
    \/ \E p \in PostId : ApplyCreate(a, p)
    \/ ApplyLink(a)
    \/ ApplyRefused(a)

ImportsNext ==
    \/ \E i \in Job, k \in Kind : StartImport(i, k)
    \/ \E s \in Slot : handleJob(s)
    \/ QueueStep
    \/ Stop
    \/ \E a \in Apply : ApplyStep(a)
    \/ \E p \in PostId : DeleteDraft(p)

ImportsSpec == ImportsInit /\ [][ImportsNext]_allVars

-----------------------------------------------------------------------------
(* Properties. *)

\* A step leaves the outcome of a conversion alone.
KeepsOutcomes ==
    \A i \in Job : jobs[i].kind \in Prompt /\ imports[i].status \in {"done", "error"}
                   => /\ imports'[i].status = imports[i].status
                      /\ imports'[i].md = imports[i].md

\* An import whose conversion ends with its context is converted once: retries,
\* redeliveries after a lost claim or a lost done, and errors after the commit
\* never change its outcome, although UpdateImport does not look at the status.
NeverReconverted == [][KeepsOutcomes]_allVars

\* When the job of an import is done, the import is no longer converting:
\* its user is told an outcome.
JobDoneMeansOutcome ==
    \A i \in Job : jobs[i].state = "done" => imports[i].status \in {"done", "error"}

\* The post an import links to exists and was made from it, and if nothing
\* outlives its context, from the conversion that the import still shows.
LinkIsConversion ==
    \A i \in Job : imports[i].post # NoPost =>
        LET d == drafts[imports[i].post]
        IN  /\ d.state = "live" /\ d.source = i
            /\ jobs[i].kind \in Prompt => d.md = imports[i].md

\* A step unlinks an import only by deleting the draft.
KeepsLinks ==
    \A i \in Job : imports[i].post # NoPost /\ imports'[i].post # imports[i].post
                   => /\ imports'[i].post = NoPost
                      /\ drafts'[imports[i].post].state = "deleted"

\* An import that is linked to a draft is unlinked only by the deletion of
\* that draft, and never moved from one draft to another by a second Apply.
LinkStays == [][KeepsLinks]_allVars

\* A draft made by Apply is linked, or the Apply that made it is still running.
EveryDraftLinked ==
    \A p \in PostId : drafts[p].state = "live" =>
        \/ imports[drafts[p].source].post = p
        \/ \E a \in Apply : applies[a].at = "link" /\ applies[a].post = p
=============================================================================
