-------------------------------- MODULE Media --------------------------------
(***************************************************************************)
(* internal/media of one tenant, composed with the job queue: an image is  *)
(* a row of post_images and, inserted in the same transaction, the job     *)
(* that derives its variants; Job is the set of image ids here, and the    *)
(* dedupe key of a job is the object key of its image.  The bytes are in   *)
(* the object store: clients put originals there through presigned URLs,   *)
(* the handler reads them and puts variants beside them.                   *)
(***************************************************************************)
EXTENDS JobQueue, Authz

CONSTANTS
    Post,
    Actor,       \* the principals of requests
    AuthorOf,    \* the author of each post
    Processor,   \* whether a replica's VariantProcessor encodes (vips) or not
    Variants     \* how many variants are derived: len(variantSizes)

ASSUME MediaAssumption ==
    /\ Kind = Handled
    /\ \A k, l \in Kind : k = l  \* the one kind that Confirm enqueues
    /\ BadPayload = {}
    /\ Key # {}
    /\ Post # {}
    /\ DOMAIN AuthorOf = Post
    /\ Processor \subseteq BOOLEAN
    /\ Variants \in Nat \ {0}

VARIABLES
    images,    \* the post_images table
    livePosts, \* the posts that have not been deleted
    urls,      \* object keys: not minted, with a live upload URL, with none
    objects,   \* the bucket: an original is <<key, 0>>, its variants <<key, n>>
    work       \* per goroutine inside the handler: how far it is

mediaVars == <<images, livePosts, urls, objects, work>>

allVars == <<jobs, runs, proc, faults, okRuns, started, images, livePosts,
             urls, objects, work>>

-----------------------------------------------------------------------------
\* variants: "none" is the empty object of the insert, "pending" names the
\* original under every label, "stored" names the variant objects.
Image == [state: {"none", "live", "deleted"}, key: Key, post: Post,
          variants: {"none", "pending", "stored"}]

\* put: the next variant to put; Variants + 1 when there is none left.
Work == [at: {"none", "load", "get", "put", "write"}, encoded: BOOLEAN,
         put: 1..(Variants + 1)]

Object == Key \X (0..Variants)

NoWork == [at |-> "none", encoded |-> FALSE, put |-> 1]

MediaTypeOK ==
    /\ TypeOK
    /\ images \in [Job -> Image]
    /\ livePosts \subseteq Post
    /\ urls \in [Key -> {"none", "live", "expired"}]
    /\ objects \subseteq Object
    /\ work \in [Slot -> Work]

MediaInit ==
    /\ Init
    /\ images = [i \in Job |-> [state |-> "none", key |-> CHOOSE k \in Key : TRUE,
                                post |-> CHOOSE p \in Post : TRUE,
                                variants |-> "none"]]
    /\ livePosts = Post
    /\ urls = [k \in Key |-> "none"]
    /\ objects = {}
    /\ work = [s \in Slot |-> NoWork]

Serving == proc # "down"

ImageOf(key) == {i \in Job : images[i].state = "live" /\ images[i].key = key}

-----------------------------------------------------------------------------
(* Requests. *)

\* The key is new and the URL admits uploads until it expires; nothing is
\* written to the database.
Presign(a, key) ==
    /\ Serving
    /\ Can(a, "UploadMedia") /\ a.tenant
    /\ urls[key] = "none"
    /\ urls' = [urls EXCEPT ![key] = "live"]
    /\ UNCHANGED <<vars, images, livePosts, objects, work>>

\* The object store: a client puts its original, as often as it likes.
Upload(key) ==
    /\ urls[key] = "live"
    /\ objects' = objects \cup {<<key, 0>>}
    /\ UNCHANGED <<vars, images, livePosts, urls, work>>

UrlExpires(key) ==
    /\ urls[key] = "live"
    /\ urls' = [urls EXCEPT ![key] = "expired"]
    /\ UNCHANGED <<vars, images, livePosts, objects, work>>

\* The row that Confirm inserts, if the post is there and no image has the key.
InsertPostImageOnConflict(i, p, key) ==
    /\ images[i].state = "none"
    /\ p \in livePosts
    /\ ImageOf(key) = {}
    /\ images' = [images EXCEPT ![i] = [state |-> "live", key |-> key, post |-> p,
                                        variants |-> "none"]]

\* Mutants: a duplicate job is taken for an image that has one; the job goes
\* without a dedupe key.
ConfirmSwallowed(a, i, k, p, key) ==
    /\ Serving
    /\ Can(a, "UploadMedia") /\ a.tenant
    /\ InsertPostImageOnConflict(i, p, key)
    /\ IF Duplicate(k, key) THEN UNCHANGED vars ELSE Enqueue(i, k, key)
    /\ UNCHANGED <<livePosts, urls, objects, work>>

ConfirmNoKey(a, i, k, p, key) ==
    /\ Serving
    /\ Can(a, "UploadMedia") /\ a.tenant
    /\ InsertPostImageOnConflict(i, p, key)
    /\ Enqueue(i, k, NoKey)
    /\ UNCHANGED <<livePosts, urls, objects, work>>

\* The row and its job in one transaction: whatever Enqueue returns as an
\* error, ErrDuplicate included, takes the row with it.  The key is the
\* client's word: it need not have been minted, or uploaded to.
Confirm(a, i, k, p, key) ==
    /\ Serving
    /\ Can(a, "UploadMedia") /\ a.tenant
    /\ InsertPostImageOnConflict(i, p, key)
    /\ Enqueue(i, k, key)
    /\ UNCHANGED <<livePosts, urls, objects, work>>

\* A post keeps its author and an image its post, so what Delete reads is still
\* true when it deletes.  The objects stay in the bucket.
Delete(a, i) ==
    /\ Serving
    /\ images[i].state = "live"
    /\ Can(a, "EditAnyPost") \/ OwnsPost(a, AuthorOf[images[i].post])
    /\ images' = [images EXCEPT ![i].state = "deleted"]
    /\ UNCHANGED <<vars, livePosts, urls, objects, work>>

\* posts.Delete, and the cascade of the foreign key.
DeletePost(p) ==
    /\ Serving
    /\ p \in livePosts
    /\ livePosts' = livePosts \ {p}
    /\ images' = [i \in Job |-> IF images[i].state = "live" /\ images[i].post = p
                                THEN [images[i] EXCEPT !.state = "deleted"]
                                ELSE images[i]]
    /\ UNCHANGED <<vars, urls, objects, work>>

-----------------------------------------------------------------------------
(* The variants handler. *)

At(s, place) == work[s].at = place /\ ContextLive(s)

Enter(s) ==
    /\ StartJob(s)
    /\ work' = [work EXCEPT ![s].at = "load"]
    /\ UNCHANGED <<images, livePosts, urls, objects>>

\* The job of an image that is gone has nothing to do.
Load(s) ==
    LET i == runs[s].job
    IN  /\ At(s, "load")
        /\ \/ /\ images[i].state = "live"
              /\ work' = [work EXCEPT ![s].at = "get"]
              /\ UNCHANGED vars
           \/ /\ images[i].state # "live"
              /\ work' = [work EXCEPT ![s] = NoWork]
              /\ HandlerOk(s)
        /\ UNCHANGED <<images, livePosts, urls, objects>>

\* Mutant: the row is written before the variants are put.
GetThenWrite(s, encodes) ==
    /\ At(s, "get")
    /\ <<images[runs[s].job].key, 0>> \in objects
    /\ work' = [work EXCEPT ![s] = [at |-> "write", encoded |-> encodes,
                                    put |-> Variants + 1]]
    /\ UNCHANGED <<vars, images, livePosts, urls, objects>>

\* Get finds the original, and Process derives its variants or, in a build
\* that does not encode, only their names.
Get(s, encodes) ==
    /\ At(s, "get")
    /\ <<images[runs[s].job].key, 0>> \in objects
    /\ work' = [work EXCEPT ![s] = [at |-> IF encodes THEN "put" ELSE "write",
                                    encoded |-> encodes, put |-> 1]]
    /\ UNCHANGED <<vars, images, livePosts, urls, objects>>

\* One variant after the other.  An object may be there and its Put still
\* have failed.
Put(s) ==
    LET n == work[s].put
    IN  /\ At(s, "put")
        /\ objects' = objects \cup {<<images[runs[s].job].key, n>>}
        /\ \/ /\ work' = [work EXCEPT ![s].at = IF n = Variants THEN "write" ELSE "put",
                                      ![s].put = n + 1]
              /\ UNCHANGED vars
           \/ /\ work' = [work EXCEPT ![s] = NoWork]
              /\ HandlerErr(s)
        /\ UNCHANGED <<images, livePosts, urls>>

\* Mutant: the original is named as if it were being processed.
writeVariantsProcessing(s) ==
    LET i == runs[s].job
    IN  /\ At(s, "write")
        /\ images' = [images EXCEPT ![i].variants =
             IF images[i].state # "live" THEN @
             ELSE IF work[s].encoded THEN "stored" ELSE "processing"]
        /\ work' = [work EXCEPT ![s] = NoWork]
        /\ HandlerOk(s) \/ HandlerErr(s)
        /\ UNCHANGED <<livePosts, urls, objects>>

\* An update by id: no row is no error.  The commit may take effect and still
\* return an error.
writeVariants(s) ==
    LET i == runs[s].job
    IN  /\ At(s, "write")
        /\ images' = [images EXCEPT ![i].variants =
             IF images[i].state # "live" THEN @
             ELSE IF work[s].encoded THEN "stored" ELSE "pending"]
        /\ work' = [work EXCEPT ![s] = NoWork]
        /\ HandlerOk(s) \/ HandlerErr(s)
        /\ UNCHANGED <<livePosts, urls, objects>>

\* Mutant: an original that is not in the bucket is nothing to derive from.
VariantsErrorSwallowed(s) ==
    /\ work[s].at # "none"
    /\ HandlerOk(s)
    /\ work' = [work EXCEPT ![s] = NoWork]
    /\ UNCHANGED <<images, livePosts, urls, objects>>

\* A statement, the Get (of an object that is not there too), Process or a Put
\* fails, or the context has expired.
VariantsError(s) ==
    /\ work[s].at # "none"
    /\ HandlerErr(s)
    /\ work' = [work EXCEPT ![s] = NoWork]
    /\ UNCHANGED <<images, livePosts, urls, objects>>

VariantsJob(s) ==
    \/ Enter(s)
    \/ Load(s)
    \/ \E encodes \in Processor : Get(s, encodes)
    \/ Put(s)
    \/ writeVariants(s)
    \/ VariantsError(s)

-----------------------------------------------------------------------------
QueueStep ==
    /\ \/ \E s \in Slot, j \in Job : Claim(s, j)
       \/ \E j \in Job : ClaimLost(j)
       \/ \E s \in Slot : \/ FailRead(s) \/ Requeue(s) \/ MarkFailed(s)
                          \/ MarkDone(s) \/ StatementError(s)
       \/ Sweep
       \/ Close
       \/ Restart
       \/ Tick
    /\ UNCHANGED mediaVars

\* The process takes its handlers with it.
Stop ==
    /\ Exit \/ Crash
    /\ work' = [s \in Slot |-> NoWork]
    /\ UNCHANGED <<images, livePosts, urls, objects>>

MediaNext ==
    \/ \E a \in Actor, key \in Key : Presign(a, key)
    \/ \E key \in Key : Upload(key) \/ UrlExpires(key)
    \/ \E a \in Actor, i \in Job, k \in Kind, p \in Post, key \in Key :
          Confirm(a, i, k, p, key)
    \/ \E a \in Actor, i \in Job : Delete(a, i)
    \/ \E p \in Post : DeletePost(p)
    \/ \E s \in Slot : VariantsJob(s)
    \/ QueueStep
    \/ Stop

MediaSpec == MediaInit /\ [][MediaNext]_allVars

-----------------------------------------------------------------------------
(* Properties. *)

Live(i) == images[i].state = "live"

\* An image is shown once its row names variants.  Every object the row then
\* names is in the bucket, although confirms need no upload, puts fail one by
\* one, and runs are lost, repeated by another build or overtaken by deletions:
\* buildVariantsJSON and the order of Put and writeVariants see to it.
ShownObjectsExist ==
    \A i \in Job : Live(i) =>
        /\ images[i].variants # "none" => <<images[i].key, 0>> \in objects
        /\ images[i].variants = "stored"
             => \A n \in 1..Variants : <<images[i].key, n>> \in objects

\* An image that is in the table has a job of its own, and variants when that job
\* is done: it gets them or its job is seen to fail.  Confirm never relies on the
\* job that a deleted image of the same key has left behind.
ImageGetsVariants ==
    \A i \in Job : Live(i) =>
        /\ jobs[i].state # "absent"
        /\ jobs[i].state = "done" => images[i].variants # "none"

\* A confirm that is repeated or delayed until its image has been deleted does
\* not bring the image back: the job of the first confirm stays in the unique
\* index and fails the transaction.  (Nor can the key be confirmed on purpose.)
DeletedStaysDeleted ==
    \A i, j \in Job : images[i].state = "deleted" /\ Live(j)
                      => images[i].key # images[j].key
=============================================================================
