----------------------------- MODULE MediaProofs -----------------------------
(***************************************************************************)
(* Proofs about images inside the job queue, for every number of images,   *)
(* keys, posts, goroutines and variants and every choice of timeouts.      *)
(***************************************************************************)
EXTENDS Media, JobQueueProofs

(* The queue underneath. *)

\* Every step of the composition is one of the queue, or leaves it alone.
LEMMA MediaQueue == [MediaNext]_allVars => [Next]_vars
  <1> SUFFICES ASSUME [MediaNext]_allVars PROVE [Next]_vars
    OBVIOUS
  <1>1. ASSUME NEW a \in Actor, NEW i \in Job, NEW k \in Kind, NEW p \in Post, NEW key \in Key,
               Confirm(a, i, k, p, key)
        PROVE  Next
    BY <1>1 DEF Confirm, Next, Caller
  <1>2. ASSUME NEW s \in Slot, VariantsJob(s)
        PROVE  [Next]_vars
    BY <1>2 DEF VariantsJob, Enter, Load, Get, Put, writeVariants, VariantsError, Next, Goroutines
  <1>3. CASE QueueStep
    BY <1>3 DEF QueueStep, Next, Goroutines
  <1>4. CASE Stop
    BY <1>4 DEF Stop, Next
  <1> QED
    BY <1>1, <1>2, <1>3, <1>4
    DEF MediaNext, Presign, Upload, UrlExpires, Delete, DeletePost, allVars, vars

-----------------------------------------------------------------------------
(* Types.  A handler that puts variants has one left to put: without that    *)
(* the counter could leave its range.                                        *)

MediaTypeInv ==
  /\ MediaTypeOK
  /\ \A s \in Slot : work[s].at = "put" => work[s].put <= Variants

LEMMA MediaDefaults ==
  /\ NoWork \in Work
  /\ (CHOOSE k \in Key : TRUE) \in Key
  /\ (CHOOSE p \in Post : TRUE) \in Post
  <1>1. 1 \in 1..(Variants + 1)
    BY MediaAssumption
  <1>2. NoWork \in Work
    BY <1>1 DEF NoWork, Work
  <1>3. (CHOOSE k \in Key : TRUE) \in Key
    BY MediaAssumption
  <1>4. (CHOOSE p \in Post : TRUE) \in Post
    BY MediaAssumption
  <1> QED BY <1>2, <1>3, <1>4

LEMMA MediaTypeInit == MediaInit => MediaTypeInv
  <1> SUFFICES ASSUME MediaInit PROVE MediaTypeInv
    OBVIOUS
  <1>1. TypeOK
    BY RunInvInit DEF MediaInit, RunInv
  <1> QED
    BY <1>1, MediaDefaults DEF MediaInit, MediaTypeInv, MediaTypeOK, Image, NoWork

\* What a step of the handler leaves in work.
LEMMA WorkStep ==
  ASSUME MediaTypeInv, NEW s \in Slot, VariantsJob(s)
  PROVE  /\ work' \in [Slot -> Work]
         /\ \A u \in Slot : work'[u].at = "put" => work'[u].put <= Variants
         /\ \A u \in Slot \ {s} : work'[u] = work[u]
  <1>0. /\ work \in [Slot -> Work] /\ work[s] \in Work
        /\ \A u \in Slot : work[u].at = "put" => work[u].put <= Variants
        /\ Variants \in Nat \ {0}
    BY MediaAssumption DEF MediaTypeInv, MediaTypeOK
  <1>k. ASSUME NEW w \in Work, w.at = "put" => w.put <= Variants,
               work' = [work EXCEPT ![s] = w]
        PROVE  /\ work' \in [Slot -> Work]
               /\ \A u \in Slot : work'[u].at = "put" => work'[u].put <= Variants
               /\ \A u \in Slot \ {s} : work'[u] = work[u]
    BY <1>0, <1>k
  <1>1. CASE work' = [work EXCEPT ![s] = NoWork]
    BY <1>1, <1>k, MediaDefaults DEF NoWork
  <1>2. CASE Enter(s)
    <2>1. [work[s] EXCEPT !.at = "load"] \in Work
      BY <1>0 DEF Work
    <2>2. [work[s] EXCEPT !.at = "load"].at = "load"
      BY <1>0 DEF Work
    <2> QED BY <1>2, <1>k, <2>1, <2>2 DEF Enter
  <1>3. CASE work' = [work EXCEPT ![s].at = "get"]
    <2>1. [work[s] EXCEPT !.at = "get"] \in Work
      BY <1>0 DEF Work
    <2>2. [work[s] EXCEPT !.at = "get"].at = "get"
      BY <1>0 DEF Work
    <2> QED BY <1>3, <1>k, <2>1, <2>2
  <1>4. ASSUME NEW encodes \in Processor, Get(s, encodes)
        PROVE  /\ work' \in [Slot -> Work]
               /\ \A u \in Slot : work'[u].at = "put" => work'[u].put <= Variants
               /\ \A u \in Slot \ {s} : work'[u] = work[u]
    <2> DEFINE w == [at |-> IF encodes THEN "put" ELSE "write", encoded |-> encodes, put |-> 1]
    <2>1. w \in Work /\ w.put <= Variants
      BY <1>0, MediaAssumption DEF Work
    <2> QED BY <1>4, <1>k, <2>1 DEF Get
  <1>5. CASE /\ At(s, "put")
             /\ work' = [work EXCEPT ![s].at = IF work[s].put = Variants THEN "write" ELSE "put",
                                     ![s].put = work[s].put + 1]
    <2> DEFINE w == [work[s] EXCEPT !.at = IF work[s].put = Variants THEN "write" ELSE "put",
                                    !.put = work[s].put + 1]
    <2>1. work[s].put \in 1..Variants
      BY <1>0, <1>5 DEF At, Work
    <2>2. work[s].put + 1 \in 1..(Variants + 1)
      BY <1>0, <2>1
    <2>3. CASE work[s].put = Variants
      <3>1. w = [work[s] EXCEPT !.at = "write", !.put = work[s].put + 1]
        BY <2>3
      <3>2. w \in Work /\ w.at = "write"
        BY <1>0, <2>2, <3>1 DEF Work
      <3> QED BY <1>5, <1>k, <3>2
    <2>4. CASE work[s].put # Variants
      <3>1. w = [work[s] EXCEPT !.at = "put", !.put = work[s].put + 1]
        BY <2>4
      <3>2. w \in Work /\ w.put = work[s].put + 1
        BY <1>0, <2>2, <3>1 DEF Work
      <3>3. work[s].put + 1 <= Variants
        BY <1>0, <2>1, <2>4
      <3> QED BY <1>5, <1>k, <3>2, <3>3
    <2> QED BY <2>3, <2>4
  <1> QED
    BY <1>1, <1>2, <1>3, <1>4, <1>5 DEF VariantsJob, Load, Put, writeVariants, VariantsError

LEMMA MediaTypeStep == MediaTypeInv /\ [MediaNext]_allVars => MediaTypeInv'
  <1> SUFFICES ASSUME MediaTypeInv, [MediaNext]_allVars PROVE MediaTypeInv'
    OBVIOUS
  <1>0. TypeOK /\ TypeOK' /\ MediaTypeOK /\ Variants \in Nat \ {0}
    BY MediaQueue, TypeStep, MediaAssumption DEF MediaTypeInv, MediaTypeOK
  <1>1. ASSUME NEW key \in Key, urls' \in [Key -> {"none", "live", "expired"}],
               images' = images, livePosts' = livePosts, work' = work,
               objects' = objects \/ objects' = objects \cup {<<key, 0>>}
        PROVE  MediaTypeInv'
    BY <1>0, <1>1 DEF MediaTypeInv, MediaTypeOK, Object
  <1>2. ASSUME NEW a \in Actor, NEW i \in Job, NEW k \in Kind, NEW p \in Post, NEW key \in Key,
               Confirm(a, i, k, p, key)
        PROVE  MediaTypeInv'
    BY <1>0, <1>2 DEF Confirm, InsertPostImageOnConflict, MediaTypeInv, MediaTypeOK, Image
  <1>3. ASSUME NEW a \in Actor, NEW i \in Job, Delete(a, i)
        PROVE  MediaTypeInv'
    BY <1>0, <1>3 DEF Delete, MediaTypeInv, MediaTypeOK, Image
  <1>4. ASSUME NEW p \in Post, DeletePost(p)
        PROVE  MediaTypeInv'
    BY <1>0, <1>4 DEF DeletePost, MediaTypeInv, MediaTypeOK, Image
  <1>5. ASSUME NEW s \in Slot, VariantsJob(s)
        PROVE  MediaTypeInv'
    <2>0. livePosts' = livePosts /\ urls' = urls
      BY <1>5 DEF VariantsJob, Enter, Load, Get, Put, writeVariants, VariantsError
    <2>1. runs[s].job \in Job /\ images[runs[s].job].key \in Key
      BY <1>0 DEF TypeOK, Goroutine, MediaTypeOK, Image
    <2>2. images' \in [Job -> Image]
      BY <1>0, <1>5, <2>1
      DEF VariantsJob, Enter, Load, Get, Put, writeVariants, VariantsError, MediaTypeOK, Image
    <2>3. objects' \subseteq Object
      <3>1. CASE objects' = objects
        BY <1>0, <3>1 DEF MediaTypeOK
      <3>2. CASE Put(s)
        <4>1. work[s].put \in 0..Variants
          BY <1>0, <3>2 DEF Put, At, MediaTypeInv, MediaTypeOK, Work
        <4> QED BY <1>0, <2>1, <3>2, <4>1 DEF Put, MediaTypeOK, Object
      <3> QED
        BY <1>5, <3>1, <3>2 DEF VariantsJob, Enter, Load, Get, writeVariants, VariantsError
    <2> QED BY <1>0, <1>5, <2>0, <2>2, <2>3, WorkStep DEF MediaTypeInv, MediaTypeOK
  <1>6. CASE QueueStep
    BY <1>0, <1>6 DEF QueueStep, mediaVars, MediaTypeInv, MediaTypeOK
  <1>7. CASE Stop
    BY <1>0, <1>7, MediaDefaults DEF Stop, MediaTypeInv, MediaTypeOK, NoWork
  <1>8. CASE UNCHANGED allVars
    BY <1>0, <1>8 DEF allVars, MediaTypeInv, MediaTypeOK
  <1> QED
    BY <1>0, <1>1, <1>2, <1>3, <1>4, <1>5, <1>6, <1>7, <1>8
    DEF MediaNext, Presign, Upload, UrlExpires, MediaTypeOK

\* The queue, the images, the bucket and the handlers keep their types.
THEOREM MediaTypeCorrect == MediaSpec => []MediaTypeOK
  BY MediaTypeInit, MediaTypeStep, PTL DEF MediaSpec, MediaTypeInv

-----------------------------------------------------------------------------
(***************************************************************************)
(* Images, their jobs and their objects.  ShownObjectsExist is not         *)
(* inductive: writeVariants names objects that the same run has put one by *)
(* one, so the invariant follows each handler through its puts.  Objects   *)
(* are never removed and a row keeps its key, so what a run has put stays  *)
(* there whatever else runs, is lost or is deleted meanwhile.              *)
(***************************************************************************)
HasOriginal(key) == <<key, 0>> \in objects

HasVariants(key, n) == \A m \in 1..n : <<key, m>> \in objects

Deriving(s) ==
  LET i == runs[s].job
  IN  /\ work[s].at # "none" <=> runs[s].phase = "handling"
      /\ work[s].at \in {"put", "write"} => HasOriginal(images[i].key)
      /\ work[s].at = "put" => HasVariants(images[i].key, work[s].put - 1)
      /\ work[s].at = "write" /\ work[s].encoded => HasVariants(images[i].key, Variants)
      /\ runs[s].phase = "finishing" /\ Live(i) => images[i].variants # "none"

Shown(i) == Live(i) =>
  /\ images[i].variants # "none" => HasOriginal(images[i].key)
  /\ images[i].variants = "stored" => HasVariants(images[i].key, Variants)
  /\ jobs[i].state = "done" => images[i].variants # "none"

\* A row and its job are inserted together, under one key.
Paired(i) ==
  /\ jobs[i].state = "absent" <=> images[i].state = "none"
  /\ images[i].state # "none" => jobs[i].key = images[i].key

OneKey(i, j) ==
  images[i].state # "none" /\ images[j].state # "none" /\ images[i].key = images[j].key
    => i = j

MediaInv ==
  /\ MediaTypeInv
  /\ RunInv
  /\ \A i \in Job : Paired(i) /\ Shown(i)
  /\ \A i, j \in Job : OneKey(i, j)
  /\ \A s \in Slot : Deriving(s)

LEMMA MediaImplies == MediaInv => ShownObjectsExist /\ ImageGetsVariants /\ DeletedStaysDeleted
  <1> SUFFICES ASSUME MediaInv
               PROVE  ShownObjectsExist /\ ImageGetsVariants /\ DeletedStaysDeleted
    OBVIOUS
  <1>1. ShownObjectsExist
    BY DEF MediaInv, Shown, ShownObjectsExist, HasOriginal, HasVariants
  <1>2. ImageGetsVariants
    BY DEF MediaInv, Shown, Paired, ImageGetsVariants, Live
  <1>3. DeletedStaysDeleted
    BY DEF MediaInv, OneKey, DeletedStaysDeleted, Live
  <1> QED BY <1>1, <1>2, <1>3

LEMMA MediaInvInit == MediaInit => MediaInv
  <1> SUFFICES ASSUME MediaInit PROVE MediaInv
    OBVIOUS
  <1>1. MediaTypeInv /\ RunInv
    BY MediaTypeInit, RunInvInit DEF MediaInit
  <1>2. \A i \in Job : images[i].state = "none" /\ jobs[i].state = "absent"
    BY DEF MediaInit, Init, NoRow
  <1>3. \A s \in Slot : work[s].at = "none" /\ runs[s].phase = "idle"
    BY DEF MediaInit, Init, NoRun, NoWork
  <1> QED
    BY <1>1, <1>2, <1>3 DEF MediaInv, Paired, Shown, OneKey, Deriving, Live

\* The bucket only grows.
LEMMA ObjectsGrow ==
  ASSUME [MediaNext]_allVars
  PROVE  objects \subseteq objects'
  BY DEF MediaNext, Presign, Upload, UrlExpires, Confirm, Delete, DeletePost, VariantsJob,
         Enter, Load, Get, Put, writeVariants, VariantsError, QueueStep, mediaVars, Stop, allVars

\* A row keeps its key and does not come back, and its variants are only ever
\* written by the run that has reached writeVariants.
LEMMA ImageStep ==
  ASSUME MediaTypeOK, [MediaNext]_allVars, NEW i \in Job, images[i].state # "none"
  PROVE  /\ images'[i].state # "none" /\ images'[i].key = images[i].key
         /\ images'[i].state = "live" => images[i].state = "live"
         /\ images'[i].variants # images[i].variants =>
              \E s \in Slot : /\ writeVariants(s) /\ runs[s].job = i
                              /\ images'[i].variants =
                                   IF work[s].encoded THEN "stored" ELSE "pending"
  <1>0. images[i] \in Image
    BY DEF MediaTypeOK
  <1>1. CASE images' = images
    BY <1>1
  <1>2. ASSUME NEW a \in Actor, NEW j \in Job, NEW k \in Kind, NEW p \in Post, NEW key \in Key,
               Confirm(a, j, k, p, key)
        PROVE  images'[i] = images[i]
    BY <1>2 DEF Confirm, InsertPostImageOnConflict, MediaTypeOK
  <1>3. ASSUME NEW a \in Actor, NEW j \in Job, Delete(a, j)
        PROVE  /\ images'[i].state # "none" /\ images'[i].key = images[i].key
               /\ images'[i].state = "live" => images[i].state = "live"
               /\ images'[i].variants = images[i].variants
    BY <1>0, <1>3 DEF Delete, MediaTypeOK, Image
  <1>4. ASSUME NEW p \in Post, DeletePost(p)
        PROVE  /\ images'[i].state # "none" /\ images'[i].key = images[i].key
               /\ images'[i].state = "live" => images[i].state = "live"
               /\ images'[i].variants = images[i].variants
    BY <1>0, <1>4 DEF DeletePost, Image
  <1>5. ASSUME NEW s \in Slot, writeVariants(s)
        PROVE  /\ images'[i].state = images[i].state /\ images'[i].key = images[i].key
               /\ images'[i].variants # images[i].variants =>
                    /\ runs[s].job = i
                    /\ images'[i].variants = IF work[s].encoded THEN "stored" ELSE "pending"
    BY <1>0, <1>5 DEF writeVariants, MediaTypeOK, Image
  <1> QED
    BY <1>1, <1>2, <1>3, <1>4, <1>5
    DEF MediaNext, Presign, Upload, UrlExpires, VariantsJob, Enter, Load, Get, Put,
        VariantsError, QueueStep, mediaVars, Stop, allVars

\* A new row: its id, its key and its job.
LEMMA ConfirmStep ==
  ASSUME MediaInv, NEW a \in Actor, NEW i \in Job, NEW k \in Kind, NEW p \in Post, NEW key \in Key,
         Confirm(a, i, k, p, key)
  PROVE  /\ images[i].state = "none" /\ images'[i].state = "live"
         /\ images'[i].key = key /\ images'[i].variants = "none"
         /\ jobs[i].state = "absent" /\ jobs'[i].state = "queued" /\ jobs'[i].key = key
         /\ \A j \in Job \ {i} : images'[j] = images[j] /\ jobs'[j] = jobs[j]
         /\ \A j \in Job : images[j].state # "none" => images[j].key # key
         /\ runs' = runs /\ work' = work /\ objects' = objects
  <1>0. MediaTypeOK /\ TypeOK
    BY DEF MediaInv, MediaTypeInv, MediaTypeOK
  <1>1. /\ images[i].state = "none" /\ images'[i].state = "live"
        /\ images'[i].key = key /\ images'[i].variants = "none"
        /\ \A j \in Job \ {i} : images'[j] = images[j]
        /\ work' = work /\ objects' = objects
    BY <1>0 DEF Confirm, InsertPostImageOnConflict, MediaTypeOK
  <1>2. /\ jobs[i].state = "absent" /\ jobs'[i].state = "queued" /\ jobs'[i].key = key
        /\ \A j \in Job \ {i} : jobs'[j] = jobs[j]
        /\ runs' = runs
    BY <1>0 DEF Confirm, Enqueue, TypeOK, NoRow
  <1>3. ASSUME NEW j \in Job, images[j].state # "none", images[j].key = key
        PROVE  FALSE
    <2>1. jobs[j].state # "absent" /\ jobs[j].key = key
      BY <1>3 DEF MediaInv, Paired
    <2>2. jobs[j].kind = k
      BY <1>0, MediaAssumption DEF TypeOK, Row
    <2>3. Duplicate(k, key)
      BY <2>1, <2>2, SetsAssumption DEF Duplicate
    <2> QED BY <2>3 DEF Confirm, Enqueue
  <1> QED BY <1>1, <1>2, <1>3

\* Nothing else inserts a row or touches the key of one.
LEMMA JobsMove ==
  ASSUME MediaInv, [MediaNext]_allVars, NEW i \in Job,
         ~\E a \in Actor, k \in Kind, p \in Post, key \in Key : Confirm(a, i, k, p, key)
  PROVE  /\ jobs'[i].state = "absent" <=> jobs[i].state = "absent"
         /\ jobs'[i].key = jobs[i].key
         /\ images'[i].state = "none" <=> images[i].state = "none"
         /\ images[i].state # "none" => images'[i].key = images[i].key
  <1>0. MediaTypeOK /\ TypeOK /\ RunInv /\ images[i] \in Image
    BY DEF MediaInv, MediaTypeInv, MediaTypeOK
  <1>1. ASSUME NEW a \in Actor, NEW j \in Job, NEW k \in Kind, NEW p \in Post, NEW key \in Key,
               Confirm(a, j, k, p, key)
        PROVE  images'[i] = images[i] /\ jobs'[i] = jobs[i]
    BY <1>1, ConfirmStep
  <1>2. CASE ~\E a \in Actor, j \in Job, k \in Kind, p \in Post, key \in Key :
                 Confirm(a, j, k, p, key)
    <2>1. /\ jobs'[i].state = "absent" <=> jobs[i].state = "absent"
          /\ jobs'[i].key = jobs[i].key
      <3>1. CASE QueueStep
        BY <1>0, <3>1, QueueOnlyRows DEF QueueStep, QueueOnly
      <3>2. ASSUME NEW s \in Slot, VariantsJob(s)
            PROVE  jobs' = jobs
        BY <3>2
        DEF VariantsJob, Enter, Load, Get, Put, writeVariants, VariantsError, StartJob,
            HandlerOk, HandlerErr, vars
      <3> QED
        BY <1>2, <3>1, <3>2
        DEF MediaNext, Presign, Upload, UrlExpires, Delete, DeletePost, Stop, Exit, Crash,
            allVars, vars
    <2>2. images[i].state = "none" => images'[i].state = "none"
      <3>1. ASSUME NEW a \in Actor, NEW j \in Job, Delete(a, j), images[i].state = "none"
            PROVE  images'[i] = images[i]
        BY <1>0, <3>1 DEF Delete, MediaTypeOK
      <3>2. ASSUME NEW p \in Post, DeletePost(p), images[i].state = "none"
            PROVE  images'[i] = images[i]
        BY <3>2 DEF DeletePost
      <3>3. ASSUME NEW s \in Slot, writeVariants(s)
            PROVE  images'[i].state = images[i].state
        BY <1>0, <3>3 DEF writeVariants, MediaTypeOK, Image
      <3> QED
        BY <1>2, <3>1, <3>2, <3>3
        DEF MediaNext, Presign, Upload, UrlExpires, VariantsJob, Enter, Load, Get, Put,
            VariantsError, QueueStep, mediaVars, Stop, allVars
    <2> QED BY <1>0, <2>1, <2>2, ImageStep
  <1> QED BY <1>1, <1>2

LEMMA PairedStep ==
  ASSUME MediaInv, [MediaNext]_allVars, NEW i \in Job
  PROVE  Paired(i)'
  <1>1. Paired(i)
    BY DEF MediaInv
  <1>2. ASSUME NEW a \in Actor, NEW k \in Kind, NEW p \in Post, NEW key \in Key,
               Confirm(a, i, k, p, key)
        PROVE  Paired(i)'
    BY <1>2, ConfirmStep DEF Paired
  <1>3. CASE ~\E a \in Actor, k \in Kind, p \in Post, key \in Key : Confirm(a, i, k, p, key)
    BY <1>1, <1>3, JobsMove DEF Paired
  <1> QED BY <1>2, <1>3

\* The unique index on jobs, which outlives the image, keeps its key its own.
LEMMA OneKeyStep ==
  ASSUME MediaInv, [MediaNext]_allVars, NEW i \in Job, NEW j \in Job
  PROVE  OneKey(i, j)'
  <1>0. OneKey(i, j)
    BY DEF MediaInv
  <1>1. ASSUME NEW a \in Actor, NEW l \in Job, NEW k \in Kind, NEW p \in Post, NEW key \in Key,
               Confirm(a, l, k, p, key)
        PROVE  OneKey(i, j)'
    <2>1. /\ images'[l].key = key
          /\ \A m \in Job \ {l} : images'[m] = images[m]
          /\ \A m \in Job : images[m].state # "none" => images[m].key # key
      BY <1>1, ConfirmStep
    <2> QED BY <1>0, <2>1 DEF OneKey
  <1>2. CASE ~\E a \in Actor, l \in Job, k \in Kind, p \in Post, key \in Key :
                 Confirm(a, l, k, p, key)
    <2>1. /\ images'[i].state = "none" <=> images[i].state = "none"
          /\ images[i].state # "none" => images'[i].key = images[i].key
      BY <1>2, JobsMove
    <2>2. /\ images'[j].state = "none" <=> images[j].state = "none"
          /\ images[j].state # "none" => images'[j].key = images[j].key
      BY <1>2, JobsMove
    <2> QED BY <1>0, <2>1, <2>2 DEF OneKey
  <1> QED BY <1>1, <1>2

LEMMA HasStays ==
  ASSUME objects \subseteq objects', NEW key, NEW n
  PROVE  /\ HasOriginal(key) => <<key, 0>> \in objects'
         /\ HasVariants(key, n) => \A m \in 1..n : <<key, m>> \in objects'
  BY DEF HasOriginal, HasVariants

LEMMA ShownStep ==
  ASSUME MediaInv, [MediaNext]_allVars, NEW i \in Job
  PROVE  Shown(i)'
  <1>0. MediaTypeOK /\ TypeOK /\ Shown(i) /\ objects \subseteq objects'
    BY ObjectsGrow DEF MediaInv, MediaTypeInv, MediaTypeOK
  <1>1. CASE images[i].state = "none"
    <2>1. CASE \E a \in Actor, k \in Kind, p \in Post, key \in Key : Confirm(a, i, k, p, key)
      <3>1. images'[i].variants = "none" /\ jobs'[i].state = "queued"
        BY <2>1, ConfirmStep
      <3> QED BY <3>1 DEF Shown
    <2>2. CASE ~\E a \in Actor, k \in Kind, p \in Post, key \in Key : Confirm(a, i, k, p, key)
      <3>1. images'[i].state = "none"
        BY <1>1, <2>2, JobsMove
      <3> QED BY <3>1 DEF Shown, Live
    <2> QED BY <2>1, <2>2
  <1>2. ASSUME images[i].state # "none", images'[i].state = "live"
        PROVE  Shown(i)'
    <2>1. images'[i].key = images[i].key /\ Live(i)
      BY <1>0, <1>2, ImageStep DEF Live
    <2>2. CASE images'[i].variants = images[i].variants
      <3>1. jobs'[i].state = "done" => images[i].variants # "none"
        <4>1. jobs'[i].state = "done" =>
                \/ jobs[i].state = "done"
                \/ \E s \in Slot : runs[s].phase = "finishing" /\ runs[s].job = i
          BY <1>0, DoneBy, MediaQueue
        <4> QED BY <1>0, <2>1, <4>1 DEF MediaInv, Deriving, Shown
      <3> QED
        BY <1>0, <2>1, <2>2, <3>1, HasStays DEF Shown, Live, HasOriginal, HasVariants
    <2>3. CASE images'[i].variants # images[i].variants
      <3>1. PICK s \in Slot : /\ writeVariants(s) /\ runs[s].job = i
                              /\ images'[i].variants =
                                   IF work[s].encoded THEN "stored" ELSE "pending"
        BY <1>0, <1>2, <2>3, ImageStep
      <3>2. /\ HasOriginal(images[i].key)
            /\ work[s].encoded => HasVariants(images[i].key, Variants)
        BY <3>1 DEF MediaInv, Deriving, writeVariants, At
      <3> QED
        BY <1>0, <2>1, <3>1, <3>2, HasStays DEF Shown, HasOriginal, HasVariants
    <2> QED BY <2>2, <2>3
  <1>3. CASE images'[i].state # "live"
    BY <1>3 DEF Shown, Live
  <1> QED BY <1>1, <1>2, <1>3

\* A handler keeps what it knows of its image while others take their steps.
LEMMA DerivingElsewhere ==
  ASSUME MediaInv, [MediaNext]_allVars, NEW u \in Slot,
         work'[u] = work[u],
         /\ runs'[u].phase = "handling" <=> runs[u].phase = "handling"
         /\ runs'[u].phase = "finishing" => runs[u].phase = "finishing"
         /\ runs'[u].phase \in {"handling", "finishing"} => runs'[u].job = runs[u].job
  PROVE  Deriving(u)'
  <1>0. /\ Deriving(u) /\ Covered(u) /\ MediaTypeOK /\ objects \subseteq objects'
        /\ runs[u].job \in Job
    BY ObjectsGrow DEF MediaInv, RunInv, MediaTypeInv, MediaTypeOK, TypeOK, Goroutine
  <1>1. CASE ~(runs[u].phase \in {"handling", "finishing"})
    BY <1>0, <1>1 DEF Deriving
  <1>2. CASE runs[u].phase \in {"handling", "finishing"}
    <2>1. PICK i \in Job : i = runs[u].job
      BY <1>0
    <2>2. images[i].state # "none"
      BY <1>0, <1>2, <2>1 DEF Covered, MediaInv, Paired
    <2>3. /\ images'[i].key = images[i].key
          /\ images'[i].state = "live" => images[i].state = "live"
          /\ images'[i].variants # images[i].variants => images'[i].variants # "none"
      BY <1>0, <2>2, ImageStep
    <2>4. runs[u].phase = "handling" => Deriving(u)'
      BY <1>0, <2>1, <2>3, HasStays DEF Deriving, HasOriginal, HasVariants
    <2>5. runs[u].phase = "finishing" => Deriving(u)'
      BY <1>0, <2>1, <2>3 DEF Deriving, Live
    <2> QED BY <1>2, <2>4, <2>5
  <1> QED BY <1>1, <1>2

\* What the goroutine that takes a step of the handler knows after it.
LEMMA DerivingStep ==
  ASSUME MediaInv, [MediaNext]_allVars, NEW u \in Slot
  PROVE  Deriving(u)'
  <1>0. /\ MediaTypeOK /\ TypeOK /\ Deriving(u) /\ Covered(u)
        /\ runs[u].job \in Job /\ work[u] \in Work /\ work[u].put \in Nat
        /\ work[u].at = "put" => work[u].put <= Variants
        /\ Kind = Handled /\ BadPayload = {} /\ Variants \in Nat \ {0}
    BY MediaAssumption
    DEF MediaInv, RunInv, MediaTypeInv, MediaTypeOK, TypeOK, Goroutine, Work
  <1>e. ASSUME work'[u].at = "none", runs'[u].phase = "failing"
        PROVE  Deriving(u)'
    BY <1>e DEF Deriving
  <1>1. ASSUME NEW s \in Slot, VariantsJob(s), s # u
        PROVE  Deriving(u)'
    <2>1. work'[u] = work[u]
      BY <1>1, WorkStep DEF MediaInv
    <2>2. runs'[u] = runs[u]
      BY <1>0, <1>1, HandlerMoves
      DEF VariantsJob, Enter, Load, Get, Put, writeVariants, VariantsError, vars
    <2> QED BY <2>1, <2>2, DerivingElsewhere
  <1>2. CASE Enter(u)
    <2>1. work'[u].at = "load" /\ runs'[u].phase = "handling"
      BY <1>0, <1>2, HandlerMoves DEF Enter, MediaTypeOK, Work
    <2> QED BY <2>1 DEF Deriving
  <1>3. CASE Load(u)
    <2>1. CASE /\ work' = [work EXCEPT ![u].at = "get"]
               /\ UNCHANGED vars
      <3>1. work'[u].at = "get" /\ work[u].at = "load" /\ runs' = runs
        BY <1>0, <1>3, <2>1 DEF Load, At, MediaTypeOK, Work, vars
      <3> QED BY <1>0, <3>1 DEF Deriving
    <2>2. CASE /\ images[runs[u].job].state # "live"
               /\ work' = [work EXCEPT ![u] = NoWork]
               /\ HandlerOk(u)
      <3>1. /\ work'[u].at = "none" /\ images' = images
            /\ runs'[u].phase = "finishing" /\ runs'[u].job = runs[u].job
        BY <1>0, <1>3, <2>2, HandlerMoves DEF Load, MediaTypeOK, NoWork
      <3> QED BY <2>2, <3>1 DEF Deriving, Live
    <2> QED BY <1>3, <2>1, <2>2 DEF Load
  <1>4. ASSUME NEW encodes \in Processor, Get(u, encodes)
        PROVE  Deriving(u)'
    <2>1. /\ work'[u] = [at |-> IF encodes THEN "put" ELSE "write",
                         encoded |-> encodes, put |-> 1]
          /\ work[u].at = "get" /\ HasOriginal(images[runs[u].job].key)
          /\ runs' = runs /\ images' = images /\ objects' = objects
      BY <1>0, <1>4 DEF Get, At, MediaTypeOK, vars, HasOriginal
    <2>2. runs[u].phase = "handling"
      BY <1>0, <2>1 DEF Deriving
    <2>3. HasVariants(images[runs[u].job].key, 0)
      BY DEF HasVariants
    <2>4. /\ work'[u].at = IF encodes THEN "put" ELSE "write"
          /\ work'[u].encoded = encodes /\ work'[u].put - 1 = 0
      BY <2>1
    <2>5. work'[u].at = "write" => ~work'[u].encoded
      BY <2>4
    <2>6. work'[u].at \in {"put", "write"}
      BY <2>4
    <2> QED BY <2>1, <2>2, <2>3, <2>4, <2>5, <2>6 DEF Deriving, HasOriginal, HasVariants
  <1>5. CASE Put(u)
    <2>1. CASE /\ work' = [work EXCEPT ![u].at = IF work[u].put = Variants THEN "write" ELSE "put",
                                       ![u].put = work[u].put + 1]
               /\ UNCHANGED vars
      <3> DEFINE key == images[runs[u].job].key
      <3>1. /\ work[u].at = "put" /\ runs' = runs /\ images' = images
            /\ objects' = objects \cup {<<key, work[u].put>>}
            /\ work'[u].at = IF work[u].put = Variants THEN "write" ELSE "put"
            /\ work'[u].put = work[u].put + 1
        BY <1>0, <1>5, <2>1 DEF Put, At, MediaTypeOK, Work, vars
      <3>2. runs[u].phase = "handling" /\ HasOriginal(key) /\ HasVariants(key, work[u].put - 1)
        BY <1>0, <3>1 DEF Deriving
      <3>3. \A m \in 1..(work[u].put) : m \in 1..(work[u].put - 1) \/ m = work[u].put
        BY <1>0
      <3>4. \A m \in 1..(work[u].put) : <<key, m>> \in objects'
        BY <3>1, <3>2, <3>3 DEF HasVariants
      <3>5. work'[u].put - 1 = work[u].put
        BY <1>0, <3>1
      <3>6. work'[u].at = "write" => work[u].put = Variants
        BY <3>1
      <3>7. <<key, 0>> \in objects' /\ work'[u].at # "none"
        BY <3>1, <3>2 DEF HasOriginal
      <3>8. /\ HasVariants(images[runs[u].job].key, work[u].put - 1)'
            /\ work'[u].at = "write" => HasVariants(images[runs[u].job].key, Variants)'
        BY <3>1, <3>4, <3>5, <3>6 DEF HasVariants
      <3> QED BY <3>1, <3>2, <3>7, <3>8 DEF Deriving, HasOriginal
    <2>2. CASE /\ work' = [work EXCEPT ![u] = NoWork]
               /\ HandlerErr(u)
      BY <1>0, <1>e, <2>2, HandlerMoves DEF MediaTypeOK, NoWork
    <2> QED BY <1>5, <2>1, <2>2 DEF Put
  <1>6. CASE writeVariants(u)
    <2>1. work'[u].at = "none" /\ runs'[u].phase \in {"finishing", "failing"}
          /\ runs'[u].job = runs[u].job
      BY <1>0, <1>6, HandlerMoves DEF writeVariants, MediaTypeOK, NoWork
    <2>2. images'[runs[u].job].state = "live" => images'[runs[u].job].variants # "none"
      BY <1>0, <1>6 DEF writeVariants, MediaTypeOK, Image
    <2> QED BY <2>1, <2>2 DEF Deriving, Live
  <1>7. CASE VariantsError(u)
    BY <1>0, <1>7, <1>e, HandlerMoves DEF VariantsError, MediaTypeOK, NoWork
  <1>8. CASE QueueStep
    BY <1>0, <1>8, QueueOnlyRuns, DerivingElsewhere DEF QueueStep, QueueOnly, mediaVars
  <1>9. CASE Stop
    BY <1>9 DEF Stop, Exit, Crash, Deriving, NoWork, NoRun
  <1>10. CASE work' = work /\ runs' = runs
    BY <1>10, DerivingElsewhere
  <1> QED
    BY <1>1, <1>2, <1>3, <1>4, <1>5, <1>6, <1>7, <1>8, <1>9, <1>10
    DEF MediaNext, Presign, Upload, UrlExpires, Confirm, Enqueue, Delete, DeletePost,
        VariantsJob, allVars, vars

LEMMA MediaInvStep == MediaInv /\ [MediaNext]_allVars => MediaInv'
  <1> SUFFICES ASSUME MediaInv, [MediaNext]_allVars PROVE MediaInv'
    OBVIOUS
  <1>1. MediaTypeInv' /\ RunInv'
    BY MediaTypeStep, MediaQueue, RunInvStep DEF MediaInv
  <1> QED
    BY <1>1, PairedStep, ShownStep, OneKeyStep, DerivingStep DEF MediaInv

\* Every object that the row of a shown image names is in the bucket.
THEOREM ShownObjectsAreThere == MediaSpec => []ShownObjectsExist
  BY MediaInvInit, MediaInvStep, MediaImplies, PTL DEF MediaSpec

\* An image has a job of its own, and variants once that job is done.
THEOREM ImagesGetVariants == MediaSpec => []ImageGetsVariants
  BY MediaInvInit, MediaInvStep, MediaImplies, PTL DEF MediaSpec

\* A late or repeated confirm does not bring a deleted image back.
THEOREM DeletedImagesStayDeleted == MediaSpec => []DeletedStaysDeleted
  BY MediaInvInit, MediaInvStep, MediaImplies, PTL DEF MediaSpec
=============================================================================
