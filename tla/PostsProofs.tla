----------------------------- MODULE PostsProofs -----------------------------
(***************************************************************************)
(* Proofs about the posts of a tenant, for every set of posts, users,      *)
(* actors, texts, requests in flight and readers.                          *)
(***************************************************************************)
EXTENDS Posts, FiniteSetTheorems, WellFoundedInduction, TLAPS

-----------------------------------------------------------------------------
(* uniqueSlug *)

\* A set of numbers that is not empty has a least element.
LEMMA LeastNumber ==
  ASSUME NEW T \in SUBSET Nat, T # {}
  PROVE  \E n \in T : \A m \in T : n <= m
  <1>1. PICK n \in T : \A m \in T : ~(<<m, n>> \in OpToRel(<, Nat))
    BY NatLessThanWellFounded, WFMin
  <1>2. \A m \in T : ~(m < n)
    BY <1>1 DEF OpToRel
  <1> QED BY <1>2

\* Of the first Cardinality(Post) + 1 suffixes of a base one is free, because a
\* live row takes one at most.
LEMMA SomeSuffixIsFree ==
  ASSUME NEW base \in Base
  PROVE  \E n \in 1..(Cardinality(Post) + 1) : ~SlugExists(<<base, n>>)
  <1> DEFINE N == 1..(Cardinality(Post) + 1)
  <1> SUFFICES ASSUME \A n \in N : SlugExists(<<base, n>>) PROVE FALSE
    OBVIOUS
  <1>1. IsFiniteSet(Post) /\ Cardinality(Post) \in Nat
    BY PostsAssumption, FS_CardinalityType
  <1>2. IsFiniteSet(N) /\ Cardinality(N) = Cardinality(Post) + 1
    BY <1>1, FS_Interval
  <1> DEFINE f == [n \in N |-> CHOOSE p \in Post : Live(p) /\ posts[p].slug = <<base, n>>]
  <1>3. \A n \in N : f[n] \in Post /\ posts[f[n]].slug = <<base, n>>
    BY DEF SlugExists
  <1>4. f \in [N -> Post]
    BY <1>3
  <1>5. PICK x, y \in N : x # y /\ f[x] = f[y]
    <2> HIDE DEF N, f
    <2>1. Cardinality(Post) < Cardinality(N)
      BY <1>1, <1>2
    <2> QED BY <1>1, <1>2, <1>4, <2>1, FS_PigeonHole
  <1>6. <<base, x>> = <<base, y>>
    BY <1>3, <1>5
  <1> QED BY <1>5, <1>6

\* uniqueSlug finds a slug, and inside a tenant one that no live row has.
LEMMA UniqueSlugIsFree ==
  ASSUME NEW a \in Actor, NEW base \in Base
  PROVE  /\ uniqueSlug(a, base) \in Slug
         /\ a.tenant => ~SlugExists(uniqueSlug(a, base))
  <1> DEFINE N == 1..(Cardinality(Post) + 1)
             Free == {n \in N : ~SlugExists(<<base, n>>)}
             Least(n) == /\ ~SlugExists(<<base, n>>)
                         /\ \A m \in 1..(n - 1) : SlugExists(<<base, m>>)
  <1>1. Cardinality(Post) \in Nat
    BY PostsAssumption, FS_CardinalityType
  <1>2. PICK n \in Free : \A m \in Free : n <= m
    <2>1. Free # {} /\ Free \in SUBSET Nat
      BY <1>1, SomeSuffixIsFree
    <2> QED BY <2>1, LeastNumber
  <1>3. n \in N /\ Least(n)
    <2>1. ASSUME NEW m \in 1..(n - 1) PROVE SlugExists(<<base, m>>)
      BY <1>1, <1>2
    <2> QED BY <1>2, <2>1
  <1>4. (CHOOSE k \in N : Least(k)) \in N /\ Least(CHOOSE k \in N : Least(k))
    <2> HIDE DEF N, Least
    <2> QED BY <1>3
  <1>5. CASE a.tenant
    <2>1. uniqueSlug(a, base) = <<base, CHOOSE k \in N : Least(k)>>
      BY <1>5 DEF uniqueSlug
    <2>2. (CHOOSE k \in N : Least(k)) \in Nat \ {0}
      BY <1>1, <1>4
    <2> QED BY <1>4, <2>1, <2>2 DEF Slug
  <1>6. CASE ~a.tenant
    BY <1>6 DEF uniqueSlug, Slug
  <1> QED BY <1>5, <1>6

-----------------------------------------------------------------------------
(* Types. *)

Transitions == {"publish", "unpublish", "archive"}

LEMMA TransitionOps ==
  /\ DOMAIN StatusOf = Transitions
  /\ \A op \in Transitions : StatusOf[op] \in Statuses
  BY DEF StatusOf, Statuses, Transitions

\* What a row or a request is before it is used has its type.
LEMMA DefaultTypes ==
  /\ NoPost \in Row /\ NoPost.status = "absent"
  /\ NoReq \in Request /\ NoReq.op = "idle"
  <1>1. /\ (CHOOSE u \in User : TRUE) \in User /\ (CHOOSE b \in Base : TRUE) \in Base
        /\ (CHOOSE a \in Actor : TRUE) \in Actor /\ (CHOOSE p \in Post : TRUE) \in Post
    BY PostsAssumption
  <1>2. NoPost \in Row /\ NoPost.status = "absent"
    BY <1>1, PostsAssumption DEF NoPost, Row, Slug, Html, render, Statuses
  <1> QED BY <1>1, <1>2 DEF NoReq, Request, Ops

LEMMA TypeInit == Init => TypeOK
  BY DefaultTypes, PostsAssumption DEF Init, TypeOK, Reader

\* What a request has computed when its reads are done has the type of a row.
LEMMA ReadsType ==
  ASSUME TypeOK, NEW r \in Req, Reads(r)
  PROVE  \E op \in Ops \ {"idle"}, a \in Actor, p \in Post, new \in Row :
           Pending(r, op, a, p, new)
  <1>1. PICK a \in Actor, p \in Post :
        \/ \E base \in Base, text \in Text, meta \in Meta \cup {FALSE} :
              CreateRead(r, a, p, base, text, meta)
        \/ \E text \in Text \cup {Keep}, base \in Base \cup {Keep}, meta \in Meta \cup {Keep} :
              UpdateRead(r, a, p, text, base, meta)
        \/ \E op \in DOMAIN StatusOf : transitionRead(r, a, p, op)
        \/ DeleteRead(r, a, p)
    BY DEF Reads
  <1>2. /\ posts[p] \in Row /\ posts[p].text \in Text /\ posts[p].meta \in BOOLEAN
        /\ posts[p].slug \in Slug /\ posts[p].status \in Statuses \cup {"absent", "deleted"}
        /\ a.user \in User /\ Meta \subseteq BOOLEAN
    BY PostsAssumption DEF TypeOK, Row
  <1>3. ASSUME NEW text \in Text, NEW meta \in BOOLEAN
        PROVE  render(text, meta) \in Html
    BY DEF render, Html
  <1>4. ASSUME NEW base \in Base, NEW text \in Text, NEW meta \in Meta \cup {FALSE},
               CreateRead(r, a, p, base, text, meta)
        PROVE  \E new \in Row : Pending(r, "create", a, p, new)
    <2> DEFINE new == [status |-> "draft", author |-> a.user, slug |-> uniqueSlug(a, base),
                       text |-> text, meta |-> meta, html |-> render(text, meta)]
    <2>1. new \in Row
      BY <1>2, <1>3, UniqueSlugIsFree DEF Row, Statuses
    <2>2. Pending(r, "create", a, p, new)
      BY <1>4 DEF CreateRead
    <2> QED BY <2>1, <2>2
  <1>5. ASSUME NEW text \in Text \cup {Keep}, NEW base \in Base \cup {Keep},
               NEW meta \in Meta \cup {Keep}, UpdateRead(r, a, p, text, base, meta)
        PROVE  \E new \in Row : Pending(r, "update", a, p, new)
    <2> DEFINE slug == IF base = Keep THEN posts[p].slug ELSE uniqueSlug(a, base)
               html == render(Given(text, posts[p].text), Given(meta, posts[p].meta))
               new == [NoPost EXCEPT !.status = posts[p].status, !.slug = slug,
                         !.text = Given(text, posts[p].text), !.html = html]
    <2>1. slug \in Slug
      BY <1>2, UniqueSlugIsFree
    <2>2. Given(text, posts[p].text) \in Text /\ Given(meta, posts[p].meta) \in BOOLEAN
      BY <1>2 DEF Given
    <2>3. html \in Html
      BY <1>3, <2>2
    <2>4. Pending(r, "update", a, p, new)
      BY <1>5 DEF UpdateRead
    <2>5. new \in Row
      <3> HIDE DEF slug, html
      <3> QED BY <1>2, <2>1, <2>2, <2>3, DefaultTypes DEF Row
    <2> QED BY <2>4, <2>5
  <1>6. ASSUME NEW op \in Transitions, transitionRead(r, a, p, op)
        PROVE  \E new \in Row : Pending(r, op, a, p, new)
    <2> DEFINE html == render(posts[p].text, posts[p].meta)
               new == [NoPost EXCEPT !.status = StatusOf[op], !.html = html]
    <2>1. html \in Html /\ StatusOf[op] \in Statuses
      BY <1>2, <1>3, TransitionOps
    <2>2. Pending(r, op, a, p, new)
      BY <1>6 DEF transitionRead
    <2>3. new \in Row
      <3> HIDE DEF html
      <3> QED BY <2>1, DefaultTypes DEF Row
    <2> QED BY <2>2, <2>3
  <1>7. ASSUME DeleteRead(r, a, p)
        PROVE  \E new \in Row : Pending(r, "delete", a, p, new)
    BY <1>7, DefaultTypes DEF DeleteRead
  <1>8. {"create", "update", "delete"} \cup Transitions \subseteq Ops \ {"idle"}
    BY DEF Ops, Transitions
  <1> QED BY <1>1, <1>4, <1>5, <1>6, <1>7, <1>8, TransitionOps

\* A request that ends is the only one that does, and leaves the readers alone.
LEMMA EndsOne ==
  ASSUME TypeOK, NEW r \in Req, Ends(r)
  PROVE  /\ reqs' \in [Req -> Request] /\ reqs'[r].op = "idle"
         /\ \A q \in Req \ {r} : reqs'[q] = reqs[q]
         /\ clients' = clients
         /\ since' \in [Req -> SUBSET {"publish", "update"}]
  <1>1. ASSUME NEW q \in Req
        PROVE  since'[q] \in SUBSET {"publish", "update"}
    BY <1>1 DEF TypeOK, Ends
  <1>2. since' \in [Req -> SUBSET {"publish", "update"}]
    BY <1>1 DEF Ends
  <1> QED BY <1>2, DefaultTypes DEF TypeOK, Ends

\* The post and the row that a request is about to write have their types.
LEMMA PendingTypes ==
  ASSUME TypeOK, NEW r \in Req
  PROVE  /\ reqs[r].post \in Post /\ reqs[r].new \in Row /\ reqs[r].actor \in Actor
         /\ reqs[r].new.slug \in Slug /\ reqs[r].new.text \in Text
         /\ reqs[r].new.html \in Html
         /\ reqs[r].new.status \in Statuses \cup {"absent", "deleted"}
         /\ posts[reqs[r].post] \in Row
  <1>1. reqs[r].post \in Post /\ reqs[r].new \in Row /\ reqs[r].actor \in Actor
    BY DEF TypeOK, Request
  <1> QED BY <1>1 DEF TypeOK, Row

\* content_version and the purge job keep their types, purged or not.
LEMMA purgeTypes ==
  ASSUME TypeOK, purge \/ NoPurge
  PROVE  version' \in Nat /\ purgeJob' \in {"none", "queued", "done"}
  BY DEF TypeOK, purge, NoPurge

LEMMA TypeStep == TypeOK /\ [Next]_vars => TypeOK'
  <1> SUFFICES ASSUME TypeOK, [Next]_vars PROVE TypeOK'
    OBVIOUS
  <1>1. ASSUME NEW r \in Req, Reads(r)
        PROVE  TypeOK'
    <2>1. PICK op \in Ops, a \in Actor, p \in Post, new \in Row : Pending(r, op, a, p, new)
      BY <1>1, ReadsType
    <2>2. [op |-> op, actor |-> a, post |-> p, new |-> new] \in Request
      BY DEF Request
    <2> QED BY <2>1, <2>2 DEF Pending, TypeOK
  <1>2. ASSUME NEW r \in Req, CreateWrite(r)
        PROVE  TypeOK'
    BY <1>2, EndsOne, PendingTypes, purgeTypes DEF CreateWrite, Rollback, TypeOK
  <1>3. ASSUME NEW r \in Req, UpdateWrite(r)
        PROVE  TypeOK'
    <2>1. CASE Rollback
      BY <1>3, <2>1, EndsOne DEF UpdateWrite, Rollback, TypeOK
    <2>2. CASE /\ posts' = [posts EXCEPT ![reqs[r].post].slug = reqs[r].new.slug,
                                         ![reqs[r].post].text = reqs[r].new.text,
                                         ![reqs[r].post].html = reqs[r].new.html]
               /\ purge \/ NoPurge
      <3> DEFINE w == [posts[reqs[r].post] EXCEPT !.slug = reqs[r].new.slug,
                          !.text = reqs[r].new.text, !.html = reqs[r].new.html]
      <3>1. w \in Row
        BY PendingTypes DEF Row
      <3>2. posts' = [posts EXCEPT ![reqs[r].post] = w]
        BY <2>2, PendingTypes DEF TypeOK
      <3> HIDE DEF w
      <3>3. posts' \in [Post -> Row]
        BY <3>1, <3>2 DEF TypeOK
      <3> QED BY <1>3, <2>2, <3>3, EndsOne, purgeTypes DEF UpdateWrite, TypeOK
    <2> QED BY <1>3, <2>1, <2>2 DEF UpdateWrite
  <1>4. ASSUME NEW r \in Req, transitionWrite(r)
        PROVE  TypeOK'
    <2>1. CASE Rollback
      BY <1>4, <2>1, EndsOne DEF transitionWrite, Rollback, TypeOK
    <2>2. CASE /\ posts' = [posts EXCEPT ![reqs[r].post].status = reqs[r].new.status,
                                         ![reqs[r].post].html = reqs[r].new.html]
               /\ purge
      <3> DEFINE w == [posts[reqs[r].post] EXCEPT !.status = reqs[r].new.status,
                          !.html = reqs[r].new.html]
      <3>1. w \in Row
        BY PendingTypes DEF Row
      <3>2. posts' = [posts EXCEPT ![reqs[r].post] = w]
        BY <2>2, PendingTypes DEF TypeOK
      <3> HIDE DEF w
      <3>3. posts' \in [Post -> Row]
        BY <3>1, <3>2 DEF TypeOK
      <3> QED BY <1>4, <2>2, <3>3, EndsOne, purgeTypes DEF transitionWrite, TypeOK
    <2> QED BY <1>4, <2>1, <2>2 DEF transitionWrite
  <1>5. ASSUME NEW r \in Req, DeleteWrite(r)
        PROVE  TypeOK'
    <2>1. [NoPost EXCEPT !.status = "deleted"] \in Row
      BY DefaultTypes DEF Row
    <2>2. posts' \in [Post -> Row]
      BY <1>5, <2>1, PendingTypes DEF DeleteWrite, TypeOK
    <2> QED BY <1>5, <2>2, EndsOne, purgeTypes DEF DeleteWrite, TypeOK
  <1>6. CASE TenantUpdate \/ PurgeRuns
    BY <1>6, purgeTypes DEF TenantUpdate, PurgeRuns, TypeOK
  <1>7. ASSUME NEW c \in Client, ListVersion(c)
        PROVE  TypeOK'
    BY <1>7 DEF ListVersion, TypeOK, Reader
  <1>8. ASSUME NEW c \in Client, ListRows(c)
        PROVE  TypeOK'
    <2>1. PublicList \in SUBSET Entry
      BY DEF PublicList, PublicEntry, Published, Entry, TypeOK, Row
    <2>2. clients[c] \in Reader
      BY DEF TypeOK
    <2>3. clients'[c] \in Reader /\ clients' \in [Client -> Reader]
      <3> DEFINE w == [clients[c] EXCEPT !.phase = "idle", !.seen = 0,
                         !.etag = clients[c].seen,
                         !.body = IF clients[c].etag = clients[c].seen THEN @ ELSE PublicList]
      <3>1. w \in Reader
        BY <2>1, <2>2 DEF Reader
      <3>2. clients' = [clients EXCEPT ![c] = w]
        BY <1>8 DEF ListRows, TypeOK
      <3> HIDE DEF w
      <3> QED BY <3>1, <3>2 DEF TypeOK
    <2> QED BY <1>8, <2>3 DEF ListRows, TypeOK
  <1>9. CASE UNCHANGED vars
    BY <1>9 DEF vars, TypeOK
  <1> QED BY <1>1, <1>2, <1>3, <1>4, <1>5, <1>6, <1>7, <1>8, <1>9 DEF Next, Writes

\* TypeOK: the rows, the requests and the readers keep their types; every slug
\* that uniqueSlug gives is one.
THEOREM PostsTypeCorrect == Spec => []TypeOK
  BY TypeInit, TypeStep, PTL DEF Spec

-----------------------------------------------------------------------------
(* The inductive invariant. *)

\* What a request has read may be stale when it writes, but not all of it: the id
\* it creates is still its own and no row; the row it updates or deletes, if
\* there still is one, has the author it had; and only editors publish.
Backed(r) ==
    LET p == reqs[r].post
        a == reqs[r].actor
    IN  /\ reqs[r].op = "create" =>
             /\ posts[p].status = "absent" /\ reqs[r].new.status = "draft"
             /\ \A q \in Req \ {r} : reqs[q].op = "create" => reqs[q].post # p
        /\ reqs[r].op \in {"update", "delete"} =>
             /\ posts[p].status # "absent"
             /\ PlainAuthor(a) /\ Live(p) => posts[p].author = a.user
        /\ reqs[r].op \in Transitions =>
             /\ posts[p].status # "absent" /\ ~PlainAuthor(a)
             /\ reqs[r].new.status = StatusOf[reqs[r].op]

\* No reader is ahead of content_version.
Behind(c) ==
    /\ clients[c].seen <= version
    /\ clients[c].etag # NoTag => clients[c].etag <= version

PostsInv ==
    /\ \A r \in Req : Backed(r)
    /\ \A c \in Client : Behind(c)
    /\ CurrentTagIsComplete

LEMMA PostsInit == Init => PostsInv
  BY PostsAssumption, DefaultTypes
  DEF Init, PostsInv, Backed, Behind, CurrentTagIsComplete, Transitions

\* What a write does to the rows, whatever the rows were when it was computed.
WritesRow(r, p) ==
    /\ \A q \in Post \ {p} : posts'[q] = posts[q]
    /\ posts[p].status = "absent" /\ posts'[p] # posts[p] =>
         reqs[r].op = "create" /\ posts'[p].status = "draft"
    /\ posts[p].status # "absent" =>
         /\ posts'[p].status # "absent"
         /\ Live(p)' => Live(p) /\ posts'[p].author = posts[p].author
    /\ posts'[p] # posts[p] /\ posts[p].status # "absent" /\ PlainAuthor(reqs[r].actor)
         => /\ posts[p].author = reqs[r].actor.user \/ ~Live(p)
            /\ posts'[p].status = "published" => posts[p].status = "published"
    /\ version' = version \/ version' = version + 1
    /\ \/ version' = version + 1
       \/ Live(p)' => ShownAs(p)' = ShownAs(p)

LEMMA WritesOneRow ==
  ASSUME TypeOK, PostsInv, NEW r \in Req, Writes(r), NEW p \in Post, p = reqs[r].post
  PROVE  WritesRow(r, p) /\ Ends(r)
  <1> DEFINE new == reqs[r].new
  <1>0. /\ posts \in [Post -> Row] /\ posts[p] \in Row /\ version \in Nat
        /\ new \in Row /\ new.status \in Statuses \cup {"absent", "deleted"}
    BY PendingTypes DEF TypeOK
  <1>1. Backed(r)
    BY DEF PostsInv
  <1>n. new = reqs[r].new
    OBVIOUS
  <1> HIDE DEF new
  <1>2. ASSUME posts' = posts, version' = version
        PROVE  WritesRow(r, p)
    BY <1>0, <1>2 DEF WritesRow, Live, ShownAs, Published, PublicEntry
  <1>3. CASE CreateWrite(r)
    <2>1. CASE Rollback
      BY <1>2, <1>3, <2>1, <1>n DEF Rollback, CreateWrite
    <2>2. CASE posts' = [posts EXCEPT ![p] = new] /\ NoPurge
      <3>1. /\ posts[p].status = "absent" /\ new.status = "draft" /\ reqs[r].op = "create"
            /\ version' = version /\ posts'[p] = new
            /\ \A q \in Post \ {p} : posts'[q] = posts[q]
        BY <1>0, <1>1, <1>3, <1>n, <2>2 DEF Backed, CreateWrite, NoPurge
      <3>2. ShownAs(p) = {} /\ ShownAs(p)' = {}
        BY <1>0, <3>1 DEF ShownAs, Published
      <3> QED BY <1>0, <1>3, <1>n, <3>1, <3>2 DEF WritesRow, CreateWrite
    <2> QED BY <1>3, <1>n, <2>1, <2>2 DEF CreateWrite
  <1>4. CASE UpdateWrite(r)
    <2>1. CASE Rollback
      BY <1>2, <1>4, <2>1, <1>n DEF Rollback, UpdateWrite
    <2>2. CASE /\ Live(p)
               /\ posts' = [posts EXCEPT ![p].slug = new.slug, ![p].text = new.text,
                                         ![p].html = new.html]
               /\ IF posts[p].status = "published" THEN purge ELSE NoPurge
      <3>1. /\ posts'[p].status = posts[p].status /\ posts'[p].author = posts[p].author
            /\ \A q \in Post \ {p} : posts'[q] = posts[q]
        BY <1>0, <2>2 DEF Row
      <3>2. posts[p].status # "absent" /\ reqs[r].op = "update"
        BY <1>4, <2>2 DEF UpdateWrite, Live, Statuses
      <3>3. PlainAuthor(reqs[r].actor) => posts[p].author = reqs[r].actor.user
        BY <1>1, <1>n, <2>2, <3>2 DEF Backed
      <3>4. \/ version' = version + 1
            \/ version' = version /\ ShownAs(p) = {} /\ ShownAs(p)' = {}
        BY <1>0, <2>2, <3>1 DEF purge, NoPurge, ShownAs, Published
      <3>5. WritesRow(r, p)
        BY <1>0, <2>2, <3>1, <3>2, <3>3, <3>4 DEF WritesRow, Live
      <3> QED BY <1>4, <1>n, <3>5 DEF UpdateWrite
    <2> QED BY <1>4, <1>n, <2>1, <2>2 DEF UpdateWrite
  <1>5. CASE transitionWrite(r)
    <2>1. CASE Rollback
      BY <1>2, <1>5, <2>1, <1>n DEF Rollback, transitionWrite
    <2>2. CASE /\ Live(p)
               /\ posts' = [posts EXCEPT ![p].status = new.status, ![p].html = new.html]
               /\ purge
      <3>1. /\ posts'[p].author = posts[p].author
            /\ \A q \in Post \ {p} : posts'[q] = posts[q]
            /\ posts'[p].status = new.status
        BY <1>0, <2>2 DEF Row
      <3>2. posts[p].status # "absent" /\ ~PlainAuthor(reqs[r].actor)
        BY <1>1, <1>5, <2>2, TransitionOps DEF transitionWrite, Live, Statuses, Backed
      <3>3. version' = version + 1
        BY <2>2 DEF purge
      <3>4. new.status # "absent"
        BY <1>1, <1>5, <1>n, TransitionOps DEF transitionWrite, Backed, Statuses
      <3>5. WritesRow(r, p)
        BY <1>0, <2>2, <3>1, <3>2, <3>3, <3>4 DEF WritesRow, Live
      <3> QED BY <1>5, <1>n, <3>5 DEF transitionWrite
    <2> QED BY <1>5, <1>n, <2>1, <2>2 DEF transitionWrite
  <1>6. CASE DeleteWrite(r)
    <2>0. reqs[r].op = "delete" /\ version' = version
      BY <1>6 DEF DeleteWrite, NoPurge
    <2>1. CASE ~Live(p)
      <3>1. posts' = posts
        BY <1>0, <1>6, <1>n, <2>1 DEF DeleteWrite
      <3> QED BY <1>2, <1>6, <1>n, <2>0, <3>1 DEF DeleteWrite
    <2>2. CASE Live(p)
      <3>1. /\ posts'[p].status = "deleted"
            /\ \A q \in Post \ {p} : posts'[q] = posts[q]
        BY <1>0, <1>6, <1>n, <2>2, DefaultTypes DEF DeleteWrite, Row
      <3>2. posts[p].status # "absent" /\ ~Live(p)'
        BY <2>2, <3>1 DEF Live, Statuses
      <3>3. PlainAuthor(reqs[r].actor) => posts[p].author = reqs[r].actor.user
        BY <1>1, <1>n, <2>0, <2>2 DEF Backed
      <3>4. WritesRow(r, p)
        BY <1>0, <2>0, <3>1, <3>2, <3>3 DEF WritesRow
      <3> QED BY <1>6, <1>n, <3>4 DEF DeleteWrite
    <2> QED BY <2>1, <2>2
  <1> QED BY <1>3, <1>4, <1>5, <1>6, <1>n DEF Writes

\* A reader whose tag is current is shown no entry that it does not have, unless
\* the version has gone past its tag.
LEMMA TagsKept ==
  ASSUME TypeOK, PostsInv, clients' = clients,
         \/ version' = version + 1
         \/ version' = version /\ PublicList' \subseteq PublicList
  PROVE  CurrentTagIsComplete' /\ \A c \in Client : Behind(c)'
  <1>1. /\ version \in Nat /\ NoTag \notin Nat
        /\ \A c \in Client : clients[c].seen \in Nat /\ clients[c].etag \in Nat \cup {NoTag}
    BY PostsAssumption DEF TypeOK, Reader
  <1>2. ASSUME NEW c \in Client
        PROVE  Behind(c)'
    BY <1>1 DEF PostsInv, Behind
  <1>3. ASSUME NEW c \in Client, clients[c].etag = version'
        PROVE  PublicList' \subseteq clients[c].body
    <2>1. version' = version
      BY <1>1, <1>3 DEF PostsInv, Behind
    <2> QED BY <1>1, <1>3, <2>1 DEF PostsInv, CurrentTagIsComplete
  <1> QED BY <1>2, <1>3 DEF CurrentTagIsComplete

\* A write leaves the list alone, shrinks it, or bumps content_version.
LEMMA WriteShows ==
  ASSUME NEW r \in Req, NEW p \in Post, WritesRow(r, p)
  PROVE  \/ version' = version + 1
         \/ version' = version /\ PublicList' \subseteq PublicList
  <1> SUFFICES ASSUME version' = version, version' # version + 1
               PROVE  PublicList' \subseteq PublicList
    BY DEF WritesRow
  <1>1. \A q \in Post \ {p} : /\ q \in Published' <=> q \in Published
                              /\ PublicEntry(q)' = PublicEntry(q)
    BY DEF WritesRow, Published, PublicEntry
  <1>2. p \in Published' => p \in Published /\ PublicEntry(p)' = PublicEntry(p)
    <2> SUFFICES ASSUME p \in Published'
                 PROVE  p \in Published /\ PublicEntry(p)' = PublicEntry(p)
      OBVIOUS
    <2>1. Live(p)'
      BY DEF Live, Published, Statuses
    <2>2. ShownAs(p)' = ShownAs(p)
      BY <2>1 DEF WritesRow
    <2> QED BY <2>2 DEF ShownAs
  <1> QED BY <1>1, <1>2 DEF PublicList, Published

\* A request's write leaves what the others have read as true as it has to be.
LEMMA WriteBacks ==
  ASSUME TypeOK, PostsInv, NEW r \in Req, NEW p \in Post, p = reqs[r].post,
         WritesRow(r, p), Ends(r)
  PROVE  \A q \in Req : Backed(q)'
  <1> SUFFICES ASSUME NEW q \in Req PROVE Backed(q)'
    OBVIOUS
  <1>1. /\ reqs'[r].op = "idle" /\ \A s \in Req \ {r} : reqs'[s] = reqs[s]
    BY EndsOne
  <1>2. CASE q = r
    BY <1>1, <1>2 DEF Backed, Transitions
  <1>3. CASE q # r
    <2>1. PICK o \in Post : o = reqs[q].post
      BY PendingTypes
    <2>2. Backed(q) /\ Backed(r) /\ reqs'[q] = reqs[q]
      BY <1>1, <1>3 DEF PostsInv
    <2>3. ASSUME reqs[q].op = "create"
          PROVE  posts'[o].status = "absent"
      <3>1. posts[o].status = "absent"
        BY <2>1, <2>2, <2>3 DEF Backed
      <3>2. CASE o # p
        BY <3>1, <3>2 DEF WritesRow
      <3>3. CASE o = p
        <4>1. reqs[r].op # "create"
          BY <1>3, <2>1, <2>2, <2>3, <3>3 DEF Backed
        <4> QED BY <3>1, <3>3, <4>1 DEF WritesRow
      <3> QED BY <3>2, <3>3
    <2>4. ASSUME reqs[q].op \in {"update", "delete"} \cup Transitions
          PROVE  /\ posts'[o].status # "absent"
                 /\ Live(o)' => Live(o) /\ posts'[o].author = posts[o].author
      <3>1. posts[o].status # "absent"
        BY <2>1, <2>2, <2>4 DEF Backed
      <3>2. CASE o # p
        BY <3>1, <3>2 DEF WritesRow, Live
      <3>3. CASE o = p
        BY <3>1, <3>3 DEF WritesRow
      <3> QED BY <3>2, <3>3
    <2>5. \A s \in Req \ {q} : reqs'[s].op = "create" => reqs[s].op = "create" /\ reqs'[s] = reqs[s]
      BY <1>1
    <2>6. reqs[q].op = "create" =>
             /\ posts'[o].status = "absent" /\ reqs[q].new.status = "draft"
             /\ \A s \in Req \ {q} : reqs'[s].op = "create" => reqs'[s].post # o
      BY <2>1, <2>2, <2>3, <2>5 DEF Backed
    <2>7. reqs[q].op \in {"update", "delete"} =>
             /\ posts'[o].status # "absent"
             /\ PlainAuthor(reqs[q].actor) /\ Live(o)' => posts'[o].author = reqs[q].actor.user
      BY <2>1, <2>2, <2>4 DEF Backed
    <2>8. reqs[q].op \in Transitions =>
            /\ posts'[o].status # "absent" /\ ~PlainAuthor(reqs[q].actor)
            /\ reqs[q].new.status = StatusOf[reqs[q].op]
      BY <2>1, <2>2, <2>4 DEF Backed
    <2> QED BY <2>1, <2>2, <2>6, <2>7, <2>8 DEF Backed, Live
  <1> QED BY <1>2, <1>3

\* What a request reads backs it.
LEMMA ReadBacks ==
  ASSUME TypeOK, PostsInv, NEW r \in Req, Reads(r)
  PROVE  /\ \A q \in Req : Backed(q)'
         /\ UNCHANGED <<posts, version, clients>>
         /\ reqs'[r].op # "idle" /\ \A q \in Req \ {r} : reqs'[q] = reqs[q]
  <1>0. reqs \in [Req -> Request]
    BY DEF TypeOK
  <1>1. PICK op \in Ops \ {"idle"}, a \in Actor, p \in Post, new \in Row :
          Pending(r, op, a, p, new)
    BY ReadsType
  <1>2. /\ reqs'[r] = [op |-> op, actor |-> a, post |-> p, new |-> new]
        /\ \A q \in Req \ {r} : reqs'[q] = reqs[q]
        /\ reqs[r].op = "idle" /\ UNCHANGED <<posts, version, clients>>
    BY <1>0, <1>1 DEF Pending
  <1>3. /\ reqs'[r].op = op /\ reqs'[r].actor = a /\ reqs'[r].post = p /\ reqs'[r].new = new
    BY <1>2
  <1>4. PICK b \in Actor, o \in Post :
        \/ \E base \in Base, text \in Text, meta \in Meta \cup {FALSE} :
              CreateRead(r, b, o, base, text, meta)
        \/ \E text \in Text \cup {Keep}, base \in Base \cup {Keep}, meta \in Meta \cup {Keep} :
              UpdateRead(r, b, o, text, base, meta)
        \/ \E op2 \in DOMAIN StatusOf : transitionRead(r, b, o, op2)
        \/ DeleteRead(r, b, o)
    BY DEF Reads
  <1>5. ASSUME NEW op2, NEW w, Pending(r, op2, b, o, w)
        PROVE  op = op2 /\ a = b /\ p = o /\ new = w
    <2>1. reqs'[r] = [op |-> op2, actor |-> b, post |-> o, new |-> w]
      BY <1>0, <1>5 DEF Pending
    <2> QED BY <1>2, <2>1
  <1>6. /\ op = "create" => /\ posts[p].status = "absent" /\ new.status = "draft"
                            /\ \A q \in Req : reqs[q].op = "create" => reqs[q].post # p
        /\ op \in {"update", "delete"} =>
             /\ posts[p].status # "absent"
             /\ PlainAuthor(a) /\ Live(p) => posts[p].author = a.user
        /\ op \in Transitions => /\ posts[p].status # "absent" /\ ~PlainAuthor(a)
                                 /\ new.status = StatusOf[op]
    <2>1. CASE \E base \in Base, text \in Text, meta \in Meta \cup {FALSE} :
                 CreateRead(r, b, o, base, text, meta)
      <3>1. PICK base \in Base, text \in Text, meta \in Meta \cup {FALSE} :
              CreateRead(r, b, o, base, text, meta)
        BY <2>1
      <3> DEFINE w == [status |-> "draft", author |-> b.user, slug |-> uniqueSlug(b, base),
                       text |-> text, meta |-> meta, html |-> render(text, meta)]
      <3>2. Pending(r, "create", b, o, w)
        BY <3>1 DEF CreateRead
      <3>3. op = "create" /\ p = o /\ new.status = "draft"
        BY <1>5, <3>2
      <3> QED BY <3>1, <3>3 DEF CreateRead, Transitions
    <2>2. CASE \E text \in Text \cup {Keep}, base \in Base \cup {Keep}, meta \in Meta \cup {Keep} :
                 UpdateRead(r, b, o, text, base, meta)
      <3>1. op = "update" /\ p = o /\ a = b /\ MayWrite(b, o)
        BY <1>5, <2>2 DEF UpdateRead
      <3> QED BY <3>1 DEF MayWrite, OwnsPost, Live, Statuses, Transitions
    <2>3. CASE \E op2 \in DOMAIN StatusOf : transitionRead(r, b, o, op2)
      <3>1. PICK op2 \in Transitions : transitionRead(r, b, o, op2)
        BY <2>3, TransitionOps
      <3> DEFINE w == [NoPost EXCEPT !.status = StatusOf[op2],
                                     !.html = render(posts[o].text, posts[o].meta)]
      <3>2. Pending(r, op2, b, o, w) /\ Can(b, "PublishArchive") /\ posts[o].status # "absent"
        BY <3>1 DEF transitionRead, Live, Statuses
      <3>3. op = op2 /\ a = b /\ p = o /\ new = w
        BY <1>5, <3>2
      <3>4. ~PlainAuthor(b)
        BY <3>2 DEF Can, PlainAuthor, RoleFor, RoleEditor, RoleAuthor
      <3>5. w.status = StatusOf[op2]
        BY DefaultTypes DEF Row
      <3> QED BY <3>2, <3>3, <3>4, <3>5, TransitionOps DEF Transitions
    <2>4. CASE DeleteRead(r, b, o)
      <3>1. op = "delete" /\ p = o /\ a = b /\ MayWrite(b, o)
        BY <1>5, <2>4 DEF DeleteRead
      <3> QED BY <3>1 DEF MayWrite, OwnsPost, Live, Statuses, Transitions
    <2> QED BY <1>4, <2>1, <2>2, <2>3, <2>4
  <1>7. Backed(r)'
    BY <1>2, <1>3, <1>6 DEF Backed, Live
  <1>8. ASSUME NEW q \in Req, q # r
        PROVE  Backed(q)'
    <2>1. Backed(q) /\ reqs'[q] = reqs[q]
      BY <1>2, <1>8 DEF PostsInv
    <2>2. reqs[q].op = "create" => \A s \in Req \ {q} : reqs'[s].op = "create"
                                                        => reqs'[s].post # reqs[q].post
      <3> SUFFICES ASSUME reqs[q].op = "create", NEW s \in Req \ {q},
                          reqs'[s].op = "create"
                   PROVE  reqs'[s].post # reqs[q].post
        OBVIOUS
      <3>1. CASE s = r
        BY <1>3, <1>6, <3>1
      <3>2. CASE s # r
        BY <1>2, <2>1, <3>2 DEF Backed
      <3> QED BY <3>1, <3>2
    <2> QED BY <1>2, <2>1, <2>2 DEF Backed, Live
  <1> QED BY <1>2, <1>3, <1>7, <1>8

LEMMA PostsStep == TypeOK /\ PostsInv /\ [Next]_vars => PostsInv'
  <1> SUFFICES ASSUME TypeOK, PostsInv, [Next]_vars PROVE PostsInv'
    OBVIOUS
  <1>0. /\ version \in Nat /\ clients \in [Client -> Reader] /\ NoTag \notin Nat
        /\ \A c \in Client : clients[c].seen \in Nat /\ clients[c].etag \in Nat \cup {NoTag}
    BY PostsAssumption DEF TypeOK, Reader
  <1>k. ASSUME UNCHANGED <<posts, reqs>>
        PROVE  (\A r \in Req : Backed(r)') /\ PublicList' = PublicList
    BY <1>k DEF PostsInv, Backed, Live, PublicList, Published, PublicEntry
  <1>1. ASSUME NEW r \in Req, Reads(r)
        PROVE  PostsInv'
    <2>1. UNCHANGED <<posts, version, clients>> /\ \A q \in Req : Backed(q)'
      BY <1>1, ReadBacks
    <2>2. PublicList' = PublicList
      BY <2>1 DEF PublicList, Published, PublicEntry
    <2> QED BY <2>1, <2>2, TagsKept DEF PostsInv
  <1>2. ASSUME NEW r \in Req, Writes(r)
        PROVE  PostsInv'
    <2>1. PICK p \in Post : p = reqs[r].post
      BY PendingTypes
    <2>2. WritesRow(r, p) /\ Ends(r)
      BY <1>2, <2>1, WritesOneRow
    <2>3. \A q \in Req : Backed(q)'
      BY <2>1, <2>2, WriteBacks
    <2>4. CurrentTagIsComplete' /\ \A c \in Client : Behind(c)'
      BY <2>2, WriteShows, EndsOne, TagsKept
    <2> QED BY <2>3, <2>4 DEF PostsInv
  <1>3. CASE TenantUpdate \/ PurgeRuns
    <2>1. UNCHANGED <<posts, reqs, clients>> /\ (version' = version + 1 \/ version' = version)
      BY <1>3 DEF TenantUpdate, PurgeRuns, purge
    <2> QED BY <1>k, <2>1, TagsKept DEF PostsInv
  <1>4. ASSUME NEW c \in Client, ListVersion(c)
        PROVE  PostsInv'
    <2>1. /\ UNCHANGED <<posts, version, reqs>>
          /\ clients'[c].seen = version
          /\ clients'[c].etag = clients[c].etag /\ clients'[c].body = clients[c].body
          /\ \A d \in Client \ {c} : clients'[d] = clients[d]
      BY <1>0, <1>4 DEF ListVersion, Reader
    <2>2. \A d \in Client : Behind(d)'
      BY <1>0, <2>1 DEF PostsInv, Behind
    <2>3. CurrentTagIsComplete'
      BY <1>k, <2>1 DEF PostsInv, CurrentTagIsComplete
    <2> QED BY <1>k, <2>1, <2>2, <2>3 DEF PostsInv
  <1>5. ASSUME NEW c \in Client, ListRows(c)
        PROVE  PostsInv'
    <2>1. /\ UNCHANGED <<posts, version, reqs>>
          /\ clients'[c].seen = 0
          /\ clients'[c].etag = clients[c].seen
          /\ clients'[c].body = IF clients[c].etag = clients[c].seen THEN clients[c].body
                                ELSE PublicList
          /\ \A d \in Client \ {c} : clients'[d] = clients[d]
      BY <1>0, <1>5 DEF ListRows, Reader
    <2>2. \A d \in Client : Behind(d)'
      BY <1>0, <2>1 DEF PostsInv, Behind
    <2>3. PublicList' = PublicList
      BY <1>k, <2>1
    <2>4. ASSUME NEW d \in Client, clients'[d].etag = version
          PROVE  PublicList \subseteq clients'[d].body
      BY <2>1, <2>4 DEF PostsInv, CurrentTagIsComplete
    <2>5. CurrentTagIsComplete'
      BY <2>1, <2>3, <2>4 DEF CurrentTagIsComplete
    <2> QED BY <1>k, <2>1, <2>2, <2>5 DEF PostsInv
  <1>6. CASE UNCHANGED vars
    <2>1. UNCHANGED <<posts, version, reqs, clients>>
      BY <1>6 DEF vars
    <2> QED BY <1>k, <2>1, TagsKept DEF PostsInv
  <1> QED BY <1>1, <1>2, <1>3, <1>4, <1>5, <1>6 DEF Next

LEMMA PostsInvariant == Spec => []PostsInv
  BY PostsInit, PostsStep, PostsTypeCorrect, PTL DEF Spec

\* CurrentTagIsComplete: whoever would be answered 304 has every published entry,
\* although fetchPage reads the version and the rows in two statements.
THEOREM CurrentTagsAreComplete == Spec => []CurrentTagIsComplete
  <1>1. PostsInv => CurrentTagIsComplete
    BY DEF PostsInv
  <1> QED BY <1>1, PostsInvariant, PTL

\* PublicChangeBumps: whether to bump is decided on the row as it is written, so
\* no interleaving changes the list without a bump.
THEOREM PublicChangesBump == Spec => PublicChangeBumps
  <1>1. TypeOK /\ PostsInv /\ [Next]_vars => [ChangesBump]_vars
    <2> SUFFICES ASSUME TypeOK, PostsInv, Next, NEW o \in Post, Live(o)',
                        ShownAs(o)' # ShownAs(o)
                 PROVE  version' > version
      BY DEF ChangesBump
    <2>1. ASSUME posts' = posts PROVE FALSE
      BY <2>1 DEF ShownAs, Published, PublicEntry
    <2>2. PICK r \in Req : Writes(r)
      BY <2>1, ReadBacks DEF Next, TenantUpdate, PurgeRuns, ListVersion, ListRows
    <2>3. PICK p \in Post : p = reqs[r].post
      BY PendingTypes
    <2>4. WritesRow(r, p)
      BY <2>2, <2>3, WritesOneRow
    <2>5. o = p
      BY <2>4 DEF WritesRow, ShownAs, Published, PublicEntry
    <2>6. version' = version + 1 /\ version \in Nat
      BY <2>4, <2>5 DEF WritesRow, TypeOK
    <2> QED BY <2>6
  <1> QED BY <1>1, PostsTypeCorrect, PostsInvariant, PTL DEF Spec, PublicChangeBumps

\* AuthorConfined: what a plain author's request was allowed on the row it read it
\* is still allowed on the row it writes.
THEOREM AuthorsAreConfined == Spec => AuthorConfined
  <1>1. TypeOK /\ PostsInv /\ [Next]_vars => [\A r \in Req : Confined(r)]_vars
    <2> SUFFICES ASSUME TypeOK, PostsInv, Next, NEW r \in Req,
                        reqs[r].op # "idle", reqs'[r].op = "idle",
                        PlainAuthor(reqs[r].actor), NEW o \in Post
                 PROVE  /\ posts'[o] # posts[o] /\ Live(o) => posts[o].author = reqs[r].actor.user
                        /\ posts'[o].status = "published" => posts[o].status = "published"
      BY DEF Confined
    <2>1. reqs' # reqs
      OBVIOUS
    <2>2. ~\E q \in Req : Reads(q)
      <3> SUFFICES ASSUME NEW q \in Req, Reads(q) PROVE FALSE
        OBVIOUS
      <3>1. reqs'[q].op # "idle" /\ \A s \in Req \ {q} : reqs'[s] = reqs[s]
        BY ReadBacks
      <3> QED BY <3>1
    <2>3. PICK q \in Req : Writes(q)
      BY <2>1, <2>2 DEF Next, TenantUpdate, PurgeRuns, ListVersion, ListRows
    <2>4. PICK p \in Post : p = reqs[q].post
      BY PendingTypes
    <2>5. WritesRow(q, p) /\ Ends(q)
      BY <2>3, <2>4, WritesOneRow
    <2>6. q = r
      BY <2>5, EndsOne
    <2>7. CASE o # p
      BY <2>5, <2>7 DEF WritesRow
    <2>8. CASE o = p /\ posts[p].status = "absent"
      BY <2>5, <2>8 DEF WritesRow, Live, Statuses
    <2>9. CASE o = p /\ posts[p].status # "absent"
      BY <2>5, <2>6, <2>9 DEF WritesRow
    <2> QED BY <2>7, <2>8, <2>9
  <1> QED BY <1>1, PostsTypeCorrect, PostsInvariant, PTL DEF Spec, AuthorConfined

-----------------------------------------------------------------------------
(* What races change. *)

\* What a request has read is still so when it writes, as far as no write that
\* could change it has come in between.
Current(r) ==
    LET p   == reqs[r].post
        new == reqs[r].new
    IN  /\ reqs[r].op \in {"create", "update"} => new.html.text = new.text
        /\ reqs[r].op = "update" /\ since[r] = {} /\ posts[p].status = "published"
             => new.slug = posts[p].slug
        /\ reqs[r].op \in Transitions /\ "update" \notin since[r] /\ Live(p)
             => new.html.text = posts[p].text

AllCurrent == \A r \in Req : Current(r)

LEMMA DefaultMatches == NoPost.html.text = NoPost.text
  BY DEF NoPost, render

\* What a request reads is current.
LEMMA ReadIsCurrent ==
  ASSUME TypeOK, NEW r \in Req, Reads(r)
  PROVE  Current(r)' /\ posts' = posts
  <1>0. reqs \in [Req -> Request]
    BY DEF TypeOK
  <1>1. PICK a \in Actor, p \in Post :
        \/ \E base \in Base, text \in Text, meta \in Meta \cup {FALSE} :
              CreateRead(r, a, p, base, text, meta)
        \/ \E text \in Text \cup {Keep}, base \in Base \cup {Keep}, meta \in Meta \cup {Keep} :
              UpdateRead(r, a, p, text, base, meta)
        \/ \E op \in DOMAIN StatusOf : transitionRead(r, a, p, op)
        \/ DeleteRead(r, a, p)
    BY DEF Reads
  <1>2. ASSUME NEW op, NEW w, Pending(r, op, a, p, w)
        PROVE  /\ reqs'[r].op = op /\ reqs'[r].post = p /\ reqs'[r].new = w
               /\ posts' = posts
    BY <1>0, <1>2 DEF Pending
  <1>3. ASSUME NEW base \in Base, NEW text \in Text, NEW meta \in Meta \cup {FALSE},
               CreateRead(r, a, p, base, text, meta)
        PROVE  Current(r)' /\ posts' = posts
    <2> DEFINE w == [status |-> "draft", author |-> a.user, slug |-> uniqueSlug(a, base),
                     text |-> text, meta |-> meta, html |-> render(text, meta)]
    <2>1. Pending(r, "create", a, p, w)
      BY <1>3 DEF CreateRead
    <2>2. w.html.text = w.text
      BY DEF render
    <2> HIDE DEF w
    <2> QED BY <1>2, <2>1, <2>2 DEF Current, Transitions
  <1>4. ASSUME NEW text \in Text \cup {Keep}, NEW base \in Base \cup {Keep},
               NEW meta \in Meta \cup {Keep}, UpdateRead(r, a, p, text, base, meta)
        PROVE  Current(r)' /\ posts' = posts
    <2> DEFINE slug == IF base = Keep THEN posts[p].slug ELSE uniqueSlug(a, base)
               txt  == Given(text, posts[p].text)
               html == render(txt, Given(meta, posts[p].meta))
               w == [NoPost EXCEPT !.status = posts[p].status, !.slug = slug,
                                   !.text = txt, !.html = html]
    <2>1. Pending(r, "update", a, p, w) /\ (base # Keep => posts[p].status # "published")
      BY <1>4 DEF UpdateRead
    <2>2. html.text = txt
      BY DEF render
    <2>3. w.html = html /\ w.text = txt /\ w.slug = slug
      <3> HIDE DEF html, txt, slug
      <3> QED BY DefaultTypes DEF Row
    <2>4. posts[p].status = "published" => slug = posts[p].slug
      BY <2>1
    <2> HIDE DEF w, html, txt, slug
    <2> QED BY <1>2, <2>1, <2>2, <2>3, <2>4 DEF Current, Transitions
  <1>5. ASSUME NEW op \in Transitions, transitionRead(r, a, p, op)
        PROVE  Current(r)' /\ posts' = posts
    <2> DEFINE html == render(posts[p].text, posts[p].meta)
               w == [NoPost EXCEPT !.status = StatusOf[op], !.html = html]
    <2>1. Pending(r, op, a, p, w)
      BY <1>5 DEF transitionRead
    <2>2. html.text = posts[p].text
      BY DEF render
    <2>3. w.html = html
      <3> HIDE DEF html
      <3> QED BY DefaultTypes DEF Row
    <2> HIDE DEF w, html
    <2> QED BY <1>2, <2>1, <2>2, <2>3 DEF Current, Transitions
  <1>6. ASSUME DeleteRead(r, a, p)
        PROVE  Current(r)' /\ posts' = posts
    BY <1>2, <1>6 DEF DeleteRead, Current, Transitions
  <1> QED BY <1>1, <1>3, <1>4, <1>5, <1>6, TransitionOps

\* What the writes of each operation leave alone in a row that was there.
LEMMA WriteSpares ==
  ASSUME TypeOK, PostsInv, NEW r \in Req, Writes(r), NEW p \in Post, p = reqs[r].post,
         posts[p].status # "absent"
  PROVE  /\ reqs[r].op # "update" /\ Live(p)' => posts'[p].text = posts[p].text
         /\ reqs[r].op \notin {"publish", "update"} /\ posts'[p].status = "published"
              => posts[p].status = "published" /\ posts'[p].slug = posts[p].slug
  <1> DEFINE new == reqs[r].new
  <1>1. /\ posts \in [Post -> Row] /\ posts[p] \in Row /\ new \in Row
        /\ Backed(r) /\ new = reqs[r].new
    BY PendingTypes DEF TypeOK, PostsInv
  <1> HIDE DEF new
  <1>2. CASE posts' = posts
    BY <1>2
  <1>3. CASE CreateWrite(r)
    BY <1>1, <1>3 DEF CreateWrite, Backed
  <1>4. CASE UpdateWrite(r)
    BY <1>4 DEF UpdateWrite
  <1>5. CASE transitionWrite(r)
    <2>1. CASE posts' = [posts EXCEPT ![p].status = new.status, ![p].html = new.html]
      <3>1. /\ posts'[p].text = posts[p].text /\ posts'[p].slug = posts[p].slug
            /\ posts'[p].status = new.status
        BY <1>1, <2>1 DEF Row
      <3>2. new.status = StatusOf[reqs[r].op] /\ reqs[r].op \in Transitions
        BY <1>1, <1>5, TransitionOps DEF transitionWrite, Backed
      <3>3. reqs[r].op # "publish" => new.status # "published"
        BY <3>2 DEF StatusOf, Transitions
      <3> QED BY <3>1, <3>3
    <2> QED BY <1>1, <1>2, <1>5, <2>1 DEF transitionWrite, Rollback
  <1>6. CASE DeleteWrite(r)
    <2>1. CASE Live(p)
      <3>1. posts'[p].status = "deleted"
        BY <1>1, <1>6, <2>1, DefaultTypes DEF DeleteWrite, Row
      <3> QED BY <3>1 DEF Live, Statuses
    <2>2. CASE ~Live(p)
      <3>1. posts' = posts
        BY <1>1, <1>6, <2>2 DEF DeleteWrite
      <3> QED BY <1>2, <3>1
    <2> QED BY <2>1, <2>2
  <1> QED BY <1>3, <1>4, <1>5, <1>6 DEF Writes

\* A write overtakes the requests on its row, and what they have read stays
\* current or is marked.
LEMMA WriteMarks ==
  ASSUME TypeOK, PostsInv, AllCurrent, NEW r \in Req, Writes(r), NEW q \in Req
  PROVE  Current(q)'
  <1>1. PICK p \in Post : p = reqs[r].post
    BY PendingTypes
  <1>2. PICK o \in Post : o = reqs[q].post
    BY PendingTypes
  <1>3. WritesRow(r, p) /\ Ends(r) /\ Current(q) /\ Backed(q)
    BY <1>1, WritesOneRow DEF AllCurrent, PostsInv
  <1>4. /\ reqs'[r].op = "idle" /\ \A s \in Req \ {r} : reqs'[s] = reqs[s]
    BY <1>3, EndsOne
  <1>5. CASE q = r
    BY <1>4, <1>5 DEF Current, Transitions
  <1>6. CASE q # r /\ (posts' = posts \/ o # p)
    <2>1. posts'[o] = posts[o] /\ since'[q] = since[q] /\ reqs'[q] = reqs[q]
      BY <1>1, <1>2, <1>3, <1>4, <1>6 DEF WritesRow, Ends, Overtakes
    <2> QED BY <1>2, <1>3, <2>1 DEF Current, Live
  <1>7. CASE q # r /\ o = p /\ posts' # posts
    <2>1. reqs'[q] = reqs[q]
      BY <1>4, <1>7
    <2>2. reqs[q].op # "idle" =>
            since'[q] = since[q] \cup ({reqs[r].op} \cap {"publish", "update"})
      BY <1>1, <1>2, <1>3, <1>7 DEF Ends, Overtakes
    <2>3. reqs[q].op \in {"update"} \cup Transitions => posts[p].status # "absent"
      BY <1>2, <1>3, <1>7 DEF Backed
    <2>4. ASSUME reqs[q].op = "update", since'[q] = {}, posts'[p].status = "published"
          PROVE  reqs[q].new.slug = posts'[p].slug
      <3>1. since[q] = {} /\ reqs[r].op \notin {"publish", "update"}
        BY <2>2, <2>4
      <3>2. posts[p].status = "published" /\ posts'[p].slug = posts[p].slug
        BY <1>1, <2>3, <2>4, <3>1, WriteSpares
      <3> QED BY <1>2, <1>3, <1>7, <2>4, <3>1, <3>2 DEF Current
    <2>5. ASSUME reqs[q].op \in Transitions, "update" \notin since'[q], Live(p)'
          PROVE  reqs[q].new.html.text = posts'[p].text
      <3>1. "update" \notin since[q] /\ reqs[r].op # "update"
        BY <2>2, <2>5 DEF Transitions
      <3>2. Live(p) /\ posts'[p].text = posts[p].text
        BY <1>1, <1>3, <2>3, <2>5, <3>1, WriteSpares DEF WritesRow
      <3> QED BY <1>2, <1>3, <1>7, <2>5, <3>1, <3>2 DEF Current
    <2>6. reqs[q].op \in {"create", "update"} => reqs[q].new.html.text = reqs[q].new.text
      BY <1>3 DEF Current
    <2> QED BY <1>2, <1>7, <2>1, <2>4, <2>5, <2>6 DEF Current, Live
  <1> QED BY <1>5, <1>6, <1>7

\* A write of what is current leaves a rendered row, and the slug of a published
\* one.
LEMMA CurrentWrite ==
  ASSUME TypeOK, PostsInv, AllCurrent, NEW r \in Req, Writes(r)
  PROVE  KeepsHtml /\ KeepsSlugs
  <1>1. PICK p \in Post : p = reqs[r].post
    BY PendingTypes
  <1> DEFINE new == reqs[r].new
  <1>2. /\ posts \in [Post -> Row] /\ posts[p] \in Row /\ new \in Row
        /\ Current(r) /\ Backed(r) /\ new = reqs[r].new
    BY PendingTypes DEF TypeOK, AllCurrent, PostsInv
  <1> HIDE DEF new
  <1>3. /\ \A q \in Post \ {p} : posts'[q] = posts[q]
        /\ reqs'[r].op = "idle"
    BY <1>1, WritesOneRow, EndsOne DEF WritesRow
  <1>4. ASSUME \/ posts'[p].html.text = posts'[p].text
               \/ posts'[p].html.text = posts[p].html.text /\ posts'[p].text = posts[p].text
               \/ reqs[r].op \in Transitions /\ "update" \in since[r],
               \/ posts[p].status # "published" \/ posts'[p].status # "published"
               \/ posts'[p].slug = posts[p].slug
               \/ reqs[r].op = "update" /\ since[r] # {},
               reqs[r].op # "idle"
        PROVE  KeepsHtml /\ KeepsSlugs
    <2>1. Ended(r, p)
      BY <1>1, <1>3, <1>4 DEF Ended
    <2>2. KeepsHtml
      <3> SUFFICES ASSUME NEW o \in Post, Rendered(o), ~Rendered(o)'
                   PROVE  o = p /\ reqs[r].op \in Transitions /\ "update" \in since[r]
        BY <2>1, TransitionOps DEF KeepsHtml
      <3> QED BY <1>3, <1>4 DEF Rendered
    <2>3. KeepsSlugs
      <3> SUFFICES ASSUME NEW o \in Published, o \in Published', posts'[o].slug # posts[o].slug
                   PROVE  o = p /\ reqs[r].op = "update" /\ since[r] # {}
        BY <2>1 DEF KeepsSlugs
      <3> QED BY <1>3, <1>4 DEF Published
    <2> QED BY <2>2, <2>3
  <1>5. ASSUME posts' = posts
        PROVE  KeepsHtml /\ KeepsSlugs
    BY <1>5 DEF KeepsHtml, KeepsSlugs, Published, Rendered
  <1>6. CASE CreateWrite(r)
    <2>1. CASE posts' = [posts EXCEPT ![p] = new]
      <3>1. /\ posts'[p] = new /\ posts[p].status = "absent" /\ new.html.text = new.text
            /\ reqs[r].op = "create"
        BY <1>1, <1>2, <1>6, <2>1 DEF CreateWrite, Backed, Current
      <3> QED BY <1>4, <3>1
    <2> QED BY <1>1, <1>2, <1>5, <1>6, <2>1 DEF CreateWrite, Rollback
  <1>7. CASE UpdateWrite(r)
    <2>1. CASE posts' = [posts EXCEPT ![p].slug = new.slug, ![p].text = new.text,
                                      ![p].html = new.html]
      <3>1. /\ posts'[p].html = new.html /\ posts'[p].text = new.text
            /\ posts'[p].slug = new.slug /\ posts'[p].status = posts[p].status
        BY <1>2, <2>1 DEF Row
      <3>2. /\ new.html.text = new.text /\ reqs[r].op = "update"
            /\ posts[p].status = "published" /\ since[r] = {} => new.slug = posts[p].slug
        BY <1>1, <1>2, <1>7 DEF Current, UpdateWrite
      <3> QED BY <1>4, <3>1, <3>2
    <2> QED BY <1>1, <1>2, <1>5, <1>7, <2>1 DEF UpdateWrite, Rollback
  <1>8. CASE transitionWrite(r)
    <2>1. CASE Live(p) /\ posts' = [posts EXCEPT ![p].status = new.status, ![p].html = new.html]
      <3>1. /\ posts'[p].html = new.html /\ posts'[p].text = posts[p].text
            /\ posts'[p].slug = posts[p].slug
        BY <1>2, <2>1 DEF Row
      <3>2. /\ reqs[r].op \in Transitions
            /\ "update" \in since[r] \/ new.html.text = posts[p].text
        BY <1>1, <1>2, <1>8, <2>1, TransitionOps DEF Current, transitionWrite
      <3> QED BY <1>4, <3>1, <3>2 DEF Transitions
    <2> QED BY <1>1, <1>2, <1>5, <1>8, <2>1 DEF transitionWrite, Rollback
  <1>9. CASE DeleteWrite(r)
    <2>1. CASE Live(p)
      <3>1. posts'[p] = [NoPost EXCEPT !.status = "deleted"] /\ reqs[r].op = "delete"
        BY <1>1, <1>2, <1>9, <2>1 DEF DeleteWrite
      <3>2. /\ posts'[p].html = NoPost.html /\ posts'[p].text = NoPost.text
            /\ posts'[p].status = "deleted"
        BY <3>1, DefaultTypes DEF Row
      <3> QED BY <1>4, <3>1, <3>2, DefaultMatches
    <2>2. CASE ~Live(p)
      <3>1. posts' = posts
        BY <1>1, <1>2, <1>9, <2>2 DEF DeleteWrite
      <3> QED BY <1>5, <3>1
    <2> QED BY <2>1, <2>2
  <1> QED BY <1>6, <1>7, <1>8, <1>9 DEF Writes

LEMMA CurrentStep ==
  TypeOK /\ PostsInv /\ AllCurrent /\ [Next]_vars
    => AllCurrent' /\ [KeepsHtml]_vars /\ [KeepsSlugs]_vars
  <1> SUFFICES ASSUME TypeOK, PostsInv, AllCurrent, [Next]_vars
               PROVE  AllCurrent' /\ KeepsHtml /\ KeepsSlugs
    OBVIOUS
  <1>k. ASSUME posts' = posts
        PROVE  KeepsHtml /\ KeepsSlugs
    BY <1>k DEF KeepsHtml, KeepsSlugs, Published, Rendered
  <1>1. ASSUME NEW r \in Req, Reads(r)
        PROVE  AllCurrent' /\ KeepsHtml /\ KeepsSlugs
    <2>1. Current(r)' /\ posts' = posts
      BY <1>1, ReadIsCurrent
    <2>2. since' = since
      BY <1>1, ReadsType DEF Pending
    <2>3. ASSUME NEW q \in Req, q # r
          PROVE  Current(q)'
      <3>1. reqs'[q] = reqs[q] /\ Current(q)
        BY <1>1, <2>3, ReadBacks DEF AllCurrent
      <3> QED BY <2>1, <2>2, <3>1 DEF Current, Live
    <2> QED BY <1>k, <2>1, <2>3 DEF AllCurrent
  <1>2. ASSUME NEW r \in Req, Writes(r)
        PROVE  AllCurrent' /\ KeepsHtml /\ KeepsSlugs
    BY <1>2, CurrentWrite, WriteMarks DEF AllCurrent
  <1>3. ASSUME UNCHANGED <<posts, reqs, since>>
        PROVE  AllCurrent' /\ KeepsHtml /\ KeepsSlugs
    BY <1>k, <1>3 DEF AllCurrent, Current, Live
  <1> QED
    BY <1>1, <1>2, <1>3 DEF Next, vars, TenantUpdate, PurgeRuns, ListVersion, ListRows

LEMMA CurrentInvariant == Spec => []AllCurrent
  <1>1. Init => AllCurrent
    BY DefaultTypes DEF Init, AllCurrent, Current, Transitions
  <1> QED BY <1>1, CurrentStep, PostsTypeCorrect, PostsInvariant, PTL DEF Spec

\* HtmlStaysRendered: the rendering of a post is lost to no interleaving of any
\* number of requests but that of a transition with a PATCH it has not read.
THEOREM HtmlIsLostToOneRace == Spec => HtmlStaysRendered
  BY CurrentInvariant, CurrentStep, PostsTypeCorrect, PostsInvariant, PTL
  DEF Spec, HtmlStaysRendered

\* PublishedSlugStays: the slug of a published post is changed by no interleaving
\* of any number of requests but that of a PATCH with a publication, or another
\* PATCH, that it has not read.
THEOREM SlugIsChangedByOneRace == Spec => PublishedSlugStays
  BY CurrentInvariant, CurrentStep, PostsTypeCorrect, PostsInvariant, PTL
  DEF Spec, PublishedSlugStays
=============================================================================
