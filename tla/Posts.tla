-------------------------------- MODULE Posts --------------------------------
(***************************************************************************)
(* The posts of one tenant: the lifecycle service of internal/posts, the   *)
(* tenant's content_version and purge job, and the readers of the public   *)
(* list of internal/publicapi.                                             *)
(*                                                                         *)
(* Every service call is a READ COMMITTED transaction that reads the row   *)
(* without locking it, decides, and then writes.  Its first write locks    *)
(* the row until commit, so writes and commit are one step here and the    *)
(* reads before them another; other calls may commit in between.  A call   *)
(* that is refused, or rolled back, changes nothing.                       *)
(***************************************************************************)
EXTENDS Authz, FiniteSets

CONSTANTS
    Post,         \* post ids
    User,
    Actor,        \* the principals of requests
    Base,         \* slugs as deriveSlug makes them, without a suffix
    Text,         \* title, excerpt and markdown of a post, as one value
    EmptyText,    \* a text whose markdown is blank
    Keep,         \* a PATCH field that is absent
    Req,          \* requests in flight
    Client,       \* readers of the public list
    NoTag,        \* a reader without a cached page
    Meta,         \* image policies that metadata sent by clients sets; FALSE if none
    MaxVersion    \* bound: no write begins at or beyond this content_version

ASSUME PostsAssumption ==
    /\ Post # {} /\ User # {} /\ Base # {} /\ Actor # {}
    /\ IsFiniteSet(Post)
    /\ Actor \subseteq [user: User, role: Roles, platform: BOOLEAN,
                        tenant: BOOLEAN]
    /\ EmptyText \in Text
    /\ Keep \notin Text \cup Base \cup BOOLEAN
    /\ NoTag \notin Nat
    /\ Meta \subseteq BOOLEAN
    /\ MaxVersion \in Nat

VARIABLES
    posts,     \* the posts table
    version,   \* tenants.content_version
    purgeJob,  \* the jobs row (purge, tenant id): "none", "queued" or "done"
    reqs,      \* admin requests between their reads and their writes
    since,     \* history: what has changed a request's post since it was read
    clients    \* public readers: what they hold, and a request in flight

vars == <<posts, version, purgeJob, reqs, since, clients>>

-----------------------------------------------------------------------------
\* base, base-2, base-3, ...
Slug == Base \X (Nat \ {0})

Html == [text: Text, ext: BOOLEAN]

Statuses == {"draft", "published", "archived"}

\* absent: not inserted yet; deleted: ids are never used again.
Row == [status: Statuses \cup {"absent", "deleted"}, author: User, slug: Slug,
        text: Text, meta: BOOLEAN, html: Html]

Ops == {"idle", "create", "update", "publish", "unpublish", "archive", "delete"}

\* What a transaction has read and computed and is about to write.
Request == [op: Ops, actor: Actor, post: Post, new: Row]

Entry == [post: Post, slug: Slug, text: Text]

\* etag and body are the cached page; seen is the content_version fetchPage
\* has read for the request in flight.
Reader == [phase: {"idle", "rows"}, seen: Nat, etag: Nat \cup {NoTag},
           body: SUBSET Entry]

TypeOK ==
    /\ posts \in [Post -> Row]
    /\ version \in Nat
    /\ purgeJob \in {"none", "queued", "done"}
    /\ reqs \in [Req -> Request]
    /\ since \in [Req -> SUBSET {"publish", "update"}]
    /\ clients \in [Client -> Reader]

-----------------------------------------------------------------------------
\* metadata {"allow_external_images": true} opens the image-host policy.
render(text, meta) == [text |-> text, ext |-> meta]

Live(p) == posts[p].status \in Statuses

SlugExists(slug) == \E p \in Post : Live(p) /\ posts[p].slug = slug

\* Mutant: the suffix counts from 0.
uniqueSlugFromZero(a, base) ==
    <<base, CHOOSE n \in 0..(Cardinality(Post) + 1) :
              /\ ~SlugExists(<<base, n>>)
              /\ \A m \in 0..(n - 1) : SlugExists(<<base, m>>)>>

\* The first free one of base, base-2, ...: the rows are few, so one of the
\* first Cardinality(Post) + 1 is free.  A row is not spared its own slug.  A
\* platform-only actor asks about the nil tenant, where nothing exists.
uniqueSlug(a, base) ==
    IF ~a.tenant
    THEN <<base, 1>>
    ELSE <<base, CHOOSE n \in 1..(Cardinality(Post) + 1) :
                   /\ ~SlugExists(<<base, n>>)
                   /\ \A m \in 1..(n - 1) : SlugExists(<<base, m>>)>>

NoPost == [status |-> "absent", author |-> CHOOSE u \in User : TRUE,
           slug |-> <<CHOOSE b \in Base : TRUE, 1>>, text |-> EmptyText,
           meta |-> FALSE, html |-> render(EmptyText, FALSE)]

NoReq == [op |-> "idle", actor |-> CHOOSE a \in Actor : TRUE,
          post |-> CHOOSE p \in Post : TRUE, new |-> NoPost]

Init ==
    /\ posts = [p \in Post |-> NoPost]
    /\ version = 0
    /\ purgeJob = "none"
    /\ reqs = [r \in Req |-> NoReq]
    /\ since = [r \in Req |-> {}]
    /\ clients = [c \in Client |-> [phase |-> "idle", seen |-> 0,
                                    etag |-> NoTag, body |-> {}]]

\* The reads of request r are done; it is about to write new to post p.
Pending(r, op, a, p, new) ==
    /\ reqs[r].op = "idle"
    /\ version < MaxVersion
    /\ reqs' = [reqs EXCEPT ![r] = [op |-> op, actor |-> a, post |-> p,
                                    new |-> new]]
    /\ UNCHANGED <<posts, version, purgeJob, since, clients>>

\* The write of request r has changed the post that q has read.
Overtakes(r, q) ==
    reqs[q].op # "idle" /\ reqs[q].post = reqs[r].post /\ posts' # posts

Ends(r) ==
    /\ reqs' = [reqs EXCEPT ![r] = NoReq]
    /\ since' = [q \in Req |->
                   IF q = r THEN {}
                   ELSE IF Overtakes(r, q)
                        THEN since[q] \cup ({reqs[r].op} \cap {"publish", "update"})
                        ELSE since[q]]
    /\ UNCHANGED clients

\* The job is inserted with the tenant id as its dedupe key, and ErrDuplicate
\* is swallowed.  Rows of the jobs table are never deleted.
purge ==
    /\ version' = version + 1
    /\ purgeJob' = IF purgeJob = "none" THEN "queued" ELSE purgeJob

NoPurge == UNCHANGED <<version, purgeJob>>

Rollback == UNCHANGED <<posts, version, purgeJob>>

-----------------------------------------------------------------------------
(* Create *)

CreateRead(r, a, p, base, text, meta) ==
    /\ Can(a, "CreateDraft")
    /\ a.tenant
    /\ posts[p].status = "absent"
    /\ \A q \in Req : reqs[q].op = "create" => reqs[q].post # p
    /\ Pending(r, "create", a, p,
         [status |-> "draft", author |-> a.user, slug |-> uniqueSlug(a, base),
          text |-> text, meta |-> meta, html |-> render(text, meta)])

CreateWrite(r) ==
    LET new == reqs[r].new
    IN  /\ reqs[r].op = "create"
        /\ \/ /\ ~SlugExists(new.slug)
              /\ posts' = [posts EXCEPT ![reqs[r].post] = new]
              /\ NoPurge
           \/ SlugExists(new.slug) /\ Rollback      \* ErrSlugTaken
        /\ Ends(r)

-----------------------------------------------------------------------------
(* Update *)

Given(in, old) == IF in = Keep THEN old ELSE in

\* Mutant: the ownership check is missing.
MayWriteAnyOwner(a, p) ==
    /\ Live(p)
    /\ PlainAuthor(a) => posts[p].status = "draft"

MayWrite(a, p) ==
    /\ Live(p)
    /\ OwnsPost(a, posts[p].author)
    /\ PlainAuthor(a) => posts[p].status = "draft"

\* Mutants: the slug of a published post may change; a PATCH does not render.
UpdateReadAnySlug(r, a, p, text, base, meta) ==
    LET old == posts[p]
    IN  /\ Can(a, "EditOwnDraft")
        /\ MayWrite(a, p)
        /\ Pending(r, "update", a, p,
             [NoPost EXCEPT
                !.status = old.status,
                !.slug = IF base = Keep THEN old.slug ELSE uniqueSlug(a, base),
                !.text = Given(text, old.text),
                !.html = render(Given(text, old.text), Given(meta, old.meta))])

UpdateReadNoRender(r, a, p, text, base, meta) ==
    LET old == posts[p]
    IN  /\ Can(a, "EditOwnDraft")
        /\ MayWrite(a, p)
        /\ base # Keep => old.status # "published"       \* ErrSlugImmutable
        /\ Pending(r, "update", a, p,
             [NoPost EXCEPT
                !.status = old.status,
                !.slug = IF base = Keep THEN old.slug ELSE uniqueSlug(a, base),
                !.text = Given(text, old.text),
                !.html = old.html])

UpdateRead(r, a, p, text, base, meta) ==
    LET old == posts[p]
    IN  /\ Can(a, "EditOwnDraft")
        /\ MayWrite(a, p)
        /\ base # Keep => old.status # "published"       \* ErrSlugImmutable
        /\ Pending(r, "update", a, p,
             [NoPost EXCEPT
                !.status = old.status,
                !.slug = IF base = Keep THEN old.slug ELSE uniqueSlug(a, base),
                !.text = Given(text, old.text),
                !.html = render(Given(text, old.text), Given(meta, old.meta))])

\* Mutant: whether to purge is decided on the status read before the update.
UpdateWriteReadStatus(r) ==
    LET new == reqs[r].new
        p   == reqs[r].post
        ok  == /\ Live(p)
               /\ \A q \in Post \ {p} : Live(q) => posts[q].slug # new.slug
               /\ posts[p].status = "published" => reqs[r].actor.tenant
    IN  /\ reqs[r].op = "update"
        /\ \/ /\ ok
              /\ posts' = [posts EXCEPT ![p].slug = new.slug,
                                        ![p].text = new.text,
                                        ![p].html = new.html]
              /\ IF new.status = "published" THEN purge ELSE NoPurge
           \/ ~ok /\ Rollback
        /\ Ends(r)

\* The update statement leaves metadata and status alone and returns the row as
\* it is now; whether to purge is decided on that row.  Outside a tenant the
\* bump finds no row and the call rolls back.
UpdateWrite(r) ==
    LET new == reqs[r].new
        p   == reqs[r].post
        ok  == /\ Live(p)
               /\ \A q \in Post \ {p} : Live(q) => posts[q].slug # new.slug
               /\ posts[p].status = "published" => reqs[r].actor.tenant
    IN  /\ reqs[r].op = "update"
        /\ \/ /\ ok
              /\ posts' = [posts EXCEPT ![p].slug = new.slug,
                                        ![p].text = new.text,
                                        ![p].html = new.html]
              /\ IF posts[p].status = "published" THEN purge ELSE NoPurge
           \/ ~ok /\ Rollback
        /\ Ends(r)

-----------------------------------------------------------------------------
(* Publish, Unpublish, Archive *)

StatusOf == [publish |-> "published", unpublish |-> "draft",
             archive |-> "archived"]

transitionRead(r, a, p, op) ==
    LET old == posts[p]
    IN  /\ Can(a, "PublishArchive")
        /\ Live(p)
        /\ op = "publish" => old.text # EmptyText        \* ErrEmptyContent
        /\ Pending(r, op, a, p,
             [NoPost EXCEPT !.status = StatusOf[op],
                                     !.html = render(old.text, old.meta)])

transitionWrite(r) ==
    LET new == reqs[r].new
        p   == reqs[r].post
        ok  == Live(p) /\ reqs[r].actor.tenant
    IN  /\ reqs[r].op \in DOMAIN StatusOf
        /\ \/ /\ ok
              /\ posts' = [posts EXCEPT ![p].status = new.status,
                                        ![p].html = new.html]
              /\ purge
           \/ ~ok /\ Rollback
        /\ Ends(r)

-----------------------------------------------------------------------------
(* Delete *)

DeleteRead(r, a, p) ==
    /\ Can(a, "EditOwnDraft")
    /\ MayWrite(a, p)
    /\ Pending(r, "delete", a, p, NoPost)

\* No bump and no purge, whatever the status of the row.
DeleteWrite(r) ==
    /\ reqs[r].op = "delete"
    /\ posts' = [posts EXCEPT ![reqs[r].post] =
                   IF Live(reqs[r].post) THEN [NoPost EXCEPT !.status = "deleted"]
                   ELSE @]
    /\ NoPurge
    /\ Ends(r)

-----------------------------------------------------------------------------
(* Tenant settings, the purge job and the public list. *)

\* UpdateTenant and its job, one transaction that begins with its write.
TenantUpdate ==
    /\ version < MaxVersion
    /\ purge
    /\ UNCHANGED <<posts, reqs, since, clients>>

PurgeRuns ==
    /\ purgeJob = "queued"
    /\ purgeJob' = "done"
    /\ UNCHANGED <<posts, version, reqs, since, clients>>

PublicEntry(p) == [post |-> p, slug |-> posts[p].slug, text |-> posts[p].text]

Published == {p \in Post : posts[p].status = "published"}

PublicList == {PublicEntry(p) : p \in Published}

\* fetchPage: the version first, the rows in a later statement, each of which
\* sees what is committed when it runs.
ListVersion(c) ==
    /\ clients[c].phase = "idle"
    /\ clients' = [clients EXCEPT ![c].phase = "rows", ![c].seen = version]
    /\ UNCHANGED <<posts, version, purgeJob, reqs, since>>

\* Mutant: any If-None-Match is taken for a match.
ListRowsAnyTag(c) ==
    LET seen == clients[c].seen
    IN  /\ clients[c].phase = "rows"
        /\ clients' = [clients EXCEPT
             ![c].phase = "idle",
             ![c].seen = 0,
             ![c].etag = seen,
             ![c].body = IF clients[c].etag # NoTag THEN @ ELSE PublicList]
        /\ UNCHANGED <<posts, version, purgeJob, reqs, since>>

\* 304 when the reader's If-None-Match names this version: it keeps its page.
ListRows(c) ==
    LET seen == clients[c].seen
    IN  /\ clients[c].phase = "rows"
        /\ clients' = [clients EXCEPT
             ![c].phase = "idle",
             ![c].seen = 0,
             ![c].etag = seen,
             ![c].body = IF clients[c].etag = seen THEN @ ELSE PublicList]
        /\ UNCHANGED <<posts, version, purgeJob, reqs, since>>

-----------------------------------------------------------------------------
Reads(r) ==
    \E a \in Actor, p \in Post :
        \/ \E base \in Base, text \in Text, meta \in Meta \cup {FALSE} :
              CreateRead(r, a, p, base, text, meta)
        \/ \E text \in Text \cup {Keep}, base \in Base \cup {Keep}, meta \in Meta \cup {Keep} :
              UpdateRead(r, a, p, text, base, meta)
        \/ \E op \in DOMAIN StatusOf : transitionRead(r, a, p, op)
        \/ DeleteRead(r, a, p)

Writes(r) ==
    \/ CreateWrite(r)
    \/ UpdateWrite(r)
    \/ transitionWrite(r)
    \/ DeleteWrite(r)

Next ==
    \/ \E r \in Req : Reads(r) \/ Writes(r)
    \/ TenantUpdate
    \/ PurgeRuns
    \/ \E c \in Client : ListVersion(c) \/ ListRows(c)

Spec == Init /\ [][Next]_vars

-----------------------------------------------------------------------------
(* Properties. *)

\* What the public list shows of a post.
ShownAs(p) == IF p \in Published THEN {PublicEntry(p)} ELSE {}

ChangesBump ==
    \A p \in Post : Live(p)' /\ ShownAs(p)' # ShownAs(p) => version' > version

\* A published row never changes what the public list shows of it, enters
\* or leaves the list without a bump of content_version, even when it was
\* published or withdrawn after the writer had read it.  Deleted rows aside.
PublicChangeBumps == [][ChangesBump]_vars

\* A reader whose ETag is the current content_version, and who would be told
\* 304, holds the current entry of every published post: no bump is missed
\* between the two reads of fetchPage.
CurrentTagIsComplete ==
    \A c \in Client : clients[c].etag = version => PublicList \subseteq clients[c].body

\* A request that ends, of a plain author: it has changed no row of another user
\* and published none.
Confined(r) ==
    reqs[r].op # "idle" /\ reqs'[r].op = "idle" /\ PlainAuthor(reqs[r].actor)
    => \A p \in Post :
         /\ posts'[p] # posts[p] /\ Live(p) => posts[p].author = reqs[r].actor.user
         /\ posts'[p].status = "published" => posts[p].status = "published"

\* A plain author's request, whatever commits between its reads and its
\* writes, leaves the rows of other users alone and never publishes.
AuthorConfined == [][\A r \in Req : Confined(r)]_vars

\* Request r ends, and has written post p if it could.
Ended(r, p) ==
    reqs[r].op # "idle" /\ reqs'[r].op = "idle" /\ reqs[r].post = p

Rendered(p) == posts[p].html.text = posts[p].text

KeepsHtml ==
    \A p \in Post : Rendered(p) /\ ~Rendered(p)' =>
        \E r \in Req : /\ Ended(r, p)
                       /\ reqs[r].op \in DOMAIN StatusOf
                       /\ "update" \in since[r]

\* The stored HTML stays the rendering of the stored markdown through any mix of
\* creates, PATCHes, transitions and deletions in flight at once, but for one
\* race: a transition writes the rendering of a text that a PATCH has replaced
\* since the transition read it.
HtmlStaysRendered == [][KeepsHtml]_vars

KeepsSlugs ==
    \A p \in Published : p \in Published' /\ posts'[p].slug # posts[p].slug =>
        \E r \in Req : Ended(r, p) /\ reqs[r].op = "update" /\ since[r] # {}

\* "immutable once published": the slug of a post that stays published changes
\* by one race only, a PATCH that read the post before another request published
\* or changed it.
PublishedSlugStays == [][KeepsSlugs]_vars

\* The stored HTML is the rendering of the stored markdown.
HtmlMatchesText == \A p \in Post : Rendered(p)
=============================================================================
