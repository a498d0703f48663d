# Verification of open-blog

TLA+ models of the open-blog backend (`src/`, Go, one Postgres database, one
process that serves HTTP and runs background jobs), checked with TLC on small
instances, with theorems about every component proved by TLAPS for every
instance.

## 1. The system

| Component | State | Operations | Talks to |
|---|---|---|---|
| Job queue, `internal/jobs` | table `jobs`: state, attempts, run_after, lease_until, (kind, dedupe_key) unique; goroutines of the process | `Enqueue`, `EnqueueBatch`; `claim`, `runJob`, `done`, `fail`, `markFailed`, `sweep`; `Run`, `Close` | called inside the transactions of posts, imports, media and the tenant handlers; calls their handlers |
| Process, `cmd/api` | up, shutting down, down | start, SIGTERM, exit | starts workers, does not wait for them |
| Posts, `internal/posts` | table `posts`; `tenants.content_version` | `Create`, `Update`, `Publish`, `Unpublish`, `Archive`, `Delete`; reads `Get`, `List` | renders on write; bumps the version and enqueues a purge |
| Public reads, `internal/publicapi` | none; the caches of its readers | `List`, `Get`, `GetHTML`, `Site` with ETag and 304 | reads `tenants` and `posts`; resolver |
| Authorization, `internal/authz` | none | `ResolveActor`, `Can`, `Require`, `OwnsPost`, `ScopeFromActor` | every service |
| Imports, `internal/import` | table `imports`: status, markdown_out, post_id | `Start`, `Get`, `Apply`, job handler `handleJob` | queue, posts, object store, OAuth tokens, pandoc and pdftotext |
| Media, `internal/media` | table `post_images`, objects | `Presign`, `Confirm`, `Delete`, variants handler | queue, object store |
| Sessions, `internal/auth` | table `sessions`; argon2 limiter | `Issue`, `Verify`, `Logout`, `Login`, `Signup` | middleware; sweeper deletes expired sessions |
| OAuth, `internal/oauth` | tables `oauth_flows`, `identities`, `oauth_tokens`, `invitations` | `Start`, `Callback`, `LinkIdentity`, `ConsumeInvitation`, `GetGoogleToken` | sessions, imports |
| Tenancy resolver, `internal/tenancy` | per-process slug cache with a TTL | `ResolveSlug` | public reads |
| HTTP layer, `internal/api` | rate-limit buckets; tables `tenants`, `memberships` through its own handlers | middleware, members, invitations, tenants | everything |
| Store, `internal/store` | the transactions and the row-level-security scope | `Scoped`, `ScopedRW`, queries | everything |

The hard parts are the places where one piece of code decides on what it has
read and another writes before it does: every service call is a READ COMMITTED
transaction that reads without locking; job goroutines write by id after a
lease that is not theirs to hold; `Apply` is three transactions; readers pair
a version with rows read later; logins hold a database connection while they
wait for the argon2 limiter. The process may die, or its connection be
lost, between any two statements. Section 8 lists where each of these bites
and which property watches it.

What makes each component correct:

- queue: one run of a job at a time, a settled job stays settled, no job is
  lost, the retry budget is kept, and work is repeated only after a fault;
- posts and public reads: every public change moves `content_version`, and a
  reader told "not modified" has every current entry; stored HTML is the
  rendering of the stored text, and a published slug is frozen, but for one
  race each; authors stay inside their own drafts;
- imports: a document is converted once, whatever is redelivered; `post_id`
  names a live draft made from that conversion and is set once;
- members and sessions: nobody reaches a role that nobody in the tenant held,
  nobody acts where it was never a member, an ended session stays ended;
- media: an image row names only objects that exist, every image has its own
  variants job, a deleted image does not come back by a delayed confirm;
- public reads: a walk over the pages misses nothing that stayed in the list
  and repeats nothing; a cached slug lags its tenant by a bounded time;
- sign-in: pool and limiter cannot block one another, the limiter counts what
  runs, an account belongs to one user, nobody is created who cannot sign in,
  and the stored refresh token is lost in three ways only.

## 2. Modules

| Module | Models |
|---|---|
| `JobQueue` | `internal/jobs`, the process, the clock |
| `WorkQueue` | what the queue promises, without leases, attempts and processes |
| `QueueRefinement` (extends `JobQueue`) | the mapping under which `JobQueue` implements `WorkQueue` |
| `JobQueueProofs` | theorems about `JobQueue` |
| `QueueRefinementProofs` | the theorem that `JobQueue` implements `WorkQueue` |
| `MCJobQueue` | symmetry for TLC |
| `Authz` | roles, capabilities, ownership |
| `Posts` (extends `Authz`) | `internal/posts`, `content_version`, the purge job, the public list and its readers |
| `PostsProofs` | theorems about `Posts` |
| `MCPosts` | actors and symmetry for TLC |
| `Imports` (extends `JobQueue`) | `internal/import` running inside the queue, and `Apply` |
| `ImportsProofs` (extends `JobQueueProofs`) | theorems about `Imports` |
| `MCImports` | symmetry for TLC, and what the documents say of an applied import |
| `Members` (extends `Authz`) | sessions, the auth middleware, members, invitations, tenants, what an OAuth callback does to them |
| `MembersProofs` | theorems about `Members` |
| `MCMembers` | the seed and symmetry for TLC |
| `Media` (extends `JobQueue`, `Authz`) | `internal/media`, the bucket, and the variants handler running inside the queue |
| `MediaProofs` (extends `JobQueueProofs`) | theorems about `Media` |
| `MCMedia` | actors and symmetry for TLC |
| `Resolver` | `internal/tenancy`: the slug cache and the tenants behind it |
| `PublicRead` (extends `Resolver`) | `internal/publicapi`: paging through the list, and the site endpoint |
| `PublicReadProofs` | theorems about `Resolver` and `PublicRead` |
| `MCPublicRead` | whose posts they are |
| `SignIn` | `internal/auth` and `internal/oauth` against the pool, the limiter and Google |
| `SignInProofs` | theorems about `SignIn` |
| `MCSignIn` | which requests meet |

Definitions named "Mutant" in a module are deliberate errors. They are used by
no specification; each one replaces one definition to show that a property
notices that error.

### JobQueue

`jobs` is the table, `runs` the goroutines executing `runJob`, `proc` the
process. Time is relative: a row's `runAfter` and `lease` hold `run_after - now()`
and `lease_until - now()`, a goroutine's `left` what remains of the context it
runs under (`constJobTimeout` in the handler, the 15 s of `stateCtx` after it),
and `Tick` moves them all. A timer is kept only in the states in which some
statement reads it.

| Action | Code |
|---|---|
| `Enqueue`, `EnqueueBatch` | the insert with `on conflict do nothing`, and `CopyFrom` |
| `Claim`, `ClaimLost` | `worker` with `claim`; in the second the commit took effect and its answer was lost |
| `StartJob` | the head of `runJob`: bad payload, unknown kind, or into the handler |
| `HandlerOk`, `HandlerErr` | the handler returns |
| `FailRead`, `Requeue`, `MarkFailed`, `MarkDone` | the statements of `fail`, `markFailed`, `done`, each by id alone |
| `StatementError` | one of those statements fails and is logged |
| `Sweep` | the lease sweep (the deletes of sessions and flows in the same function touch other tables) |
| `Close`, `Exit`, `Crash`, `Restart` | SIGTERM, the return of `main`, process death, a new process |

`Prompt` is the set of kinds whose handler returns when its context expires.
The time spent between the `now()` of the claim and the start of `runJob`
(the commit and the scheduling of the goroutine) is `SpawnDelay`, and
`LeaseAssumption` asks that it, the job timeout and the state timeout fit in
the lease: with 180, 60 and 15 seconds the code leaves 105 for it. `Slot`
bounds the goroutines alive at once; the code has no such bound.
`okRuns` and `started` are history: calls that returned nil, goroutines
started.

### WorkQueue and QueueRefinement

`WorkQueue` is the contract: a job waits, is held by at most one worker, is taken
back only when nobody is on it, is done only after its work has succeeded, and
done and failed are final. `QueueRefinement` maps a row's state to the status, the
live goroutines of a row to its holders, and `okRuns > 0` to "has succeeded".
`ImplementsWorkQueue` holds when every handler obeys its context. With one that
does not, only "done after its work has succeeded" is left of the contract: a row
whose lease expired under its run is swept to another goroutine, and the late `done` or
`fail` of the first, an update by id alone, moves it under the second (or back from
done to queued).
`imports_overrun` shows what comes of it where handlers like that exist.

### Posts

A service call has two steps. `...Read` is everything up to the first write:
authorization, the reads, the checks, the rendering. `...Write` is from the
first write, which locks the row until commit, to the commit; it is decided
again where the code decides again (whether the row is still there, unique
violations, the status that `UpdatePost` returns, the bump that finds no tenant
row for a super_admin without a tenant). Any other request may run in between.
A text stands for title, excerpt and markdown together, HTML for the text and
image policy it was rendered from. Slugs are a base and a suffix. Archive is
an operation of the service that no route reaches today. `since` is history:
which PATCHes and publications have changed a request's post since it was read.

Readers keep a page and its ETag. `ListVersion` and `ListRows` are the two
statements of `fetchPage`, followed by the comparison with `If-None-Match`. A
list fits in a page, and the ETag is its version: cursor, tag and page size
are fixed for a reader.

### Imports

`Imports` extends `JobQueue`: an import id is a job and the job's dedupe key.
The one handler step of `JobQueue` becomes the body of `handleJob`: load,
convert, write. Statements run under the job's context, so they fail once its
timeout has passed or the worker is closing; a conversion by pandoc or pdftotext
need not (the subprocess is started without the context), so a handler may outlive
both its timeout and its lease. The program has one kind of job for imports; the
model's kinds tell apart the documents whose conversion ends with the context
(`Prompt`) from those whose conversion may not. A commit may take effect and
still be reported as an error. `Apply` is `ApplyRead`, `ApplyCreate`,
`ApplyLink` or `ApplyRefused`; `DeleteDraft` is `posts.Delete` with the
`on delete set null` of the foreign key.

### Members

A request is `Verify` (the session row), `auth` with `ResolveActor` (the
`super_admin` flag and the membership row), then one handler, and any other
request may run between these. The actor is what the first two have read, and
no handler reads it again: `handleMembersSetRole` of someone who was demoted
meanwhile still writes. `handleSetTenant` has a read and a write of its own.
`Ends` is a request that writes nothing: refused, failed, or only reading.
`Callback` is what an OAuth sign-in does after the code is exchanged; the first
link of an identity claims one pending invitation, later sign-ins none.
`Init` is what `cmd/seed` has written. A deleted tenant takes its memberships
and invitations with it, by the foreign keys, and leaves `sessions.scope`. The
purge job inserted with the deletion exists exactly when the tenant is deleted,
so it is no variable. An address is its user, a provider has one subject per
address, tokens and ids are new when issued. `joined` is history: who was ever
a member of which tenant.

Two consequences of the code follow from `AuthorityNeverRises` and are worth
knowing. An owner may demote itself, and an admin may demote or remove the last
owner; the tenant then never has one again. And `requireTenantScope` refuses a
super_admin even inside an active tenant, so a tenant made by
`handleTenantsCreate` never gets a member except by the seed, while the comment
of `ResolveActor` says that a super_admin acts as owner there. A third one is
seen in `auth`: a session scoped to a tenant that its user has left is refused
before every handler, `handleSetTenant` and `handleLogout` included.

### Media

`Media` extends `JobQueue`: an image id is a job, the object key its dedupe key.
`Confirm` is the insert with `on conflict do nothing` and the enqueue in one
transaction; a duplicate job is an error that takes the row with it. The handler is
`Load`, `Get` (with `Process`), one `Put` per variant, `writeVariants`; each may
fail, and each statement fails once the job's context is over. The key in a
confirm is the client's word: it may never have been uploaded. `Processor` says
whether variants are encoded; `cmd/api` passes none, so the shipped program always
writes "pending" entries that name the original. Both are modelled, and both in
one run, as when replicas of two builds share a queue.

One consequence: because job rows stay for ever, an object key whose image was
deleted can never be confirmed again (the client gets a 500), which is also
what keeps a delayed confirm from resurrecting it.

### Resolver and PublicRead

A lookup is `ResolveSlug` under the mutex (the entry is read before the sweep),
and on a miss `QuerySlug` or `SlugNotFound` outside it and `StoreEntry` under it
again: an answer may be stored over a newer one. `left` is `expiresAt - now`.
Slugs are never renamed; a deleted tenant's slug may be taken by another. A walker
follows `next_cursor`; each page is a lookup, `PageVersion`, `PageRows` (the two
statements of `fetchPage`, the second with `limit pageSize + 1`). `published_at`
is any stamp, also one older than what is visible, because replicas take it from
their clocks before they commit, and publishing again moves a post.

`steady` is history: what was listed when the walk began and has not moved since.
A post that is published again during the walk moves to the front and may be
missed by a reader who has passed it: that is keyset pagination, not an error of
this code. The list of a tenant that is deleted but cached answers 500
(`fetchPage` does not map the missing row) where `Site` answers 404.

### SignIn

Requests are signups, logins, OAuth callbacks, and import jobs that fetch a token.
`Login`'s transaction, and so a connection, is open while it waits for a slot and
hashes; `Signup` hashes between two short transactions. A login of an address without
a password first needs the hash of `dummyHash`, a `sync.OnceValue`: the first such
login of a process makes it (`dummyHash`, `dummyHashed`), the others wait for it. That
one hash runs under a limiter of its own, so that besides the `Cap` hashes of the
shared limiter one more may run, which is what `HashesAreCounted` says. `Callback`
consumes the flow row, talks to Google without holding anything, then runs
`resolveIdentity`, a transaction in three steps: `resolveIdentity` (the reads),
`LinkUser` (create the user, read the identity again), `InsertIdentity` (the insert and
the commit).
Unique indexes make a second writer wait (`EmailSettled`) and fail. A failed insert
aborts its transaction, so the re-read after it in `linkIdentityTx` fails as well;
its comment, "adopt it if same user" (`internal/oauth/link.go:38`), describes
something that cannot happen, and the callback that loses the race fails for the
same user too. `Fail` is any error or a cancelled client, anywhere but inside argon2.

Google either rotates refresh tokens or does not (`google.rotates`); the `oauth2`
library returns the token it sent when the answer has none, so that a refresh
always writes `refresh_token`. `end` is history: why there may be no stored refresh
token that works. It is reset when one is stored, and set when the user revokes the
consent, when a request fails that had received the successor of the stored token, and
when a request that began before a revocation stores its dead token over one of a later
consent. `StoredTokenWorks` says that there is no fourth way. The third is a lost update,
and with a Google that rotates no tokens it is contrary to the comment of
`GetGoogleToken`, "Keep the stored refresh token when the IdP does not rotate one":
`LiveTokenStays`, which `signin_overwrite` refutes.

`Loads` says which kinds of requests meet, with how many connections and tokens;
it is chosen at the start of a behaviour.

## 3. Runs

Runs that pass:

| Run | Shows |
|---|---|
| `queue_safety` | two jobs, two kinds (one without a handler), a bad payload, a shared dedupe key, two goroutines, two faults: `SingleRunner`, `LeaseCoversRun`, `SettledIsFinal`, `DoneWasHandled`, `FailedSpentBudget`, `OnlyFaultsRepeatWork`, `ImplementsWorkQueue` |
| `queue_liveness` | two jobs compete for one goroutine: `EventuallySettled` |
| `posts_concurrent` | two interleaved requests on one post with a reader, or beside a second post that takes its slug, an author, an editor and a super_admin without a tenant: `PublicChangeBumps`, `CurrentTagIsComplete`, `AuthorConfined`, `HtmlStaysRendered`, `PublishedSlugStays` |
| `imports_safety` | one import, of a document that converts in time or one that may overrun, two goroutines, two applies: `NeverReconverted`, `JobDoneMeansOutcome`, `LinkIsConversion`, `LinkStays` |
| `members_safety` | a super_admin, an owner and a stranger, two sessions, two requests in flight, one invitation, a tenant that is created and both deleted: `AuthorityNeverRises`, `TenantIsolation`, `RoleChangesByAdmins`, `GoneTenantIsEmpty` |
| `media_safety` | two images that share an object key, two goroutines, handlers that overrun, a fault, both processors: `ShownObjectsExist`, `ImageGetsVariants`, `DeletedStaysDeleted` |
| `public_read` | one walker and one visitor, a slug that two tenants have in turn, two posts with equal or different stamps, restarts: `StableWalk`, `StaleAtMost`, `SweepBounds` |
| `signin_safety` | two requests at a time of the kinds in `MCLoads`: `HashesAreCounted`, `UsersCanSignIn`, `SessionIsTheIdentitys`, `FlowYieldsOneSession`, `StoredTokenWorks`, and, under fairness, `EveryRequestEnds` |

Runs in which the code departs from what the repository says, each with a
finding in `PROJECT.json`:

| Run | What happens |
|---|---|
| `imports_overrun` | a conversion outlives its lease; its late requeue, by id alone, lets a third run in under the live second one, and an import that was applied is converted again |
| `posts_html_race` | publish stores the rendering of a text a PATCH has replaced |
| `imports_orphan` | the refused one of two applies leaves its draft |
| `signin_overwrite` | a refresh of before a revocation is stored after a new consent, over its live token |

Other departures are plain in the actions or follow from a property that passes, and
have no run:

- `UpdateRead` renders with the metadata of the PATCH and `UpdateWrite` does not
  store it, so the stored HTML follows an image policy that the stored metadata
  does not opt in to (`docs/plans/005-posts/plan.md:31-32`: "unless `metadata` opts
  in otherwise"; `internal/posts/service.go:228`);
- `purge` enqueues under the tenant id, the row of the first purge stays in the
  unique index, and `ErrDuplicate` is swallowed: later changes commit without a job
  (`docs/plans/008-job-queue/plan.md:41-42`: "A commit always carries its job";
  `internal/posts/service.go:347`);
- `DeleteWrite` of a published post bumps nothing, and readers of the list are told
  304 (`migrations/0001_tables.sql:11`: "bumped on any public-visible change";
  `internal/posts/service.go:323`). Variants that a job writes are not seen by
  readers for the same reason: they move neither `content_version` nor `updated_at`;
- `docs/plans/005-posts/plan.md:65` has the slug "immutable once published", and `:20`
  has a plain author change drafts only. Through the window of `posts_html_race` neither
  is so: the status is checked on a row read without a lock, and a publish may commit
  before the write. `PublishedSlugStays` says that a published slug changes in this race
  and in no other;
- "≤4 concurrent argon2 hashes" (`docs/plans/002-auth-sessions/plan.md:25`; "caps
  concurrent in-handler hashes", `internal/auth/auth.go:31`): it is five while
  `dummyHash` runs, under `newLimiter(1)` (`internal/auth/password.go:46`), once in a
  process;
- "a super_admin acts as owner there (ST-18) even without a membership row"
  (`internal/authz/actor.go:22-24`): `requireTenantScope`
  (`internal/api/handlers.go:617`) refuses it in the member handlers, so that it can
  neither invite nor change roles. `AuthorityNeverRises` rests on this: with the
  super_admin admitted, a tenant would get an owner that it had not.

`NeverReconverted` speaks of conversions that end with their context. For others it
is false, although two runs of one job are not enough to show it: the late one's
statement runs under a context that expired before its lease did, so it fails. What
it does is requeue the row by id, while the second run is converting; a third then
finds the import still converting, and of these two one writes after the other, under
a live context, without looking at the status (`imports_overrun`). That takes a
timeout longer than the first backoff, 60 seconds against one in the code
(`internal/jobs/worker.go:25`, `:23`).

## 4. Bounds

- Two jobs and two goroutines: every interaction in the queue is between two
  runs of one row, or between two rows competing for a worker. Dedupe needs a
  second insert of a key.
- `Lease = 3`, timeouts and `SpawnDelay` of 1: the tightest values the lease
  assumption allows, so that a lease one tick shorter is caught
  (the mutant `ClaimedShortLease`). In the runs of `Imports` `SpawnDelay = 0` and
  `JobTimeout = 2`, longer than the first backoff as in the code, so that a row that was
  requeued under a run can be claimed while the run lasts.
- `MaxAttempts = 2`: a retry and a last attempt. `BaseBackoff` above
  `MaxBackoff` in `queue_safety`, so that the cap matters; below it in
  `queue_liveness`.
- `MaxLag = 1` in `queue_liveness`: due rows are told apart by how long they have
  been due up to one tick; elsewhere, where no property needs the order, 0.
- `MaxFaults = 2` (one in `imports_safety` and `media_safety`): a fault and one during recovery.
- One post and another, two requests, `MaxVersion = 2`: a race needs two requests on one
  row. No write begins at `MaxVersion`, so that versions end at most one request each
  beyond it. A second post is there for its slug, and requests of a super_admin without a
  tenant because they see no rows. `MCBound` lets the second post be created, blank, and
  no more, and only in behaviours without a reader whose versions stay below `MaxVersion`;
  the super_admin comes only before any reader, any change of version and the second post.
  In all other behaviours there is one post. What a super_admin without a tenant does to
  the bump of a published row is left to the theorems, which hold for every `Actor`.
- `members_safety`: two requests, because a stale actor needs one more to make
  it stale; the roles asked for are admin and owner, the two that may grant;
  one provider, so that each user claims at most one invitation, an owner who
  is invited to its own tenant included.
- `media_safety`: one object key and two image ids, so that a key is confirmed,
  deleted and confirmed again; two variants, so that a run can stop between them.
- `public_read`: `TTL = 1` and `MaxFetch = 1`, so that an answer can be as old as its
  entry lives; pages of one row, two posts with two stamps, so that stamps collide.
- `signin_safety`: one hash at a time. Signups, logins and callbacks on a single
  connection, where a slot held while waiting for it would block for good; signups and
  logins on two, so that two logins meet in `dummyHash`; signups and
  callbacks on two, so that transactions interleave; callbacks and jobs with up to
  three refresh tokens: two consents and a rotation. Two addresses for one Google
  account, so that a callback can find it linked to somebody else; two flows, so that
  two callbacks race. One browser: the session a flow is bound to is compared in the
  statement that consumes it, and a mismatch changes nothing.
- Two texts, one of them blank, and both image policies where they matter.

Symmetry is used for goroutines, requests, applies, posts, tokens and invitations, which no
specification tells apart, and in no run with a liveness property.

## 5. Fairness

`FairSpec` assumes weak fairness of: the claim of each job by some goroutine
(a due row stays due until it is taken; `order by run_after` lets no row be
passed over for ever, which `MaxLag` keeps visible), each goroutine's next
step, the sweep (a ticker), the exit of a closing process, its restart (a
supervisor, outside the repository) and the clock. Callers owe nothing and
faults need not happen; there are finitely many of them, because a job whose
every statement fails is never settled. Handlers are fair: in `queue_liveness`
every kind is prompt.

`SignInSpec` assumes strong fairness of each request's next step. A request waits only
for a connection, an argon2 slot or the value of `dummyHash`; pgx's pool and Go's
channels serve waiters in the order they came, so one that is served again and again to
others is served to it. `dummyHash` ends by itself, as nobody else uses its limiter.
Nothing is assumed of Google (the HTTP client has no timeout), nor of clients: a request
that waits for Google may wait for ever, and holds nothing while it does.

## 6. Proofs

Every invariant and every action property that a passing run checks is also a theorem,
for all values of the constants that satisfy the assumptions of the modules:

| Module | Theorem | Property |
|---|---|---|
| `JobQueueProofs` | `TypeCorrect` | `TypeOK` |
| | `OneRunnerPerJob` | `SingleRunner` |
| | `LeaseOutlivesRun` | `LeaseCoversRun` |
| | `SettledForGood` | `SettledIsFinal` |
| | `DoneMeansHandled` | `DoneWasHandled` |
| | `FailedMeansSpent` | `FailedSpentBudget` |
| | `FaultsPayForRepeats` | `OnlyFaultsRepeatWork` |
| `QueueRefinementProofs` | `QueueImplementsWorkQueue`, when `Kind \subseteq Prompt` | `ImplementsWorkQueue` |
| `PostsProofs` | `PostsTypeCorrect` | `TypeOK` |
| | `CurrentTagsAreComplete` | `CurrentTagIsComplete` |
| | `PublicChangesBump` | `PublicChangeBumps` |
| | `AuthorsAreConfined` | `AuthorConfined` |
| | `HtmlIsLostToOneRace` | `HtmlStaysRendered` |
| | `SlugIsChangedByOneRace` | `PublishedSlugStays` |
| `ImportsProofs` | `ImportsTypeCorrect` | `ImportsTypeOK` |
| | `DoneJobsHaveOutcomes` | `JobDoneMeansOutcome` |
| | `ConvertedOnce` | `NeverReconverted` |
| | `LinksAreConversions` | `LinkIsConversion` |
| | `LinksStay` | `LinkStays` |
| `MembersProofs` | `MembersTypeCorrect` | `MembersTypeOK` |
| | `TenantsAreIsolated` | `TenantIsolation` |
| | `GoneTenantsStayEmpty` | `GoneTenantIsEmpty` |
| | `OnlyAdminsChangeRoles` | `RoleChangesByAdmins` |
| | `AuthorityCannotRise` | `AuthorityNeverRises` |
| `MediaProofs` | `MediaTypeCorrect` | `MediaTypeOK` |
| | `ShownObjectsAreThere` | `ShownObjectsExist` |
| | `ImagesGetVariants` | `ImageGetsVariants` |
| | `DeletedImagesStayDeleted` | `DeletedStaysDeleted` |
| `PublicReadProofs` | `PublicReadTypeCorrect` | `PublicReadTypeOK` |
| | `SlugsResolveRecently` | `StaleAtMost` |
| | `SweepsBoundTheCache` | `SweepBounds` |
| | `WalksAreStable` | `StableWalk` |
| `SignInProofs` | `SignInTypeCorrect` | `SignInTypeOK` |
| | `SlotsAreBalanced` | `HashesAreCounted` |
| | `UsersAreReachable` | `UsersCanSignIn` |
| | `SessionsAreTheIdentitys` | `SessionIsTheIdentitys` |
| | `OneSessionPerFlow` | `FlowYieldsOneSession` |
| | `StoredTokensWork` | `StoredTokenWorks` |

### The arguments

**The queue.** `SingleRunner` is not inductive: a second goroutine is started when a
row is queued, so one must know that no goroutine of that row is alive then. This is
what `LeaseCoversRun` says: a live goroutine's row is running, and its lease
covers everything the goroutine may still take. The two together (`RunInv`)
are inductive. A claim needs a queued row, so the row has no goroutine, and
the new lease covers the new one by `LeaseAssumption`; a step within a run
spends only the time its phase set aside; `Tick` takes one from the lease and
one from `left`, and does not happen while a prompt goroutine has none left;
`Sweep` needs an expired lease, and a lease that covers a goroutine is not
negative. `SettledForGood` follows, because whoever writes a row is a
goroutine whose row is running.

`DoneMeansHandled` and `FailedMeansSpent` hold for handlers that overrun as well. They
rest on a second invariant (`ReasonInv`) about why a goroutine is where it is: one that
is finishing has had a nil from its handler; one that is rejecting has seen its budget
spent, or has no handler; and attempts never shrink.

`FaultsPayForRepeats` counts. A fault is paid for when it happens, but the goroutine
it costs may live a little longer, so `TallyInv` tells a fault from one that is `Paid`
(a shutdown is once the process has ended). A row that nobody is on has used less
than its budget and the paid faults together, and every nil return but that of the
present run has been followed by a paid fault.

`QueueImplementsWorkQueue` maps every step of `JobQueue` to one of `WorkQueue` or to a
stutter, under `RunInv` and `ReasonInv`: who writes a row is its one holder, because
of `SingleRunner`; a row is swept only when it has no holder, because of
`LeaseCoversRun`; who marks it done has had its handler succeed. All of this needs every
handler to obey its context, hence `Kind \subseteq Prompt`.

**Imports and Media** run in the queue: each of their steps is one of the queue or leaves
it alone, so `RunInv` is theirs too. `OutcomeInv` says of a goroutine that it has found
the import converting when it converts (and, with one runner per job, that it still is,
which is why `ConvertedOnce` needs a prompt kind), and that there is an outcome when it
has had its nil. `LinkInv` adds that the copy of the conversion that `Apply` carries
through its three transactions is still the import's. `MediaInv` follows each handler
through its puts (`Deriving`): objects are never removed and a row keeps its key, so what
was put stays whatever else happens; a row and its job come together (`Paired`) and no
two rows have a key (`OneKey`), because the key is the dedupe key of a job that stays.

**Posts.** A request writes what it computed from rows that may have changed. `Backed`
says what of it cannot have: the id it creates is still no row and nobody else's; the
row it updates has the author it had; only editors publish. Whether to bump is decided
on the row as it is written, so a visible change and a bump are one step. `Behind`: no
reader is ahead of `content_version`, although it reads version and rows in two
statements. `Current` tells what the history `since` makes of a read: a PATCH of a
published post that nothing has published or changed since keeps its slug, and a
transition that no PATCH has overtaken carries the rendering of the text that is there.
Creations write new rows and deletions end them, so nothing else writes HTML or a slug.
`uniqueSlug` is a choice whose candidate must be shown to exist, so `Post` is finite.

**Members.** `handleSetTenant` writes a scope it checked in an earlier statement, for
a user that `Verify` read before that. `IsolationInv` says what each request still knows
of its token (`Vouched`): the user it was verified for is the token's unless the token
is dead, and it names only tenants its user is known in. A role is granted only
up to the actor's, by a request in the actor's tenant; the roles held in a tenant are
those of its members, its pending invitations and its running requests, and no step puts
there one that is above all of them, stale actors included.

**Resolver and PublicRead.** `ResolverInv`: what is cached or on its way to the cache was
the slug's owner when it was read; what is left of a valid entry and the time its tenant
has been gone add up to no more than `TTL + MaxFetch`; no entry has been expired for
longer than the last sweep is past. For `StableWalk`, `WalkInv` says that what a walk
has still to get lies beyond its cursor. That the next page is answered from the tenant
the walk began with is a matter of the resolver: a post that was left alone has kept
its tenant alive, a live slug has one owner (`SoleOwners`), what a cache names has or
had the slug (`ResolvedHad`), and `PageVersion` finds no row for a tenant that is
gone. The order of the list is proved to be one, and that a finite set has a listing in
that order, each row once, is a lemma (`NewestFirstExists`), so `Post` is finite.

**SignIn.** Counters and flows hold only together (`CountInv`): what a `Rollback` gives
back to the pool was taken by a transaction that is held, what the deferred release
gives back to the limiter was taken by a request that hashes, and a flow was consumed by
one request alone, so it is not issued a second session. They need a finite set of
requests. `HashesAreCounted` follows from two parts of it: the slots count the hashes
the limiter admitted (`SlotsAreCounted`), and one request at most makes the dummy hash,
while the `OnceValue` runs (`OneDummy`). `LinkedInv`: the user of the identity exists.
`TokenInv` follows the refresh tokens that requests carry: one that is about to be
stored works unless it was revoked, and under rotation nobody else has it, so that no
other refresh spends it first. A store of a token that was not revoked thus leaves one
that works, and a store of one that was loses none that works unless `end` says so.

### What the theorems assume

Only the named `ASSUME`s of the modules, and the hypothesis shown in the table.
Those that say something of the code:

- `LeaseAssumption`: delay, job timeout and state timeout fit in a lease (see `JobQueue`
  in section 2);
- `Kind = Handled` and `BadPayload = {}` in `Imports` and `Media`, and in `Media` a single
  kind: these jobs are enqueued by the component itself, for a handler that `cmd/api`
  registers and with a payload it has marshalled;
- `Walker \cap Visitor = {}`: a request is either for the list or for the site;
- finite `Post` in `Posts` and `PublicRead`, finite `Req` in `SignIn`: tables and requests
  in flight are;
- sets that the initial state picks from are not empty.

The properties themselves leave out handlers that overrun (`Prompt`) where the code
keeps no promise for them; sections 2 and 3 say what happens then.

### What only TLC checks

The liveness properties, `EventuallySettled` and `EveryRequestEnds`: they need fairness
and ENABLED, which the prover does not handle. And the properties of the runs
that expect a violation, which the code does not have.

The proofs found one error in what had been checked: `NeverReconverted` was stated for all
conversions and held in TLC's run, whose timeout was no longer than the first backoff. Its
invariant could not be proved to survive a requeue by an overrunning goroutine; with a
longer timeout TLC shows why (`imports_overrun`).

## 7. Not modelled

Of the public API, the single-post endpoints (one statement after the resolver) and
the image lookup. The rate limits: `Allow` is one library call under a mutex. Row-level
security: the policy is assumed to keep other tenants' rows out. The renderer is a
function of text and policy; what HTML it emits is not a question for these tools.
Signing, encryption, image processing, HTTP clients, configuration and the migration
runner have no protocol state. `LinkIdentity`, `ConsumeInvitation` and
`ResizeVariants` have no caller in the program.

Abstractions to keep in mind: several tenants are absent from `Posts`, and ETags
from `PublicRead`; the deletion of a tenant is in `Members` and `Resolver` only, so that
`handleJob` never finds its import gone (`internal/import/import.go:231`, which returns
nil and writes nothing); invitations are absent from `SignIn` and racing links from
`Members`; the purge handler of `cmd/api` only logs, so the model of the purge job
ends with its being consumed; the sweep and the claims of several replicas
are the same atomic statements, so one process stands for all, except that
a crash takes all goroutines.

## 8. Hazards

`PROJECT.json` lists each with its line and the properties that watch it. Those with
none: an import whose job is given up stays "converting"; sessions stuck in a tenant
that is gone; the goroutines of a worker, which its number of workers does not bound;
the two departures of `Posts` in section 3 that leave nothing to state; variants that
readers are not told of.

## 9. Plan

Every safety property of section 3 is proved. What could still be added:

1. Stronger statements of what is proved: that a late write of an overrunning handler
   can do no more than requeue or settle its own row; that HTML lost to the race of
   `posts_html_race` is still of some text the post had.
2. `Resolver` against an abstract slug table with a bounded lag, as a refinement, so that
   `PublicRead` could be stated over the table alone.
3. The purge job of `Posts` as a job of the queue, now that `JobQueueProofs` can be
   extended by a component that enqueues under one key for ever.
