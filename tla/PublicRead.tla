------------------------------ MODULE PublicRead ------------------------------
(***************************************************************************)
(* internal/publicapi in front of the resolver: a reader that walks the    *)
(* list of a blog page by page, following next_cursor, and visitors of its *)
(* site endpoint, while posts are published, withdrawn and published again *)
(* and tenants come and go.  Every page is a request of its own: it        *)
(* resolves the slug, reads content_version, then its rows.                *)
(*                                                                         *)
(* What ETags promise is the subject of Posts; here every page is fetched. *)
(***************************************************************************)
EXTENDS Resolver, SequencesExt

CONSTANTS
    Walker,     \* readers of the list
    Visitor,    \* readers of the site endpoint
    Post,       \* post ids, which are ordered
    HomeOf,     \* the tenant of each post
    MaxStamp,   \* bound: published_at is in 1..MaxStamp
    PageSize

ASSUME PublicReadAssumption ==
    /\ Reader = Walker \cup Visitor
    /\ Walker \cap Visitor = {}
    /\ Post \subseteq Nat /\ IsFiniteSet(Post)
    /\ HomeOf \in [Post -> Tenant]
    /\ MaxStamp \in Nat
    /\ PageSize \in Nat \ {0}

VARIABLES
    stamps,   \* published_at of each post; 0: it is not published
    walks     \* the readers of the list: what they have and where they are

publicVars == <<tenants, cache, sinceSweep, lookups, stamps, walks>>

-----------------------------------------------------------------------------
\* (published_at, id), the order of the list and the content of a cursor.
Position == (1..MaxStamp) \X Post

NoCursor == <<>>

\* between: a page was got, or none yet, and the next may be asked for
\* rows:    the request has read content_version
\* end:     the last page was got
\* steady:  history: what the owner of the slug had published when the walk
\*          began, and has left as it was
Walk == [at: {"none", "between", "rows", "end"}, slug: Slug,
         cursor: Position \cup {NoCursor}, got: Seq(Position),
         steady: SUBSET Position]

NoWalk == [at |-> "none", slug |-> CHOOSE s \in Slug : TRUE, cursor |-> NoCursor,
           got |-> <<>>, steady |-> {}]

PublicReadTypeOK ==
    /\ ResolverTypeOK
    /\ stamps \in [Post -> 0..MaxStamp]
    /\ walks \in [Walker -> Walk]

PublicReadInit ==
    /\ ResolverInit
    /\ stamps = [p \in Post |-> 0]
    /\ walks = [w \in Walker |-> NoWalk]

Before(x, y) == x[1] < y[1] \/ (x[1] = y[1] /\ x[2] < y[2])

\* Mutant: drafts are listed too.
RowsBy(t) == {<<stamps[p], p>> : p \in {q \in Post : HomeOf[q] = t}}

\* The published rows of a tenant, by their positions.
PublishedBy(t) == {<<stamps[p], p>> : p \in {q \in Post : HomeOf[q] = t /\ stamps[q] > 0}}

-----------------------------------------------------------------------------
(* Posts and tenants. *)

\* What has moved or gone is steady no more.
Stamped(new) ==
    /\ stamps' = new
    /\ walks' = [w \in Walker |-> [walks[w] EXCEPT !.steady =
                   {x \in @ : new[x[2]] = x[1]}]]

\* published_at is the clock of some replica before the commit, so it may be
\* older than one that is visible already; publishing again moves a post.
PublishPost(p, stamp) ==
    /\ tenants[HomeOf[p]].state = "live"
    /\ Stamped([stamps EXCEPT ![p] = stamp])
    /\ UNCHANGED resolverVars

\* Unpublished, archived or deleted.
WithdrawPost(p) ==
    /\ stamps[p] > 0
    /\ Stamped([stamps EXCEPT ![p] = 0])
    /\ UNCHANGED resolverVars

NewTenant(t, s) ==
    /\ CreateTenant(t, s)
    /\ UNCHANGED <<stamps, walks>>

\* The posts go with their tenant.
DropTenant(t) ==
    /\ DeleteTenant(t)
    /\ Stamped([p \in Post |-> IF HomeOf[p] = t THEN 0 ELSE stamps[p]])

-----------------------------------------------------------------------------
(* The requests. *)

\* The first page of a walk, or the next.
AskPage(w, s) ==
    /\ ResolveSlug(w, s)
    /\ \/ /\ walks[w].at \in {"none", "end"}
          /\ walks' = [walks EXCEPT ![w] = [NoWalk EXCEPT
               !.at = "between", !.slug = s,
               !.steady = UNION {PublishedBy(t) : t \in {u \in Tenant : Owner(u, s)}}]]
       \/ /\ walks[w].at = "between"
          /\ s = walks[w].slug
          /\ UNCHANGED walks
    /\ UNCHANGED stamps

\* fetchPage, first statement: no row is an error, and the page may be asked
\* for again.
PageVersion(w) ==
    /\ lookups[w].at = "resolved"
    /\ walks[w].at = "between"
    /\ \/ /\ tenants[lookups[w].tenant].state = "live"
          /\ walks' = [walks EXCEPT ![w].at = "rows"]
          /\ UNCHANGED lookups
       \/ /\ tenants[lookups[w].tenant].state # "live"
          /\ Release(w)
          /\ UNCHANGED walks
    /\ UNCHANGED <<tenants, cache, sinceSweep, stamps>>

\* Mutant: the cursor is the published_at of the last row alone.
RowsByStamp(t, cursor) ==
    {x \in PublishedBy(t) : cursor = NoCursor \/ x[1] < cursor[1]}

\* listStatement: the rows strictly before the cursor.
RowsBefore(t, cursor) ==
    {x \in PublishedBy(t) : cursor = NoCursor \/ Before(x, cursor)}

\* order by published_at desc, id desc
NewestFirst(X) ==
    CHOOSE rows \in [1..Cardinality(X) -> X] :
        \A m, n \in 1..Cardinality(X) : m < n => Before(rows[n], rows[m])

\* limit PageSize + 1: one more row tells that there is a next page.
PageRows(w) ==
    LET rows == NewestFirst(RowsBefore(lookups[w].tenant, walks[w].cursor))
        more == Len(rows) > PageSize
        page == IF more THEN SubSeq(rows, 1, PageSize) ELSE rows
    IN  /\ walks[w].at = "rows"
        /\ walks' = [walks EXCEPT
             ![w].at = IF more THEN "between" ELSE "end",
             ![w].got = @ \o page,
             ![w].cursor = IF more THEN Last(page) ELSE NoCursor]
        /\ Release(w)
        /\ UNCHANGED <<tenants, cache, sinceSweep, stamps>>

VisitSite(v, s) ==
    /\ ResolveSlug(v, s)
    /\ UNCHANGED <<stamps, walks>>

\* The tenant's row, or a 404 when it is gone since it was cached.
SiteRow(v) ==
    /\ lookups[v].at = "resolved"
    /\ Release(v)
    /\ UNCHANGED <<tenants, cache, sinceSweep, stamps, walks>>

\* The rest of ResolveSlug, for walkers and visitors.
ResolveMiss(r) ==
    /\ \/ \E t \in Tenant : QuerySlug(r, t)
       \/ SlugNotFound(r)
       \/ StoreEntry(r)
    /\ UNCHANGED <<stamps, walks>>

\* A new process: requests in flight are lost, readers ask again.
Restart ==
    /\ RestartResolver
    /\ walks' = [w \in Walker |-> [walks[w] EXCEPT !.at =
                   IF @ = "rows" THEN "between" ELSE @]]
    /\ UNCHANGED stamps

Tick == ResolverTick /\ UNCHANGED <<stamps, walks>>

PublicReadNext ==
    \/ \E p \in Post, stamp \in 1..MaxStamp : PublishPost(p, stamp)
    \/ \E p \in Post : WithdrawPost(p)
    \/ \E t \in Tenant, s \in Slug : NewTenant(t, s)
    \/ \E t \in Tenant : DropTenant(t)
    \/ \E w \in Walker, s \in Slug : AskPage(w, s)
    \/ \E w \in Walker : PageVersion(w) \/ PageRows(w)
    \/ \E v \in Visitor, s \in Slug : VisitSite(v, s)
    \/ \E v \in Visitor : SiteRow(v)
    \/ \E r \in Reader : ResolveMiss(r)
    \/ Restart
    \/ Tick

PublicReadSpec == PublicReadInit /\ [][PublicReadNext]_publicVars

-----------------------------------------------------------------------------
(* Properties. *)

\* "Stable under concurrent writes (keyset, not OFFSET)": the pages, one after
\* the other, are strictly newest first (no entry twice, none out of order, posts
\* with equal published_at included), and a reader that has come to the last page
\* has got every post that was in the list when it began and was left alone,
\* whatever was published, withdrawn or moved around it, and whichever process,
\* cache entry or tenant answered each page.
StableWalk ==
    \A w \in Walker : LET got == walks[w].got IN
        /\ \A n \in 1..(Len(got) - 1) : Before(got[n + 1], got[n])
        /\ walks[w].at = "end" => \A x \in walks[w].steady : \E n \in DOMAIN got : got[n] = x
=============================================================================
