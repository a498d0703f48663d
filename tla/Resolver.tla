------------------------------- MODULE Resolver -------------------------------
(***************************************************************************)
(* internal/tenancy: the slugs of tenants, and the cache in front of them  *)
(* that every public request of a process shares.  Slugs are unique among  *)
(* live tenants and never change, but the slug of a deleted tenant may be  *)
(* taken again.                                                            *)
(*                                                                         *)
(* A lookup that misses leaves the lock, reads the database, and takes the *)
(* lock again to store what it has read; other requests run in between.    *)
(* Timers are relative to now, as in JobQueue: left is expiresAt - now.    *)
(***************************************************************************)
EXTENDS Integers, FiniteSets

CONSTANTS
    Slug,
    Tenant,
    NoTenant,
    Reader,     \* public requests in flight
    TTL,        \* resolve.go: ttl
    MaxFetch    \* bound: from the read of the database to the store of its answer

ASSUME ResolverAssumption ==
    /\ NoTenant \notin Tenant
    /\ Slug # {}
    /\ TTL \in Nat \ {0}
    /\ MaxFetch \in Nat

VARIABLES
    tenants,     \* the tenants table; gone: for how long a deleted one is deleted
    cache,       \* slug -> what is cached; NoTenant: no entry
    sinceSweep,  \* now - lastSweep
    lookups      \* the requests inside ResolveSlug, and what they got from it

resolverVars == <<tenants, cache, sinceSweep, lookups>>

-----------------------------------------------------------------------------
\* Past this, gone is told apart no more.
MaxGone == TTL + MaxFetch + 1

TenantRow == [state: {"absent", "live", "deleted"}, slug: Slug, gone: 0..MaxGone]

Entry == [tenant: Tenant \cup {NoTenant}, left: (-TTL - 1)..TTL]

\* query: the cache did not have the slug; store: the database did, age ago;
\* resolved: ResolveSlug has returned tenant.
Lookup == [at: {"idle", "query", "store", "resolved"}, slug: Slug,
           tenant: Tenant \cup {NoTenant}, age: 0..MaxFetch]

NoEntry == [tenant |-> NoTenant, left |-> 0]

NoLookup == [at |-> "idle", slug |-> CHOOSE s \in Slug : TRUE,
             tenant |-> NoTenant, age |-> 0]

ResolverTypeOK ==
    /\ tenants \in [Tenant -> TenantRow]
    /\ cache \in [Slug -> Entry]
    /\ sinceSweep \in 0..(TTL + 1)
    /\ lookups \in [Reader -> Lookup]

\* lastSweep is the zero time at first.
ResolverInit ==
    /\ tenants = [t \in Tenant |-> [state |-> "absent", gone |-> 0,
                                    slug |-> CHOOSE s \in Slug : TRUE]]
    /\ cache = [s \in Slug |-> NoEntry]
    /\ sinceSweep = TTL + 1
    /\ lookups = [r \in Reader |-> NoLookup]

Owner(t, s) == tenants[t].state = "live" /\ tenants[t].slug = s

-----------------------------------------------------------------------------
(* The tenants, as handleTenantsCreate and handleTenantsDelete leave them. *)

CreateTenant(t, s) ==
    /\ tenants[t].state = "absent"
    /\ \A u \in Tenant : ~Owner(u, s)
    /\ tenants' = [tenants EXCEPT ![t].state = "live", ![t].slug = s]
    /\ UNCHANGED <<cache, sinceSweep, lookups>>

DeleteTenant(t) ==
    /\ tenants[t].state = "live"
    /\ tenants' = [tenants EXCEPT ![t].state = "deleted"]
    /\ UNCHANGED <<cache, sinceSweep, lookups>>

-----------------------------------------------------------------------------
(* ResolveSlug *)

\* Mutant: lastSweep is set on every access.
SweepOnAccessAlways ==
    /\ cache' = IF sinceSweep > TTL
                THEN [s \in Slug |-> IF cache[s].left < 0 THEN NoEntry ELSE cache[s]]
                ELSE cache
    /\ sinceSweep' = 0

\* At most once per TTL, whatever has expired is dropped.
SweepOnAccess ==
    IF sinceSweep > TTL
    THEN /\ cache' = [s \in Slug |-> IF cache[s].left < 0 THEN NoEntry ELSE cache[s]]
         /\ sinceSweep' = 0
    ELSE UNCHANGED <<cache, sinceSweep>>

\* Mutant: the entry is valid until it is swept.
HitUnlessSwept(s) == cache[s].tenant # NoTenant

Hit(s) == cache[s].tenant # NoTenant /\ cache[s].left > 0

\* Under the lock: the entry is read before the sweep.
ResolveSlug(r, s) ==
    /\ lookups[r].at = "idle"
    /\ SweepOnAccess
    /\ lookups' = [lookups EXCEPT ![r] =
         IF Hit(s)
         THEN [at |-> "resolved", slug |-> s, tenant |-> cache[s].tenant, age |-> 0]
         ELSE [at |-> "query", slug |-> s, tenant |-> NoTenant, age |-> 0]]
    /\ UNCHANGED tenants

Release(r) == lookups' = [lookups EXCEPT ![r] = NoLookup]

QuerySlug(r, t) ==
    /\ lookups[r].at = "query"
    /\ Owner(t, lookups[r].slug)
    /\ lookups' = [lookups EXCEPT ![r].at = "store", ![r].tenant = t]
    /\ UNCHANGED <<tenants, cache, sinceSweep>>

\* ErrNotFound is not cached.
SlugNotFound(r) ==
    /\ lookups[r].at = "query"
    /\ \A t \in Tenant : ~Owner(t, lookups[r].slug)
    /\ Release(r)
    /\ UNCHANGED <<tenants, cache, sinceSweep>>

\* Under the lock again, over whatever is there by now.
StoreEntry(r) ==
    /\ lookups[r].at = "store"
    /\ cache' = [cache EXCEPT ![lookups[r].slug] = [tenant |-> lookups[r].tenant,
                                                    left |-> TTL]]
    /\ lookups' = [lookups EXCEPT ![r].at = "resolved", ![r].age = 0]
    /\ UNCHANGED <<tenants, sinceSweep>>

\* The process: a new one begins with an empty cache.
RestartResolver ==
    /\ cache' = [s \in Slug |-> NoEntry]
    /\ sinceSweep' = TTL + 1
    /\ lookups' = [r \in Reader |-> NoLookup]
    /\ UNCHANGED tenants

LessOne(n, floor) == IF n > floor THEN n - 1 ELSE floor

OneMore(n, ceiling) == IF n < ceiling THEN n + 1 ELSE ceiling

\* Time passes, unless an answer would be older than MaxFetch when it is stored.
ResolverTick ==
    /\ \A r \in Reader : lookups[r].at = "store" => lookups[r].age < MaxFetch
    /\ tenants' = [t \in Tenant |-> [tenants[t] EXCEPT !.gone =
                     IF tenants[t].state = "deleted" THEN OneMore(@, MaxGone) ELSE @]]
    /\ cache' = [s \in Slug |-> [cache[s] EXCEPT !.left =
                     IF cache[s].tenant = NoTenant THEN @ ELSE LessOne(@, -TTL - 1)]]
    /\ sinceSweep' = OneMore(sinceSweep, TTL + 1)
    /\ lookups' = [r \in Reader |-> [lookups[r] EXCEPT !.age =
                     IF lookups[r].at = "store" THEN @ + 1 ELSE @]]

-----------------------------------------------------------------------------
(* Properties. *)

ResolvesRecent(r) ==
    lookups[r].at # "resolved" /\ lookups'[r].at = "resolved"
    => LET t == tenants[lookups'[r].tenant]
       IN  t.slug = lookups'[r].slug /\ t.gone < TTL + MaxFetch

\* A slug resolves to a tenant that has it, or lost it less than TTL plus one
\* fetch ago: DefaultTTL "bounds how long a tenant rename/purge may lag", the
\* fetch aside, even when a slow miss stores its answer over a newer one.
StaleAtMost == [][\A r \in Reader : ResolvesRecent(r)]_resolverVars

LeavesNoneOld(r) ==
    lookups[r].at = "idle" /\ lookups'[r].at # "idle"
    => \A s \in Slug : cache'[s].left >= -TTL

\* "Light sweep on access bounds cache growth": a lookup leaves no entry behind
\* that has been expired for more than a TTL.
SweepBounds == [][\A r \in Reader : LeavesNoneOld(r)]_resolverVars
=============================================================================
