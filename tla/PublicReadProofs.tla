--------------------------- MODULE PublicReadProofs ---------------------------
(***************************************************************************)
(* Proofs about the public read API and the resolver in front of it, for   *)
(* every set of slugs, tenants, readers and posts, and every TTL.          *)
(***************************************************************************)
EXTENDS PublicRead, FiniteSetTheorems, SequenceTheorems, WellFoundedInduction, TLAPS

-----------------------------------------------------------------------------
(* The resolver: types. *)

LEMMA ResolverDefaults ==
  /\ (CHOOSE s \in Slug : TRUE) \in Slug
  /\ NoEntry \in Entry /\ NoEntry.tenant = NoTenant /\ NoEntry.left = 0
  /\ NoLookup \in Lookup /\ NoLookup.at = "idle"
  /\ TTL \in Nat \ {0} /\ MaxFetch \in Nat /\ MaxGone \in Nat /\ NoTenant \notin Tenant
  BY ResolverAssumption DEF NoEntry, Entry, NoLookup, Lookup, MaxGone

\* What may happen to the resolver's state; Release(r) is the end of a request.
ResolverStep ==
    \/ \E t \in Tenant, s \in Slug : CreateTenant(t, s)
    \/ \E t \in Tenant : DeleteTenant(t)
    \/ \E r \in Reader, s \in Slug : ResolveSlug(r, s)
    \/ \E r \in Reader, t \in Tenant : QuerySlug(r, t)
    \/ \E r \in Reader : StoreEntry(r)
    \/ \E r \in Reader : Release(r) /\ UNCHANGED <<tenants, cache, sinceSweep>>
    \/ RestartResolver
    \/ ResolverTick

LEMMA PublicStepsResolve ==
  PublicReadNext => ResolverStep \/ UNCHANGED resolverVars
  <1> SUFFICES ASSUME PublicReadNext PROVE ResolverStep \/ UNCHANGED resolverVars
    OBVIOUS
  <1>0. Walker \subseteq Reader /\ Visitor \subseteq Reader
    BY PublicReadAssumption
  <1> QED
    BY <1>0
    DEF PublicReadNext, ResolverStep, resolverVars, PublishPost, WithdrawPost, NewTenant,
        DropTenant, AskPage, PageVersion, PageRows, VisitSite, SiteRow, ResolveMiss,
        SlugNotFound, Restart, Tick

LEMMA ResolverTypeInit == ResolverInit => ResolverTypeOK
  BY ResolverDefaults DEF ResolverInit, ResolverTypeOK, TenantRow

LEMMA ResolverTypeStep ==
  ASSUME ResolverTypeOK, ResolverStep \/ UNCHANGED resolverVars
  PROVE  ResolverTypeOK'
  <1> USE ResolverDefaults
  <1>1. ASSUME NEW t \in Tenant, NEW s \in Slug, CreateTenant(t, s)
        PROVE  ResolverTypeOK'
    BY <1>1 DEF CreateTenant, ResolverTypeOK, TenantRow
  <1>2. ASSUME NEW t \in Tenant, DeleteTenant(t)
        PROVE  ResolverTypeOK'
    BY <1>2 DEF DeleteTenant, ResolverTypeOK, TenantRow
  <1>3. ASSUME NEW r \in Reader, NEW s \in Slug, ResolveSlug(r, s)
        PROVE  ResolverTypeOK'
    <2>1. cache[s] \in Entry
      BY DEF ResolverTypeOK
    <2>2. lookups' \in [Reader -> Lookup]
      BY <1>3, <2>1 DEF ResolveSlug, ResolverTypeOK, Lookup, Entry
    <2>3. cache' \in [Slug -> Entry] /\ sinceSweep' \in 0..(TTL + 1)
      BY <1>3 DEF ResolveSlug, SweepOnAccess, ResolverTypeOK
    <2> QED BY <1>3, <2>2, <2>3 DEF ResolveSlug, ResolverTypeOK
  <1>4. ASSUME NEW r \in Reader, NEW t \in Tenant, QuerySlug(r, t)
        PROVE  ResolverTypeOK'
    BY <1>4 DEF QuerySlug, ResolverTypeOK, Lookup
  <1>5. ASSUME NEW r \in Reader, StoreEntry(r)
        PROVE  ResolverTypeOK'
    <2>1. lookups[r] \in Lookup
      BY DEF ResolverTypeOK
    <2>2. [tenant |-> lookups[r].tenant, left |-> TTL] \in Entry
      BY <2>1 DEF Lookup, Entry
    <2>3. [lookups[r] EXCEPT !.at = "resolved", !.age = 0] \in Lookup
      <3>1. ASSUME NEW l \in Lookup
            PROVE  [l EXCEPT !.at = "resolved", !.age = 0] \in Lookup
        <4>1. 0 \in 0..MaxFetch
          OBVIOUS
        <4> QED BY <4>1 DEF Lookup
      <3> QED BY <2>1, <3>1
    <2>4. lookups' = [lookups EXCEPT ![r] = [lookups[r] EXCEPT !.at = "resolved", !.age = 0]]
      <3>1. /\ lookups' = [lookups EXCEPT ![r].at = "resolved", ![r].age = 0]
            /\ lookups \in [Reader -> Lookup]
        BY <1>5 DEF StoreEntry, ResolverTypeOK
      <3> QED BY <3>1
    <2>5. cache' \in [Slug -> Entry]
      BY <1>5, <2>2 DEF StoreEntry, ResolverTypeOK
    <2> QED BY <1>5, <2>3, <2>4, <2>5 DEF StoreEntry, ResolverTypeOK
  <1>6. ASSUME NEW r \in Reader, Release(r), UNCHANGED <<tenants, cache, sinceSweep>>
        PROVE  ResolverTypeOK'
    BY <1>6 DEF Release, ResolverTypeOK
  <1>7. CASE RestartResolver
    BY <1>7 DEF RestartResolver, ResolverTypeOK
  <1>8. CASE ResolverTick
    <2>1. ASSUME NEW t \in Tenant
          PROVE  tenants'[t] \in TenantRow
      <3>1. /\ tenants[t] \in TenantRow /\ tenants[t].gone \in 0..MaxGone
            /\ tenants'[t] = [tenants[t] EXCEPT !.gone =
                 IF tenants[t].state = "deleted" THEN OneMore(tenants[t].gone, MaxGone)
                 ELSE tenants[t].gone]
        BY <1>8 DEF ResolverTick, ResolverTypeOK, TenantRow
      <3>2. OneMore(tenants[t].gone, MaxGone) \in 0..MaxGone
        BY <3>1 DEF OneMore
      <3> QED BY <3>1, <3>2 DEF TenantRow
    <2>2. ASSUME NEW s \in Slug
          PROVE  cache'[s] \in Entry
      <3>1. /\ cache[s] \in Entry /\ cache[s].left \in (-TTL - 1)..TTL
            /\ cache'[s] = [cache[s] EXCEPT !.left =
                 IF cache[s].tenant = NoTenant THEN cache[s].left
                 ELSE LessOne(cache[s].left, -TTL - 1)]
        BY <1>8 DEF ResolverTick, ResolverTypeOK, Entry
      <3>2. LessOne(cache[s].left, -TTL - 1) \in (-TTL - 1)..TTL
        BY <3>1 DEF LessOne
      <3> QED BY <3>1, <3>2 DEF Entry
    <2>3. ASSUME NEW r \in Reader
          PROVE  lookups'[r] \in Lookup
      <3>1. /\ lookups[r] \in Lookup /\ lookups[r].age \in 0..MaxFetch
            /\ lookups[r].at = "store" => lookups[r].age < MaxFetch
            /\ lookups'[r] = [lookups[r] EXCEPT !.age =
                 IF lookups[r].at = "store" THEN lookups[r].age + 1 ELSE lookups[r].age]
        BY <1>8 DEF ResolverTick, ResolverTypeOK, Lookup
      <3>2. (IF lookups[r].at = "store" THEN lookups[r].age + 1 ELSE lookups[r].age)
            \in 0..MaxFetch
        BY <3>1
      <3> QED BY <3>1, <3>2 DEF Lookup
    <2>4. sinceSweep' \in 0..(TTL + 1)
      BY <1>8 DEF ResolverTick, ResolverTypeOK, OneMore
    <2> QED BY <1>8, <2>1, <2>2, <2>3, <2>4 DEF ResolverTick, ResolverTypeOK
  <1>9. CASE UNCHANGED resolverVars
    BY <1>9 DEF resolverVars, ResolverTypeOK
  <1> QED BY <1>1, <1>2, <1>3, <1>4, <1>5, <1>6, <1>7, <1>8, <1>9 DEF ResolverStep

LEMMA ResolverTypeInvariant == PublicReadSpec => []ResolverTypeOK
  <1>1. PublicReadInit => ResolverTypeOK
    BY ResolverTypeInit DEF PublicReadInit
  <1>2. ResolverTypeOK /\ [PublicReadNext]_publicVars => ResolverTypeOK'
    BY PublicStepsResolve, ResolverTypeStep DEF publicVars, resolverVars
  <1> QED BY <1>1, <1>2, PTL DEF PublicReadSpec

-----------------------------------------------------------------------------
(* The resolver: how stale an answer may be, and how old an entry. *)

\* Tenant t has, or had, the slug s.
Had(t, s) == t \in Tenant /\ tenants[t].state # "absent" /\ tenants[t].slug = s

\* Only a deleted tenant is gone.  What is cached was the owner when it was read,
\* and an entry that is valid is as much shorter as its tenant is longer gone; an
\* answer on its way to the cache is not older than its tenant is gone.  No entry
\* has been expired for longer than the last sweep is past.
ResolverInv ==
    /\ \A t \in Tenant : tenants[t].state # "deleted" => tenants[t].gone = 0
    /\ \A s \in Slug : cache[s].tenant # NoTenant =>
         /\ Had(cache[s].tenant, s)
         /\ cache[s].left > 0 =>
              tenants[cache[s].tenant].gone + cache[s].left <= TTL + MaxFetch
    /\ \A r \in Reader : lookups[r].at = "store" =>
         /\ Had(lookups[r].tenant, lookups[r].slug)
         /\ tenants[lookups[r].tenant].gone <= lookups[r].age
    /\ \A s \in Slug : cache[s].left >= -sinceSweep

LEMMA ResolverInvInit == ResolverInit => ResolverInv
  BY ResolverDefaults DEF ResolverInit, ResolverInv

\* The ranges of the numbers.
LEMMA ResolverNumbers ==
  ASSUME ResolverTypeOK
  PROVE  /\ TTL \in Nat \ {0} /\ MaxFetch \in Nat /\ sinceSweep \in 0..(TTL + 1)
         /\ \A t \in Tenant : tenants[t] \in TenantRow /\ tenants[t].gone \in 0..MaxGone
         /\ \A s \in Slug : /\ cache[s] \in Entry /\ cache[s].left \in (-TTL - 1)..TTL
                            /\ cache[s].tenant \in Tenant \cup {NoTenant}
         /\ \A r \in Reader : /\ lookups[r] \in Lookup /\ lookups[r].age \in 0..MaxFetch
                              /\ lookups[r].slug \in Slug
                              /\ lookups[r].tenant \in Tenant \cup {NoTenant}
  BY ResolverDefaults DEF ResolverTypeOK, TenantRow, Entry, Lookup

\* A step that leaves the tenants alone has only the entries and the answers on
\* their way to account for that are new.
LEMMA ResolverInvKept ==
  ASSUME ResolverTypeOK, ResolverInv, tenants' = tenants,
         \A s \in Slug : cache'[s] \in {cache[s], NoEntry},
         \A r \in Reader : lookups'[r] = lookups[r] \/ lookups'[r].at # "store",
         \A s \in Slug : cache'[s].left >= -sinceSweep'
  PROVE  ResolverInv'
  <1>1. ASSUME NEW s \in Slug, cache'[s].tenant # NoTenant
        PROVE  /\ Had(cache'[s].tenant, s)
               /\ cache'[s].left > 0 =>
                    tenants[cache'[s].tenant].gone + cache'[s].left <= TTL + MaxFetch
    <2>1. cache'[s] = cache[s]
      BY <1>1, ResolverDefaults
    <2> QED BY <1>1, <2>1 DEF ResolverInv
  <1>2. ASSUME NEW r \in Reader, lookups'[r].at = "store"
        PROVE  /\ Had(lookups'[r].tenant, lookups'[r].slug)
               /\ tenants[lookups'[r].tenant].gone <= lookups'[r].age
    <2>1. lookups'[r] = lookups[r]
      BY <1>2
    <2> QED BY <1>2, <2>1 DEF ResolverInv
  <1> QED BY <1>1, <1>2 DEF ResolverInv, Had

\* What a lookup leaves in the cache.
LEMMA SweepLeaves ==
  ASSUME ResolverTypeOK, ResolverInv, SweepOnAccess
  PROVE  /\ \A s \in Slug : cache'[s] \in {cache[s], NoEntry}
         /\ \A s \in Slug : cache'[s].left >= -sinceSweep' /\ cache'[s].left >= -TTL
  <1>0. /\ TTL \in Nat \ {0} /\ sinceSweep \in 0..(TTL + 1)
        /\ \A s \in Slug : cache[s].left \in (-TTL - 1)..TTL
        /\ \A s \in Slug : cache[s].left >= -sinceSweep
        /\ NoEntry.left = 0
    BY ResolverNumbers, ResolverDefaults DEF ResolverInv
  <1>1. CASE sinceSweep > TTL
    <2>1. /\ \A s \in Slug : cache'[s] = IF cache[s].left < 0 THEN NoEntry ELSE cache[s]
          /\ sinceSweep' = 0
      BY <1>1 DEF SweepOnAccess
    <2>2. ASSUME NEW s \in Slug PROVE cache'[s].left >= 0
      BY <1>0, <2>1
    <2> QED BY <1>0, <2>1, <2>2
  <1>2. CASE ~(sinceSweep > TTL)
    BY <1>0, <1>2 DEF SweepOnAccess
  <1> QED BY <1>1, <1>2

LEMMA ResolverInvStep ==
  ASSUME ResolverTypeOK, ResolverInv, ResolverStep \/ UNCHANGED resolverVars
  PROVE  ResolverInv'
  <1>0. /\ TTL \in Nat \ {0} /\ MaxFetch \in Nat /\ sinceSweep \in 0..(TTL + 1)
        /\ \A t \in Tenant : tenants[t] \in TenantRow /\ tenants[t].gone \in 0..MaxGone
        /\ \A s \in Slug : /\ cache[s] \in Entry /\ cache[s].left \in (-TTL - 1)..TTL
                           /\ cache[s].tenant \in Tenant \cup {NoTenant}
        /\ \A r \in Reader : /\ lookups[r] \in Lookup /\ lookups[r].age \in 0..MaxFetch
                             /\ lookups[r].slug \in Slug
                             /\ lookups[r].tenant \in Tenant \cup {NoTenant}
    BY ResolverNumbers
  <1>d. /\ NoEntry.left = 0 /\ NoLookup.at = "idle" /\ NoTenant \notin Tenant /\ MaxGone \in Nat
    BY ResolverDefaults
  <1>t. ASSUME UNCHANGED <<cache, sinceSweep, lookups>>,
               \A t \in Tenant : tenants'[t].state # "deleted" => tenants'[t].gone = 0,
               \A t \in Tenant : tenants[t].state # "absent" =>
                 /\ tenants'[t].state # "absent" /\ tenants'[t].slug = tenants[t].slug
                 /\ tenants'[t].gone = tenants[t].gone
        PROVE  ResolverInv'
    <2>1. ASSUME NEW t, NEW s, Had(t, s)
          PROVE  Had(t, s)' /\ tenants'[t].gone = tenants[t].gone
      BY <1>t, <2>1 DEF Had
    <2>2. ASSUME NEW s \in Slug, cache[s].tenant # NoTenant
          PROVE  /\ Had(cache[s].tenant, s)'
                 /\ cache[s].left > 0 =>
                      tenants'[cache[s].tenant].gone + cache[s].left <= TTL + MaxFetch
      <3>1. PICK t : t = cache[s].tenant
        OBVIOUS
      <3> QED BY <1>t, <2>1, <2>2, <3>1 DEF ResolverInv, Had
    <2>3. ASSUME NEW r \in Reader, lookups[r].at = "store"
          PROVE  /\ Had(lookups[r].tenant, lookups[r].slug)'
                 /\ tenants'[lookups[r].tenant].gone <= lookups[r].age
      <3>1. PICK t : t = lookups[r].tenant
        OBVIOUS
      <3> QED BY <1>t, <2>1, <2>3, <3>1 DEF ResolverInv, Had
    <2> QED BY <1>t, <2>2, <2>3 DEF ResolverInv, Had
  <1>1. ASSUME NEW t \in Tenant, NEW s \in Slug, CreateTenant(t, s)
        PROVE  ResolverInv'
    <2>1. /\ tenants[t].state = "absent" /\ tenants'[t].state = "live"
          /\ tenants'[t].gone = tenants[t].gone
          /\ \A u \in Tenant \ {t} : tenants'[u] = tenants[u]
          /\ UNCHANGED <<cache, sinceSweep, lookups>>
      BY <1>0, <1>1 DEF CreateTenant, ResolverTypeOK, TenantRow
    <2> QED BY <1>t, <2>1 DEF ResolverInv
  <1>2. ASSUME NEW t \in Tenant, DeleteTenant(t)
        PROVE  ResolverInv'
    <2>1. /\ tenants'[t].state = "deleted" /\ tenants'[t].slug = tenants[t].slug
          /\ tenants'[t].gone = tenants[t].gone
          /\ \A u \in Tenant \ {t} : tenants'[u] = tenants[u]
          /\ UNCHANGED <<cache, sinceSweep, lookups>>
      BY <1>0, <1>2 DEF DeleteTenant, ResolverTypeOK, TenantRow
    <2> QED BY <1>t, <2>1 DEF ResolverInv
  <1>3. ASSUME NEW r \in Reader, NEW s \in Slug, ResolveSlug(r, s)
        PROVE  ResolverInv'
    <2>1. /\ tenants' = tenants /\ SweepOnAccess
          /\ lookups'[r].at # "store" /\ \A q \in Reader \ {r} : lookups'[q] = lookups[q]
      BY <1>3 DEF ResolveSlug, ResolverTypeOK
    <2> QED BY <2>1, SweepLeaves, ResolverInvKept
  <1>4. ASSUME NEW r \in Reader, NEW t \in Tenant, QuerySlug(r, t)
        PROVE  ResolverInv'
    <2>1. /\ UNCHANGED <<tenants, cache, sinceSweep>>
          /\ tenants[t].state = "live" /\ tenants[t].slug = lookups[r].slug
          /\ lookups'[r].at = "store" /\ lookups'[r].tenant = t
          /\ lookups'[r].slug = lookups[r].slug /\ lookups'[r].age = lookups[r].age
          /\ \A q \in Reader \ {r} : lookups'[q] = lookups[q]
      BY <1>0, <1>4 DEF QuerySlug, Owner, ResolverTypeOK, Lookup
    <2>2. tenants[t].gone = 0
      BY <2>1 DEF ResolverInv
    <2>3. ASSUME NEW q \in Reader, lookups'[q].at = "store"
          PROVE  /\ Had(lookups'[q].tenant, lookups'[q].slug)
                 /\ tenants[lookups'[q].tenant].gone <= lookups'[q].age
      <3>1. CASE q = r
        BY <1>0, <2>1, <2>2, <3>1 DEF Had
      <3>2. CASE q # r
        BY <2>1, <2>3, <3>2 DEF ResolverInv
      <3> QED BY <3>1, <3>2
    <2> QED BY <2>1, <2>3 DEF ResolverInv, Had
  <1>5. ASSUME NEW r \in Reader, StoreEntry(r)
        PROVE  ResolverInv'
    <2>1. PICK s \in Slug, t \in Tenant \cup {NoTenant} : s = lookups[r].slug /\ t = lookups[r].tenant
      BY <1>0
    <2>2. /\ UNCHANGED <<tenants, sinceSweep>> /\ lookups[r].at = "store"
          /\ cache'[s].tenant = t /\ cache'[s].left = TTL
          /\ \A q \in Slug \ {s} : cache'[q] = cache[q]
          /\ lookups'[r].at = "resolved"
          /\ \A q \in Reader \ {r} : lookups'[q] = lookups[q]
      BY <1>0, <1>5, <2>1 DEF StoreEntry, ResolverTypeOK, Lookup
    <2>3. Had(t, s) /\ tenants[t].gone <= lookups[r].age
      BY <2>1, <2>2 DEF ResolverInv
    <2>4. t \in Tenant /\ tenants[t].gone + TTL <= TTL + MaxFetch
      BY <1>0, <2>3 DEF Had, MaxGone
    <2>5. ASSUME NEW q \in Slug, cache'[q].tenant # NoTenant
          PROVE  /\ Had(cache'[q].tenant, q)
                 /\ cache'[q].left > 0 =>
                      tenants[cache'[q].tenant].gone + cache'[q].left <= TTL + MaxFetch
      <3>1. CASE q = s
        BY <2>2, <2>3, <2>4, <3>1
      <3>2. CASE q # s
        BY <2>2, <2>5, <3>2 DEF ResolverInv
      <3> QED BY <3>1, <3>2
    <2>6. \A q \in Slug : cache'[q].left >= -sinceSweep
      BY <1>0, <2>2 DEF ResolverInv
    <2>7. ASSUME NEW q \in Reader, lookups'[q].at = "store"
          PROVE  lookups'[q] = lookups[q]
      BY <2>2, <2>7
    <2> QED BY <2>2, <2>5, <2>6, <2>7 DEF ResolverInv, Had
  <1>6. ASSUME NEW r \in Reader, Release(r), UNCHANGED <<tenants, cache, sinceSweep>>
        PROVE  ResolverInv'
    <2>1. lookups'[r].at # "store" /\ \A q \in Reader \ {r} : lookups'[q] = lookups[q]
      BY <1>6, <1>d DEF Release, ResolverTypeOK
    <2>2. \A s \in Slug : cache'[s].left >= -sinceSweep'
      BY <1>6 DEF ResolverInv
    <2> QED BY <1>6, <2>1, <2>2, ResolverInvKept
  <1>7. CASE RestartResolver
    <2>1. /\ tenants' = tenants /\ sinceSweep' = TTL + 1
          /\ \A s \in Slug : cache'[s] = NoEntry
          /\ \A r \in Reader : lookups'[r].at # "store"
      BY <1>7, <1>d DEF RestartResolver
    <2>2. \A s \in Slug : cache'[s].left >= -sinceSweep'
      BY <1>0, <1>d, <2>1
    <2> QED BY <2>1, <2>2, ResolverInvKept
  <1>8. CASE ResolverTick
    <2>1. ASSUME NEW t \in Tenant
          PROVE  /\ tenants'[t].state = tenants[t].state /\ tenants'[t].slug = tenants[t].slug
                 /\ tenants'[t].gone \in {tenants[t].gone, tenants[t].gone + 1}
                 /\ tenants[t].state # "deleted" => tenants'[t].gone = 0
      <3>1. tenants'[t] = [tenants[t] EXCEPT !.gone =
                 IF tenants[t].state = "deleted" THEN OneMore(tenants[t].gone, MaxGone)
                 ELSE tenants[t].gone]
        BY <1>8 DEF ResolverTick
      <3>2. OneMore(tenants[t].gone, MaxGone) \in {tenants[t].gone, tenants[t].gone + 1}
        BY <1>0, <1>d DEF OneMore
      <3>3. tenants[t].state # "deleted" => tenants[t].gone = 0
        BY DEF ResolverInv
      <3>4. /\ tenants'[t].state = tenants[t].state /\ tenants'[t].slug = tenants[t].slug
            /\ tenants'[t].gone = IF tenants[t].state = "deleted"
                                  THEN OneMore(tenants[t].gone, MaxGone) ELSE tenants[t].gone
        BY <1>0, <3>1 DEF TenantRow
      <3> QED BY <3>2, <3>3, <3>4
    <2>2. ASSUME NEW s \in Slug
          PROVE  /\ cache'[s].tenant = cache[s].tenant
                 /\ cache'[s].left = IF cache[s].tenant = NoTenant THEN cache[s].left
                                     ELSE LessOne(cache[s].left, -TTL - 1)
      <3>1. cache'[s] = [cache[s] EXCEPT !.left =
                 IF cache[s].tenant = NoTenant THEN cache[s].left
                 ELSE LessOne(cache[s].left, -TTL - 1)]
        BY <1>8 DEF ResolverTick
      <3> QED BY <1>0, <3>1 DEF Entry
    <2>3. ASSUME NEW r \in Reader, lookups'[r].at = "store"
          PROVE  /\ lookups[r].at = "store" /\ lookups'[r].tenant = lookups[r].tenant
                 /\ lookups'[r].slug = lookups[r].slug /\ lookups'[r].age = lookups[r].age + 1
      <3>1. lookups'[r] = [lookups[r] EXCEPT !.age =
                 IF lookups[r].at = "store" THEN lookups[r].age + 1 ELSE lookups[r].age]
        BY <1>8 DEF ResolverTick
      <3> QED BY <1>0, <2>3, <3>1 DEF Lookup
    <2>4. \A t \in Tenant : tenants'[t].state # "deleted" => tenants'[t].gone = 0
      BY <2>1
    <2>5. ASSUME NEW s \in Slug, cache'[s].tenant # NoTenant
          PROVE  /\ Had(cache[s].tenant, s)'
                 /\ cache'[s].left > 0 =>
                      tenants'[cache'[s].tenant].gone + cache'[s].left <= TTL + MaxFetch
      <3>1. PICK t \in Tenant : t = cache[s].tenant
        BY <1>0, <2>2, <2>5
      <3>2. Had(t, s) /\ (cache[s].left > 0 => tenants[t].gone + cache[s].left <= TTL + MaxFetch)
        BY <1>d, <3>1 DEF ResolverInv
      <3>3. cache'[s].tenant = t /\ (cache'[s].left > 0 => cache'[s].left = cache[s].left - 1)
        BY <1>0, <1>d, <2>2, <3>1 DEF LessOne
      <3>4. cache'[s].left > 0 => cache[s].left > 0
        BY <1>0, <3>3
      <3>5. Had(t, s)'
        BY <2>1, <3>2 DEF Had
      <3>6. cache'[s].left > 0 => tenants'[t].gone + cache'[s].left <= TTL + MaxFetch
        BY <1>0, <1>d, <2>1, <3>2, <3>3, <3>4
      <3> QED BY <3>3, <3>5, <3>6 DEF Had
    <2>6. ASSUME NEW r \in Reader, lookups'[r].at = "store"
          PROVE  /\ Had(lookups[r].tenant, lookups[r].slug)'
                 /\ tenants'[lookups'[r].tenant].gone <= lookups'[r].age
      <3>1. PICK t, s : t = lookups[r].tenant /\ s = lookups[r].slug
        OBVIOUS
      <3>2. Had(t, s) /\ tenants[t].gone <= lookups[r].age /\ t \in Tenant
        BY <2>3, <2>6, <3>1 DEF ResolverInv, Had
      <3>3. Had(t, s)'
        BY <2>1, <3>2 DEF Had
      <3>4. tenants'[t].gone <= lookups'[r].age
        BY <1>0, <1>d, <2>1, <2>3, <2>6, <3>2
      <3> QED BY <2>3, <2>6, <3>1, <3>3, <3>4 DEF Had
    <2>7. ASSUME NEW s \in Slug
          PROVE  cache'[s].left >= -sinceSweep'
      <3>1. cache[s].left >= -sinceSweep
        BY DEF ResolverInv
      <3>2. sinceSweep' = OneMore(sinceSweep, TTL + 1)
        BY <1>8 DEF ResolverTick
      <3> QED BY <1>0, <2>2, <3>1, <3>2 DEF OneMore, LessOne
    <2> QED BY <2>4, <2>5, <2>6, <2>7 DEF ResolverInv, Had
  <1>9. CASE UNCHANGED resolverVars
    BY <1>9 DEF resolverVars, ResolverInv, Had
  <1> QED BY <1>1, <1>2, <1>3, <1>4, <1>5, <1>6, <1>7, <1>8, <1>9 DEF ResolverStep

LEMMA ResolverInvariant == PublicReadSpec => []ResolverInv
  <1>1. PublicReadInit => ResolverInv
    BY ResolverInvInit DEF PublicReadInit
  <1>2. ResolverTypeOK /\ ResolverInv /\ [PublicReadNext]_publicVars => ResolverInv'
    BY PublicStepsResolve, ResolverInvStep DEF publicVars, resolverVars
  <1> QED BY <1>1, <1>2, ResolverTypeInvariant, PTL DEF PublicReadSpec

\* StaleAtMost: a hit is of an entry that is younger than TTL and was read at most
\* MaxFetch before it was stored, in every order of slow and fast misses.
THEOREM SlugsResolveRecently == PublicReadSpec => StaleAtMost
  <1>1. ResolverTypeOK /\ ResolverInv /\ [PublicReadNext]_publicVars
        => [\A r \in Reader : ResolvesRecent(r)]_resolverVars
    <2> SUFFICES ASSUME ResolverTypeOK, ResolverInv, ResolverStep, NEW q \in Reader,
                        lookups[q].at # "resolved", lookups'[q].at = "resolved"
                 PROVE  /\ tenants[lookups'[q].tenant].slug = lookups'[q].slug
                        /\ tenants[lookups'[q].tenant].gone < TTL + MaxFetch
      BY PublicStepsResolve DEF ResolvesRecent, publicVars, resolverVars
    <2>0. /\ TTL \in Nat \ {0} /\ MaxFetch \in Nat /\ lookups \in [Reader -> Lookup]
          /\ \A t \in Tenant : tenants[t].gone \in Nat
          /\ \A s \in Slug : cache[s].left \in Int
          /\ \A r \in Reader : lookups[r] \in Lookup /\ lookups[r].age \in 0..MaxFetch
          /\ NoLookup.at = "idle"
      BY ResolverNumbers, ResolverDefaults DEF ResolverTypeOK
    <2>1. ASSUME NEW r \in Reader, NEW s \in Slug, ResolveSlug(r, s)
          PROVE  /\ tenants[lookups'[q].tenant].slug = lookups'[q].slug
                 /\ tenants[lookups'[q].tenant].gone < TTL + MaxFetch
      <3>1. q = r /\ Hit(s) /\ lookups'[q].slug = s /\ lookups'[q].tenant = cache[s].tenant
        BY <2>0, <2>1 DEF ResolveSlug
      <3>2. PICK t : t = cache[s].tenant
        OBVIOUS
      <3>3. /\ Had(t, s) /\ tenants[t].gone + cache[s].left <= TTL + MaxFetch
            /\ cache[s].left > 0
        BY <3>1, <3>2 DEF ResolverInv, Hit
      <3> QED BY <2>0, <3>1, <3>2, <3>3 DEF Had
    <2>2. ASSUME NEW r \in Reader, StoreEntry(r)
          PROVE  /\ tenants[lookups'[q].tenant].slug = lookups'[q].slug
                 /\ tenants[lookups'[q].tenant].gone < TTL + MaxFetch
      <3>1. /\ q = r /\ lookups[r].at = "store" /\ lookups'[q].slug = lookups[q].slug
            /\ lookups'[q].tenant = lookups[q].tenant
        BY <2>0, <2>2 DEF StoreEntry, Lookup
      <3>2. PICK t : t = lookups[q].tenant
        OBVIOUS
      <3>3. Had(t, lookups[q].slug) /\ tenants[t].gone <= lookups[q].age
        BY <3>1, <3>2 DEF ResolverInv
      <3> QED BY <2>0, <3>1, <3>2, <3>3 DEF Had
    <2>3. ASSUME NEW r \in Reader, NEW t \in Tenant, QuerySlug(r, t)
          PROVE  FALSE
      BY <2>0, <2>3 DEF QuerySlug, Lookup
    <2>4. CASE ResolverTick
      <3>1. lookups'[q] = [lookups[q] EXCEPT !.age =
              IF lookups[q].at = "store" THEN lookups[q].age + 1 ELSE lookups[q].age]
        BY <2>4 DEF ResolverTick
      <3>2. lookups'[q].at = lookups[q].at
        BY <2>0, <3>1 DEF Lookup
      <3> QED BY <3>2
    <2> QED
      BY <2>0, <2>1, <2>2, <2>3, <2>4
      DEF ResolverStep, CreateTenant, DeleteTenant, Release, RestartResolver
  <1> QED BY <1>1, ResolverTypeInvariant, ResolverInvariant, PTL DEF PublicReadSpec, StaleAtMost

\* SweepBounds: a sweep on access at most once per TTL is enough to leave no entry
\* that has been expired for longer than a TTL.
THEOREM SweepsBoundTheCache == PublicReadSpec => SweepBounds
  <1>1. ResolverTypeOK /\ ResolverInv /\ [PublicReadNext]_publicVars
        => [\A r \in Reader : LeavesNoneOld(r)]_resolverVars
    <2> SUFFICES ASSUME ResolverTypeOK, ResolverInv, ResolverStep, NEW q \in Reader,
                        lookups[q].at = "idle", lookups'[q].at # "idle"
                 PROVE  \A s \in Slug : cache'[s].left >= -TTL
      BY PublicStepsResolve DEF LeavesNoneOld, publicVars, resolverVars
    <2>0. /\ lookups \in [Reader -> Lookup] /\ lookups[q] \in Lookup
          /\ NoLookup.at = "idle"
      BY ResolverDefaults DEF ResolverTypeOK
    <2>1. ASSUME NEW r \in Reader, NEW s \in Slug, ResolveSlug(r, s)
          PROVE  SweepOnAccess
      BY <2>1 DEF ResolveSlug
    <2>2. ASSUME NEW r \in Reader, NEW t \in Tenant, QuerySlug(r, t)
          PROVE  FALSE
      BY <2>0, <2>2 DEF QuerySlug
    <2>3. ASSUME NEW r \in Reader, StoreEntry(r)
          PROVE  FALSE
      BY <2>0, <2>3 DEF StoreEntry
    <2>4. CASE ResolverTick
      <3>1. lookups'[q] = [lookups[q] EXCEPT !.age =
              IF lookups[q].at = "store" THEN lookups[q].age + 1 ELSE lookups[q].age]
        BY <2>4 DEF ResolverTick
      <3>2. lookups'[q].at = lookups[q].at
        BY <2>0, <3>1 DEF Lookup
      <3> QED BY <3>2
    <2>5. CASE RestartResolver \/ \E r \in Reader : Release(r)
      <3>1. lookups'[q].at = "idle"
        BY <2>0, <2>5 DEF RestartResolver, Release
      <3> QED BY <3>1
    <2>6. CASE \E t \in Tenant : DeleteTenant(t) \/ \E s \in Slug : CreateTenant(t, s)
      <3>1. lookups' = lookups
        BY <2>6 DEF CreateTenant, DeleteTenant
      <3> QED BY <3>1
    <2> QED BY <2>1, <2>2, <2>3, <2>4, <2>5, <2>6, SweepLeaves DEF ResolverStep
  <1> QED BY <1>1, ResolverTypeInvariant, ResolverInvariant, PTL DEF PublicReadSpec, SweepBounds

-----------------------------------------------------------------------------
(* The list: its order, and what a page of it is. *)

LEMMA BeforeIsOrder ==
  ASSUME NEW x \in Position, NEW y \in Position, NEW z \in Position
  PROVE  /\ ~Before(x, x)
         /\ Before(x, y) => ~Before(y, x)
         /\ Before(x, y) \/ Before(y, x) \/ x = y
         /\ Before(x, y) /\ Before(y, z) => Before(x, z)
  <1>1. ASSUME NEW u \in Position PROVE u[1] \in Nat /\ u[2] \in Nat /\ u = <<u[1], u[2]>>
    <2>1. PICK s \in 1..MaxStamp, p \in Post : u = <<s, p>>
      BY <1>1 DEF Position
    <2>2. s \in Nat /\ p \in Nat
      BY PublicReadAssumption
    <2> QED BY <2>1, <2>2
  <1>2. /\ x[1] \in Nat /\ x[2] \in Nat /\ y[1] \in Nat /\ y[2] \in Nat
        /\ z[1] \in Nat /\ z[2] \in Nat
        /\ x[1] = y[1] /\ x[2] = y[2] => x = y
    BY <1>1
  <1> QED BY <1>2 DEF Before

\* Counting the rows that are newer gives every row a place of its own.
LEMMA NewestFirstExists ==
  ASSUME NEW X \in SUBSET Position, IsFiniteSet(X)
  PROVE  \E rows \in [1..Cardinality(X) -> X] :
           \A m, n \in 1..Cardinality(X) : m < n => Before(rows[n], rows[m])
  <1> DEFINE N == Cardinality(X)
             From(x) == {y \in X : y = x \/ Before(x, y)}
             place == [x \in X |-> Cardinality(From(x))]
  <1>1. N \in Nat /\ IsFiniteSet(1..N) /\ Cardinality(1..N) = N
    BY FS_CardinalityType, FS_Interval
  <1>2. ASSUME NEW x \in X
        PROVE  IsFiniteSet(From(x)) /\ Cardinality(From(x)) \in 1..N
    <2>1. From(x) \in SUBSET X /\ x \in From(x)
      OBVIOUS
    <2>2. IsFiniteSet(From(x)) /\ Cardinality(From(x)) <= N
      BY <2>1, FS_Subset
    <2>3. Cardinality(From(x)) \in Nat /\ Cardinality(From(x)) # 0
      BY <2>1, <2>2, FS_CardinalityType, FS_EmptySet
    <2> QED BY <1>1, <2>2, <2>3
  <1>3. ASSUME NEW x \in X, NEW y \in X, Before(x, y)
        PROVE  Cardinality(From(y)) < Cardinality(From(x))
    <2>1. From(y) \in SUBSET From(x) /\ x \in From(x) /\ x \notin From(y)
      BY <1>3, BeforeIsOrder
    <2>2. /\ Cardinality(From(y)) <= Cardinality(From(x))
          /\ Cardinality(From(x)) # Cardinality(From(y))
      BY <1>2, <2>1, FS_Subset

    <2> HIDE DEF From
    <2>3. Cardinality(From(x)) \in Nat /\ Cardinality(From(y)) \in Nat
      BY <1>1, <1>2
    <2> QED BY <2>2, <2>3
  <1>4. place \in [X -> 1..N]
    BY <1>2
  <1>5. ASSUME NEW x \in X, NEW y \in X
        PROVE  /\ Before(x, y) => place[y] < place[x]
               /\ place[x] = place[y] => x = y
    <2>1. Before(x, y) => place[y] < place[x]
      BY <1>3
    <2>2. Before(y, x) => place[x] < place[y]
      BY <1>3
    <2>3. place[x] \in Nat /\ place[y] \in Nat
      BY <1>1, <1>4
    <2> QED BY <2>1, <2>2, <2>3, BeforeIsOrder
  <1> HIDE DEF place
  <1>6. place \in Injection(X, 1..N)
    BY <1>4, <1>5 DEF Injection, IsInjective
  <1>7. place \in Surjection(X, 1..N)
    BY <1>1, <1>6, FS_Injection
  <1>8. \A n \in 1..N : \E x \in X : place[x] = n
    BY <1>7 DEF Surjection
  <1> DEFINE rows == [n \in 1..N |-> CHOOSE x \in X : place[x] = n]
  <1>9. rows \in [1..N -> X] /\ \A n \in 1..N : place[rows[n]] = n
    BY <1>8
  <1> HIDE DEF rows
  <1>10. ASSUME NEW m \in 1..N, NEW n \in 1..N, m < n
         PROVE  Before(rows[n], rows[m])
    <2>1. rows[m] \in X /\ rows[n] \in X /\ place[rows[m]] = m /\ place[rows[n]] = n
      BY <1>9
    <2>2. ~Before(rows[m], rows[n]) /\ rows[m] # rows[n]
      BY <1>1, <1>5, <1>10, <2>1
    <2> QED BY <2>1, <2>2, BeforeIsOrder
  <1> QED BY <1>9, <1>10

\* NewestFirst is the rows, each once, in the order of the list.
LEMMA NewestFirstSorts ==
  ASSUME NEW X \in SUBSET Position, IsFiniteSet(X)
  PROVE  /\ NewestFirst(X) \in Seq(X) /\ Len(NewestFirst(X)) = Cardinality(X)
         /\ \A m, n \in 1..Cardinality(X) :
              m < n => Before(NewestFirst(X)[n], NewestFirst(X)[m])
         /\ \A x \in X : \E n \in 1..Cardinality(X) : NewestFirst(X)[n] = x
  <1> DEFINE N == Cardinality(X)
             rows == NewestFirst(X)
  <1>1. N \in Nat /\ IsFiniteSet(1..N) /\ Cardinality(1..N) = N
    BY FS_CardinalityType, FS_Interval
  <1>2. /\ rows \in [1..N -> X]
        /\ \A m, n \in 1..N : m < n => Before(rows[n], rows[m])
    BY NewestFirstExists DEF NewestFirst
  <1> HIDE DEF rows
  <1>3. \A m, n \in 1..N : rows[m] = rows[n] => m = n
    <2> SUFFICES ASSUME NEW m \in 1..N, NEW n \in 1..N, rows[m] = rows[n], m # n
                 PROVE  FALSE
      OBVIOUS
    <2>1. rows[m] \in Position /\ ~Before(rows[m], rows[m])
      BY <1>2, BeforeIsOrder
    <2> QED BY <1>1, <1>2, <2>1
  <1>4. rows \in Injection(1..N, X)
    BY <1>2, <1>3 DEF Injection, IsInjective
  <1>5. rows \in Surjection(1..N, X)
    BY <1>1, <1>4, FS_Injection
  <1>6. \A x \in X : \E n \in 1..N : rows[n] = x
    BY <1>5 DEF Surjection
  <1>7. rows \in Seq(X) /\ Len(rows) = N
    BY <1>1, <1>2, SeqDef, LenProperties
  <1> QED BY <1>2, <1>6, <1>7 DEF rows

LEMMA NoCursorIsNone == NoCursor \notin Position
  <1> SUFFICES ASSUME NoCursor \in Position PROVE FALSE
    OBVIOUS
  <1>1. PICK s \in 1..MaxStamp, p \in Post : NoCursor = <<s, p>>
    BY DEF Position
  <1>2. Len(NoCursor) = 2
    BY <1>1
  <1> QED BY <1>2 DEF NoCursor

\* got is in the order of the list, and rows are all beyond its end.
InOrder(got) == \A m, n \in DOMAIN got : m < n => Before(got[n], got[m])

\* What a page of rows, which are beyond all that was got, adds to it.
Extended(got, page, R, more) ==
    /\ got \o page \in Seq(Position) /\ InOrder(got \o page)
    /\ \A n \in DOMAIN got : n \in DOMAIN (got \o page) /\ (got \o page)[n] = got[n]
    /\ more => /\ Len(got \o page) > 0 /\ Last(page) \in Position
               /\ Last(page) = (got \o page)[Len(got \o page)]
    /\ \A x \in R : \/ \E n \in DOMAIN (got \o page) : (got \o page)[n] = x
                    \/ more /\ Before(x, Last(page))

AllBeyond(got, R) == \A n \in DOMAIN got : \A x \in R : Before(x, got[n])

PageOf(rows) == IF Len(rows) > PageSize THEN SubSeq(rows, 1, PageSize) ELSE rows

\* A page of the rows beyond the cursor keeps the order, and what it leaves out
\* is beyond the next cursor.
LEMMA PageExtends ==
  ASSUME NEW got \in Seq(Position), InOrder(got),
         NEW R \in SUBSET Position, IsFiniteSet(R), AllBeyond(got, R)
  PROVE  Extended(got, PageOf(NewestFirst(R)), R, Len(NewestFirst(R)) > PageSize)
  <1> DEFINE rows == NewestFirst(R)
             more == Len(rows) > PageSize
             page == PageOf(rows)
             N == Cardinality(R)
             M == IF more THEN PageSize ELSE N
             all == got \o page
  <1>1. /\ N \in Nat /\ rows \in Seq(R) /\ Len(rows) = N
        /\ \A m, n \in 1..N : m < n => Before(rows[n], rows[m])
        /\ \A x \in R : \E n \in 1..N : rows[n] = x
    BY NewestFirstSorts, FS_CardinalityType
  <1>16. page = IF more THEN SubSeq(rows, 1, PageSize) ELSE rows
    BY DEF PageOf
  <1>14. (more => N > PageSize) /\ (~more => N <= PageSize)
    BY <1>1, PublicReadAssumption
  <1> HIDE DEF rows, more, page
  <1>2. PageSize \in Nat \ {0}
    BY PublicReadAssumption
  <1>3. M \in Nat /\ M <= N /\ (more => M = PageSize /\ M > 0 /\ M < N) /\ (~more => M = N)
    BY <1>1, <1>2, <1>14
  <1>4. page \in Seq(R) /\ Len(page) = M /\ \A n \in 1..M : page[n] = rows[n]
    <2>1. CASE more
      <3>1. 1 \in 1..(Len(rows) + 1) /\ PageSize \in 0..Len(rows)
        BY <1>1, <1>2, <1>14, <2>1
      <3>2. /\ SubSeq(rows, 1, PageSize) \in Seq(R)
            /\ Len(SubSeq(rows, 1, PageSize)) = IF 1 <= PageSize THEN PageSize - 1 + 1 ELSE 0
            /\ \A i \in 1..(PageSize - 1 + 1) : SubSeq(rows, 1, PageSize)[i] = rows[1 + i - 1]
        BY <1>1, <3>1, SubSeqProperties
      <3>3. /\ Len(SubSeq(rows, 1, PageSize)) = PageSize
            /\ \A i \in 1..PageSize : SubSeq(rows, 1, PageSize)[i] = rows[i]
        BY <1>2, <3>2
      <3> QED BY <1>3, <1>16, <2>1, <3>2, <3>3
    <2>2. CASE ~more
      BY <1>1, <1>3, <1>16, <2>2
    <2> QED BY <2>1, <2>2
  <1> HIDE DEF M, N
  <1>5. page \in Seq(Position)
    BY <1>4, SeqMonotonic
  <1>6. /\ all \in Seq(Position) /\ Len(all) = Len(got) + M
        /\ \A i \in 1..(Len(got) + M) :
             all[i] = IF i <= Len(got) THEN got[i] ELSE page[i - Len(got)]
    BY <1>4, <1>5, ConcatProperties
  <1>7. /\ Len(got) \in Nat /\ DOMAIN got = 1..Len(got) /\ DOMAIN all = 1..(Len(got) + M)
    BY <1>6, LenProperties
  <1>8. \A n \in 1..M : page[n] \in R
    BY <1>4, ElementOfSeq
  <1> HIDE DEF all
  <1>15. ASSUME NEW k \in 1..M
        PROVE  Len(got) + k \in DOMAIN all /\ all[Len(got) + k] = page[k]
    <2> DEFINE i == Len(got) + k
    <2>1. i \in 1..(Len(got) + M) /\ ~(i <= Len(got)) /\ i - Len(got) = k
      BY <1>3, <1>7
    <2> HIDE DEF i
    <2>2. all[i] = page[i - Len(got)]
      BY <1>6, <2>1
    <2>3. i \in DOMAIN all /\ all[i] = page[k]
      BY <1>7, <2>1, <2>2
    <2> QED BY <2>3 DEF i
  <1>9. ASSUME NEW m \in DOMAIN all, NEW n \in DOMAIN all, m < n
        PROVE  Before(all[n], all[m])
    <2>1. CASE n <= Len(got)
      BY <1>3, <1>6, <1>7, <1>9, <2>1 DEF InOrder
    <2>2. CASE m <= Len(got) /\ n > Len(got)
      <3>1. n - Len(got) \in 1..M /\ all[n] = page[n - Len(got)] /\ all[m] = got[m]
            /\ m \in DOMAIN got
        BY <1>3, <1>6, <1>7, <2>2
      <3> QED BY <1>8, <3>1 DEF AllBeyond
    <2>3. CASE m > Len(got)
      <3> DEFINE i == m - Len(got)
                 j == n - Len(got)
      <3>1. i \in 1..M /\ j \in 1..M /\ i < j /\ all[m] = page[i] /\ all[n] = page[j]
        BY <1>3, <1>6, <1>7, <1>9, <2>3
      <3> HIDE DEF i, j
      <3>2. i \in 1..N /\ j \in 1..N
        BY <1>1, <1>3, <3>1
      <3> QED BY <1>1, <1>4, <3>1, <3>2
    <2> QED BY <1>3, <1>7, <2>1, <2>2, <2>3
  <1>10. \A n \in DOMAIN got : n \in DOMAIN all /\ all[n] = got[n]
    BY <1>3, <1>6, <1>7
  <1>11. ASSUME more
         PROVE  Len(all) > 0 /\ Last(page) = rows[M] /\ Last(page) \in Position
                /\ Last(page) = all[Len(all)]
    <2>1. M \in 1..M /\ Len(got) + M > 0
      BY <1>3, <1>7, <1>11
    <2>2. Last(page) = page[M]
      BY <1>4 DEF Last
    <2>3. all[Len(got) + M] = page[M]
      BY <1>15, <2>1
    <2> QED BY <1>4, <1>6, <1>8, <2>1, <2>2, <2>3
  <1>12. ASSUME NEW x \in R
         PROVE  \/ \E n \in DOMAIN all : all[n] = x
                \/ more /\ Before(x, Last(page))
    <2>1. PICK n \in 1..N : rows[n] = x
      BY <1>1
    <2>2. CASE n <= M
      <3>1. n \in 1..M
        BY <1>1, <1>3, <2>2
      <3> QED BY <1>4, <1>15, <2>1, <3>1
    <2>3. CASE ~(n <= M)
      <3>1. more /\ M \in 1..N /\ M < n
        BY <1>1, <1>3, <2>3
      <3>2. Before(x, rows[M])
        BY <1>1, <2>1, <3>1
      <3> QED BY <1>11, <3>1, <3>2
    <2> QED BY <2>2, <2>3
  <1>13. Extended(got, page, R, more)
    BY <1>6, <1>9, <1>10, <1>11, <1>12 DEF all, InOrder, Extended
  <1> QED BY <1>13 DEF page, more, rows

-----------------------------------------------------------------------------
(***************************************************************************)
(* Walks.  What a walk still has to get lies beyond its cursor.  That the  *)
(* next page is answered from the tenant it began with is a matter of the  *)
(* resolver: a post that is steady has kept its tenant alive, a live slug  *)
(* has one owner, and PageVersion refuses any other that a cache may name. *)
(***************************************************************************)
Underway(w) == walks[w].at \in {"between", "rows"}

Got(w, x) == \E n \in DOMAIN walks[w].got : walks[w].got[n] = x

Walking(w) ==
    LET got    == walks[w].got
        cursor == walks[w].cursor
    IN  /\ InOrder(got)
        /\ Underway(w) => IF cursor = NoCursor THEN got = <<>>
                          ELSE Len(got) > 0 /\ cursor = got[Len(got)]
        /\ \A x \in walks[w].steady :
             /\ stamps[x[2]] = x[1] /\ Owner(HomeOf[x[2]], walks[w].slug)
             /\ Got(w, x) \/ (Underway(w) /\ (cursor = NoCursor \/ Before(x, cursor)))
             /\ walks[w].at = "rows" => HomeOf[x[2]] = lookups[w].tenant
        /\ walks[w].at = "rows" => lookups[w].at = "resolved"
        /\ lookups[w].at # "idle" => Underway(w) /\ lookups[w].slug = walks[w].slug

SoleOwners == \A t, u \in Tenant, s \in Slug : Owner(t, s) /\ Owner(u, s) => t = u

ResolvedHad ==
    \A r \in Reader : lookups[r].at = "resolved" => Had(lookups[r].tenant, lookups[r].slug)

WalkInv ==
    /\ PublicReadTypeOK
    /\ SoleOwners
    /\ ResolvedHad
    /\ \A w \in Walker : Walking(w)

LEMMA NoWalkType ==
  /\ NoWalk \in Walk /\ NoWalk.at = "none" /\ NoWalk.got = <<>> /\ NoWalk.steady = {}
  /\ NoWalk.cursor = NoCursor
  <1>1. <<>> \in Seq(Position)
    BY EmptySeq
  <1> QED BY <1>1, ResolverDefaults DEF NoWalk, Walk

LEMMA WalkInit == PublicReadInit => WalkInv
  <1> SUFFICES ASSUME PublicReadInit PROVE WalkInv
    OBVIOUS
  <1>1. PublicReadTypeOK
    <2>1. stamps \in [Post -> 0..MaxStamp]
      BY PublicReadAssumption DEF PublicReadInit
    <2> QED BY <2>1, NoWalkType, ResolverTypeInit DEF PublicReadInit, PublicReadTypeOK
  <1>2. SoleOwners /\ ResolvedHad
    BY ResolverDefaults
    DEF PublicReadInit, ResolverInit, SoleOwners, ResolvedHad, Owner
  <1>3. ASSUME NEW w \in Walker PROVE Walking(w)
    <2>1. walks[w] = NoWalk /\ lookups[w] = NoLookup
      BY PublicReadAssumption DEF PublicReadInit, ResolverInit
    <2> QED BY <2>1, NoWalkType, ResolverDefaults DEF Walking, InOrder, Underway
  <1> QED BY <1>1, <1>2, <1>3 DEF WalkInv

LEMMA WalkImplies == WalkInv => StableWalk
  <1> SUFFICES ASSUME WalkInv, NEW w \in Walker
               PROVE  /\ \A n \in 1..(Len(walks[w].got) - 1) :
                           Before(walks[w].got[n + 1], walks[w].got[n])
                      /\ walks[w].at = "end" => \A x \in walks[w].steady : Got(w, x)
    BY DEF StableWalk, Got
  <1>1. walks[w].got \in Seq(Position) /\ Walking(w)
    BY DEF WalkInv, PublicReadTypeOK, Walk
  <1>2. Len(walks[w].got) \in Nat /\ DOMAIN walks[w].got = 1..Len(walks[w].got)
    BY <1>1, LenProperties
  <1>3. \A n \in 1..(Len(walks[w].got) - 1) :
          n \in DOMAIN walks[w].got /\ n + 1 \in DOMAIN walks[w].got /\ n < n + 1
    BY <1>2
  <1> QED BY <1>1, <1>3 DEF Walking, InOrder, Underway

\* A step creates a tenant, or leaves those there are what they were, or deleted.
LEMMA TenantsMove ==
  ASSUME ResolverTypeOK, ResolverStep \/ UNCHANGED resolverVars
  PROVE  \/ \E t \in Tenant, s \in Slug : CreateTenant(t, s)
         \/ \A t \in Tenant :
              /\ tenants'[t].slug = tenants[t].slug
              /\ tenants[t].state # "absent" => tenants'[t].state # "absent"
              /\ tenants'[t].state = "live" => tenants[t].state = "live"
  <1> DEFINE Kept == \A t \in Tenant :
               /\ tenants'[t].slug = tenants[t].slug
               /\ tenants[t].state # "absent" => tenants'[t].state # "absent"
               /\ tenants'[t].state = "live" => tenants[t].state = "live"
  <1>1. ASSUME NEW v \in Tenant, DeleteTenant(v) PROVE Kept
    BY <1>1 DEF DeleteTenant, ResolverTypeOK, TenantRow
  <1>2. ASSUME ResolverTick, NEW t \in Tenant
        PROVE  tenants'[t].slug = tenants[t].slug /\ tenants'[t].state = tenants[t].state
    <2>1. tenants[t] \in TenantRow
      BY DEF ResolverTypeOK
    <2>2. PICK g : tenants'[t] = [tenants[t] EXCEPT !.gone = g]
      BY <1>2 DEF ResolverTick
    <2> QED BY <2>1, <2>2 DEF TenantRow
  <1>3. ASSUME tenants' = tenants PROVE Kept
    BY <1>3
  <1> QED
    BY <1>1, <1>2, <1>3
    DEF ResolverStep, resolverVars, ResolveSlug, QuerySlug, StoreEntry, RestartResolver

\* A tenant that was created keeps its slug.
LEMMA TenantsKeep ==
  ASSUME ResolverTypeOK, ResolverStep \/ UNCHANGED resolverVars
  PROVE  \A t \in Tenant : tenants[t].state # "absent" =>
           tenants'[t].state # "absent" /\ tenants'[t].slug = tenants[t].slug
  <1>1. ASSUME NEW v \in Tenant, NEW z \in Slug, CreateTenant(v, z),
               NEW t \in Tenant, tenants[t].state # "absent"
        PROVE  tenants'[t] = tenants[t]
    BY <1>1 DEF CreateTenant, ResolverTypeOK
  <1> QED BY <1>1, TenantsMove

LEMMA SoleOwnersStep ==
  ASSUME ResolverTypeOK, SoleOwners, ResolverStep \/ UNCHANGED resolverVars
  PROVE  SoleOwners'
  <1>1. ASSUME NEW v \in Tenant, NEW z \in Slug, CreateTenant(v, z)
        PROVE  SoleOwners'
    <2>1. \A t \in Tenant, s \in Slug :
            Owner(t, s)' => Owner(t, s) \/ (t = v /\ s = z)
      BY <1>1 DEF CreateTenant, Owner, ResolverTypeOK, TenantRow
    <2> QED BY <1>1, <2>1 DEF SoleOwners, CreateTenant
  <1>2. ASSUME \A t \in Tenant : /\ tenants'[t].slug = tenants[t].slug
                                 /\ tenants'[t].state = "live" => tenants[t].state = "live"
        PROVE  SoleOwners'
    BY <1>2 DEF SoleOwners, Owner
  <1> QED BY <1>1, <1>2, TenantsMove

LEMMA ResolvedHadStep ==
  ASSUME ResolverTypeOK, ResolverInv, ResolvedHad, ResolverStep \/ UNCHANGED resolverVars
  PROVE  ResolvedHad'
  <1> SUFFICES ASSUME NEW r \in Reader, lookups'[r].at = "resolved"
               PROVE  Had(lookups[r].tenant, lookups[r].slug)'
    BY DEF ResolvedHad
  <1>1. PICK t, s : t = lookups'[r].tenant /\ s = lookups'[r].slug
    OBVIOUS
  <1>2. Had(t, s)
    <2>0. lookups[r] \in Lookup /\ NoLookup.at = "idle"
      BY ResolverDefaults DEF ResolverTypeOK
    <2>1. ASSUME NEW q \in Reader, NEW z \in Slug, ResolveSlug(q, z)
          PROVE  Had(t, s)
      <3>1. CASE q = r
        <4>1. Hit(z) /\ t = cache[z].tenant /\ s = z
          BY <1>1, <2>1, <3>1 DEF ResolveSlug, ResolverTypeOK
        <4> QED BY <4>1 DEF Hit, ResolverInv
      <3>2. CASE q # r
        BY <1>1, <2>1, <3>2 DEF ResolveSlug, ResolvedHad, ResolverTypeOK
      <3> QED BY <3>1, <3>2
    <2>2. ASSUME NEW q \in Reader, StoreEntry(q)
          PROVE  Had(t, s)
      <3>1. CASE q = r
        <4>1. lookups[r].at = "store" /\ t = lookups[r].tenant /\ s = lookups[r].slug
          BY <1>1, <2>2, <3>1 DEF StoreEntry, ResolverTypeOK, Lookup
        <4> QED BY <4>1 DEF ResolverInv
      <3>2. CASE q # r
        BY <1>1, <2>2, <3>2 DEF StoreEntry, ResolvedHad, ResolverTypeOK
      <3> QED BY <3>1, <3>2
    <2>3. ASSUME lookups[r].at = "resolved", t = lookups[r].tenant, s = lookups[r].slug
          PROVE  Had(t, s)
      BY <2>3 DEF ResolvedHad
    <2>4. ASSUME NEW q \in Reader, NEW v \in Tenant, QuerySlug(q, v)
          PROVE  lookups'[r] = lookups[r]
      BY <2>4 DEF QuerySlug, ResolverTypeOK, Lookup
    <2>5. ASSUME NEW q \in Reader, Release(q)
          PROVE  lookups'[r] = lookups[r]
      BY <2>0, <2>5 DEF Release, ResolverTypeOK
    <2>6. CASE ResolverTick
      <3>1. lookups'[r] = [lookups[r] EXCEPT !.age =
                 IF lookups[r].at = "store" THEN lookups[r].age + 1 ELSE lookups[r].age]
        BY <2>6 DEF ResolverTick
      <3> QED BY <1>1, <2>0, <2>3, <3>1 DEF Lookup
    <2>7. CASE RestartResolver
      BY <2>0, <2>7 DEF RestartResolver
    <2>8. ASSUME lookups' = lookups PROVE Had(t, s)
      BY <1>1, <2>3, <2>8
    <2> QED
      BY <1>1, <2>1, <2>2, <2>3, <2>4, <2>5, <2>6, <2>7, <2>8
      DEF ResolverStep, CreateTenant, DeleteTenant, resolverVars
  <1>3. Had(t, s)'
    BY <1>2, TenantsKeep DEF Had
  <1> QED BY <1>1, <1>3

\* The rows of a list.
LEMMA PublishedRows ==
  ASSUME PublicReadTypeOK, NEW t
  PROVE  /\ PublishedBy(t) \in SUBSET Position /\ IsFiniteSet(PublishedBy(t))
         /\ \A x \in Position :
              x \in PublishedBy(t) <=> HomeOf[x[2]] = t /\ stamps[x[2]] = x[1]
  <1>1. stamps \in [Post -> 0..MaxStamp] /\ MaxStamp \in Nat /\ IsFiniteSet(Post)
    BY PublicReadAssumption DEF PublicReadTypeOK
  <1>2. ASSUME NEW x \in PublishedBy(t)
        PROVE  x \in Position /\ x[2] \in Post /\ x = <<stamps[x[2]], x[2]>>
    <2>1. PICK p \in Post : x = <<stamps[p], p>> /\ stamps[p] > 0
      BY DEF PublishedBy
    <2>2. stamps[p] \in 1..MaxStamp
      BY <1>1, <2>1
    <2> QED BY <2>1, <2>2 DEF Position
  <1>3. ASSUME NEW x \in Position
        PROVE  x \in PublishedBy(t) <=> HomeOf[x[2]] = t /\ stamps[x[2]] = x[1]
    <2>1. PICK s \in 1..MaxStamp, p \in Post : x = <<s, p>>
      BY DEF Position
    <2>2. s > 0
      BY <1>1
    <2> QED BY <2>1, <2>2 DEF PublishedBy
  <1> DEFINE id == [x \in PublishedBy(t) |-> x[2]]
  <1>4. id \in Injection(PublishedBy(t), Post)
    <2>1. \A x, y \in PublishedBy(t) : x[2] = y[2] => x = y
      BY <1>2
    <2> QED BY <1>2, <2>1 DEF Injection, IsInjective
  <1>5. IsFiniteSet(PublishedBy(t))
    BY <1>1, <1>4, FS_Injection
  <1> QED BY <1>2, <1>3, <1>5

\* What a lookup may become while its walk stays where it is.
LookupFits(w) ==
    /\ walks[w].at = "rows" =>
         lookups'[w].at = "resolved" /\ lookups'[w].tenant = lookups[w].tenant
    /\ lookups'[w].at # "idle" => Underway(w) /\ lookups'[w].slug = walks[w].slug

\* A step that gets nothing takes nothing from a walk but posts that moved.
LEMMA WalkingKept ==
  ASSUME NEW w \in Walker, Walking(w),
         /\ walks'[w].got = walks[w].got /\ walks'[w].slug = walks[w].slug
         /\ walks'[w].cursor = walks[w].cursor /\ walks'[w].at = walks[w].at,
         walks'[w].steady \subseteq walks[w].steady,
         \A x \in walks'[w].steady :
           stamps'[x[2]] = x[1] /\ Owner(HomeOf[x[2]], walks[w].slug)',
         LookupFits(w)
  PROVE  Walking(w)'
  <1>1. Underway(w)' <=> Underway(w)
    BY DEF Underway
  <1>2. \A x : Got(w, x)' <=> Got(w, x)
    BY DEF Got
  <1> QED BY <1>1, <1>2 DEF Walking, LookupFits, InOrder

\* A lookup that is left alone fits.
LEMMA FitsWhenSame ==
  ASSUME NEW w \in Walker, Walking(w), lookups'[w] = lookups[w]
  PROVE  LookupFits(w)
  BY DEF Walking, LookupFits

Walks ==
    /\ stamps \in [Post -> 0..MaxStamp]
    /\ walks \in [Walker -> Walk]
    /\ \A w \in Walker : Walking(w)

LEMMA SameWalks ==
  ASSUME Walks, UNCHANGED <<stamps, walks>>,
         \A w \in Walker : LookupFits(w),
         \A t \in Tenant, s \in Slug : Owner(t, s) => Owner(t, s)'
  PROVE  Walks'
  <1>1. ASSUME NEW w \in Walker PROVE Walking(w)'
    <2>1. Walking(w) /\ walks[w] \in Walk
      BY DEF Walks
    <2>2. ASSUME NEW x \in walks[w].steady
          PROVE  stamps[x[2]] = x[1] /\ Owner(HomeOf[x[2]], walks[w].slug)'
      <3>1. x[2] \in Post /\ walks[w].slug \in Slug
        BY <2>1 DEF Walk, Position
      <3>2. HomeOf[x[2]] \in Tenant
        BY <3>1, PublicReadAssumption
      <3> QED BY <2>1, <2>2, <3>1, <3>2 DEF Walking
    <2> QED BY <2>1, <2>2, WalkingKept
  <1> QED BY <1>1 DEF Walks

LEMMA StampedWalks ==
  ASSUME Walks, NEW new \in [Post -> 0..MaxStamp], Stamped(new), lookups' = lookups,
         \A w \in Walker : \A x \in walks[w].steady :
           new[x[2]] = x[1] => Owner(HomeOf[x[2]], walks[w].slug)'
  PROVE  Walks'
  <1>1. ASSUME NEW w \in Walker PROVE Walking(w)' /\ walks'[w] \in Walk
    <2>1. Walking(w) /\ walks[w] \in Walk
      BY DEF Walks
    <2>2. /\ walks'[w] = [walks[w] EXCEPT !.steady =
                            {x \in walks[w].steady : new[x[2]] = x[1]}]
          /\ stamps' = new
      BY DEF Stamped
    <2>3. /\ walks'[w].got = walks[w].got /\ walks'[w].slug = walks[w].slug
          /\ walks'[w].cursor = walks[w].cursor /\ walks'[w].at = walks[w].at
          /\ walks'[w].steady = {x \in walks[w].steady : new[x[2]] = x[1]}
          /\ walks'[w] \in Walk
      BY <2>1, <2>2 DEF Walk
    <2>4. \A x \in walks'[w].steady :
            stamps'[x[2]] = x[1] /\ Owner(HomeOf[x[2]], walks[w].slug)'
      BY <2>2, <2>3
    <2>5. LookupFits(w)
      BY <2>1, FitsWhenSame
    <2>6. walks'[w].steady \subseteq walks[w].steady
      BY <2>3
    <2> QED BY <2>1, <2>3, <2>4, <2>5, <2>6, WalkingKept
  <1>2. stamps' = new /\ walks' \in [Walker -> Walk]
    <2>1. stamps' = new /\ walks' = [w \in Walker |-> walks'[w]]
      BY DEF Stamped
    <2> QED BY <1>1, <2>1
  <1> QED BY <1>1, <1>2 DEF Walks

\* A page takes a walk on from its cursor, or to its end.
LEMMA PageRowsWalks ==
  ASSUME WalkInv, NEW w \in Walker, PageRows(w)
  PROVE  Walks'
  <1> DEFINE k    == walks[w]
             R    == RowsBefore(lookups[w].tenant, k.cursor)
             rows == NewestFirst(R)
             more == Len(rows) > PageSize
             page == PageOf(rows)
             next == [k EXCEPT !.at = IF more THEN "between" ELSE "end",
                               !.got = k.got \o page,
                               !.cursor = IF more THEN Last(page) ELSE NoCursor]
  <1>0. /\ PublicReadTypeOK /\ Walks
        /\ walks \in [Walker -> Walk] /\ k \in Walk /\ k.got \in Seq(Position)
        /\ k.cursor \in Position \cup {NoCursor} /\ k.steady \in SUBSET Position
        /\ Walking(w) /\ k.at = "rows" /\ Underway(w)
        /\ Len(k.got) \in Nat /\ DOMAIN k.got = 1..Len(k.got)
    BY LenProperties
    DEF WalkInv, Walks, PublicReadTypeOK, Walk, PageRows, Underway
  <1>1. /\ R \in SUBSET Position /\ IsFiniteSet(R)
        /\ \A x \in R : k.cursor = NoCursor \/ Before(x, k.cursor)
        /\ \A x \in Position : /\ HomeOf[x[2]] = lookups[w].tenant /\ stamps[x[2]] = x[1]
                               /\ k.cursor = NoCursor \/ Before(x, k.cursor)
                               => x \in R
    <2>1. R \in SUBSET PublishedBy(lookups[w].tenant)
      BY DEF RowsBefore
    <2>2. /\ PublishedBy(lookups[w].tenant) \in SUBSET Position
          /\ IsFiniteSet(PublishedBy(lookups[w].tenant))
      BY <1>0, PublishedRows
    <2>3. R \in SUBSET Position /\ IsFiniteSet(R)
      BY <2>1, <2>2, FS_Subset
    <2> QED BY <1>0, <2>3, PublishedRows DEF RowsBefore
  <1>2. walks' = [walks EXCEPT ![w] = next]
    <2>1. walks' = [walks EXCEPT
             ![w].at = IF more THEN "between" ELSE "end",
             ![w].got = walks[w].got \o page,
             ![w].cursor = IF more THEN Last(page) ELSE NoCursor]
      BY DEF PageRows, PageOf
    <2> HIDE DEF more, page
    <2> QED BY <1>0, <2>1
  <1> HIDE DEF R
  <1>3. InOrder(k.got)
    BY <1>0 DEF Walking
  <1>4. ASSUME NEW n \in DOMAIN k.got, NEW x \in R
        PROVE  Before(x, k.got[n])
    <2>1. /\ k.cursor # NoCursor /\ Len(k.got) > 0 /\ k.cursor = k.got[Len(k.got)]
          /\ Len(k.got) \in DOMAIN k.got
      <3>1. k.cursor = NoCursor => k.got = <<>>
        BY <1>0 DEF Walking
      <3>2. k.cursor # NoCursor
        BY <1>4, <3>1
      <3> QED BY <1>0, <3>2 DEF Walking
    <2>2. Before(x, k.cursor)
      BY <1>1, <2>1
    <2>3. n = Len(k.got) \/ Before(k.cursor, k.got[n])
      BY <1>0, <1>3, <2>1 DEF InOrder
    <2>4. x \in Position /\ k.cursor \in Position /\ k.got[n] \in Position
      BY <1>0, <1>1, <2>1, ElementOfSeq
    <2> QED BY <2>1, <2>2, <2>3, <2>4, BeforeIsOrder
  <1>5. Extended(k.got, page, R, more)
    <2>1. AllBeyond(k.got, R)
      BY <1>4 DEF AllBeyond
    <2> QED BY <1>0, <1>1, <1>3, <2>1, PageExtends
  <1> HIDE DEF rows, more, page
  <1>6. /\ k.got \o page \in Seq(Position) /\ InOrder(k.got \o page)
        /\ \A n \in DOMAIN k.got :
             n \in DOMAIN (k.got \o page) /\ (k.got \o page)[n] = k.got[n]
        /\ more => /\ Len(k.got \o page) > 0 /\ Last(page) \in Position
                   /\ Last(page) = (k.got \o page)[Len(k.got \o page)]
        /\ \A x \in R : \/ \E n \in DOMAIN (k.got \o page) : (k.got \o page)[n] = x
                        \/ more /\ Before(x, Last(page))
    BY <1>5 DEF Extended
  <1>7. /\ next.at = (IF more THEN "between" ELSE "end") /\ next.slug = k.slug
        /\ next.got = k.got \o page /\ next.steady = k.steady
        /\ next.cursor = (IF more THEN Last(page) ELSE NoCursor)
        /\ next \in Walk
    BY <1>0, <1>6 DEF Walk
  <1> HIDE DEF next
  <1>8. /\ walks' \in [Walker -> Walk] /\ walks'[w] = next
        /\ \A u \in Walker \ {w} : walks'[u] = walks[u]
    BY <1>0, <1>2, <1>7
  <1>9. /\ stamps' = stamps /\ tenants' = tenants
        /\ \A u \in Walker \ {w} : lookups'[u] = lookups[u]
        /\ lookups'[w].at = "idle"
    <2>1. lookups \in [Reader -> Lookup] /\ Walker \subseteq Reader
      BY <1>0, PublicReadAssumption DEF PublicReadTypeOK, ResolverTypeOK
    <2> QED BY <2>1, ResolverDefaults DEF PageRows, Release
  <1>10. Walking(w)'
    <2>1. Underway(w)' <=> more
      BY <1>7, <1>8 DEF Underway
    <2>2. more => /\ next.cursor # NoCursor /\ Len(next.got) > 0
                  /\ next.cursor = next.got[Len(next.got)]
      BY <1>6, <1>7, NoCursorIsNone
    <2>3. ASSUME NEW x \in k.steady
          PROVE  /\ stamps[x[2]] = x[1] /\ Owner(HomeOf[x[2]], k.slug)
                 /\ \/ \E n \in DOMAIN next.got : next.got[n] = x
                    \/ more /\ Before(x, next.cursor)
      <3>1. /\ stamps[x[2]] = x[1] /\ Owner(HomeOf[x[2]], k.slug)
            /\ Got(w, x) \/ k.cursor = NoCursor \/ Before(x, k.cursor)
            /\ HomeOf[x[2]] = lookups[w].tenant
        BY <1>0 DEF Walking
      <3>2. CASE Got(w, x)
        BY <1>6, <1>7, <3>1, <3>2 DEF Got
      <3>3. CASE k.cursor = NoCursor \/ Before(x, k.cursor)
        <4>1. x \in R
          BY <1>0, <1>1, <3>1, <3>3
        <4> QED BY <1>6, <1>7, <3>1, <4>1
      <3> QED BY <3>1, <3>2, <3>3
    <2>4. InOrder(next.got)
      BY <1>6, <1>7
    <2> QED
      BY <1>7, <1>8, <1>9, <2>1, <2>2, <2>3, <2>4 DEF Walking, InOrder, Got, Owner
  <1>11. ASSUME NEW u \in Walker \ {w} PROVE Walking(u)'
    <2>1. Walking(u) /\ LookupFits(u)
      BY <1>0, <1>9, FitsWhenSame DEF Walks
    <2>2. \A x \in walks[u].steady : stamps[x[2]] = x[1] /\ Owner(HomeOf[x[2]], walks[u].slug)'
      BY <1>8, <1>9, <2>1 DEF Walking, Owner
    <2> QED BY <1>8, <1>9, <2>1, <2>2, WalkingKept
  <1> QED BY <1>0, <1>8, <1>9, <1>10, <1>11 DEF Walks

\* The first page of a walk.
LEMMA AskPageWalks ==
  ASSUME WalkInv, NEW w \in Walker, NEW s \in Slug, AskPage(w, s)
  PROVE  Walks'
  <1>0. /\ Walks /\ PublicReadTypeOK /\ walks \in [Walker -> Walk]
        /\ lookups \in [Reader -> Lookup] /\ Walker \subseteq Reader
        /\ Walking(w)
    BY PublicReadAssumption DEF WalkInv, Walks, PublicReadTypeOK, ResolverTypeOK
  <1>1. /\ stamps' = stamps /\ tenants' = tenants
        /\ \A u \in Walker \ {w} : lookups'[u] = lookups[u]
        /\ lookups[w].at = "idle" /\ lookups'[w].slug = s
        /\ lookups'[w].at \in {"resolved", "query"}
    BY <1>0 DEF AskPage, ResolveSlug
  <1>2. ASSUME NEW u \in Walker \ {w} PROVE LookupFits(u)
    BY <1>0, <1>1, FitsWhenSame DEF Walks
  <1>3. CASE walks[w].at \in {"none", "end"}
    <2> DEFINE first == UNION {PublishedBy(t) : t \in {u \in Tenant : Owner(u, s)}}
               next  == [NoWalk EXCEPT !.at = "between", !.slug = s, !.steady = first]
    <2>1. walks' = [walks EXCEPT ![w] = next]
      BY <1>3 DEF AskPage
    <2>2. /\ first \in SUBSET Position
          /\ \A x \in first : stamps[x[2]] = x[1] /\ Owner(HomeOf[x[2]], s)
      <3>1. ASSUME NEW x \in first
            PROVE  x \in Position /\ stamps[x[2]] = x[1] /\ Owner(HomeOf[x[2]], s)
        <4>1. PICK t \in Tenant : Owner(t, s) /\ x \in PublishedBy(t)
          OBVIOUS
        <4>2. x \in Position
          BY <1>0, <4>1, PublishedRows
        <4>3. HomeOf[x[2]] = t /\ stamps[x[2]] = x[1]
          BY <1>0, <4>1, <4>2, PublishedRows
        <4> QED BY <4>1, <4>2, <4>3
      <3> QED BY <3>1
    <2> HIDE DEF first
    <2>3. /\ next.at = "between" /\ next.slug = s /\ next.steady = first
          /\ next.got = <<>> /\ next.cursor = NoCursor /\ next \in Walk
      <3>1. /\ NoWalk \in Walk /\ NoWalk.got = <<>> /\ NoWalk.cursor = NoCursor
        BY NoWalkType
      <3> QED BY <2>2, <3>1 DEF Walk
    <2> HIDE DEF next
    <2>4. /\ walks' \in [Walker -> Walk] /\ walks'[w] = next
          /\ \A u \in Walker \ {w} : walks'[u] = walks[u]
      BY <1>0, <2>1, <2>3
    <2>5. Walking(w)'
      BY <1>1, <2>2, <2>3, <2>4 DEF Walking, Underway, InOrder, Owner
    <2>6. ASSUME NEW u \in Walker \ {w} PROVE Walking(u)'
      <3>1. \A x \in walks[u].steady :
              stamps[x[2]] = x[1] /\ Owner(HomeOf[x[2]], walks[u].slug)'
        BY <1>0, <1>1, <2>4 DEF Walks, Walking, Owner
      <3> QED BY <1>0, <1>1, <1>2, <2>4, <3>1, WalkingKept DEF Walks
    <2> QED BY <1>0, <1>1, <2>4, <2>5, <2>6 DEF Walks
  <1>4. CASE walks[w].at = "between"
    <2>1. s = walks[w].slug /\ walks' = walks
      BY <1>4 DEF AskPage
    <2>2. LookupFits(w)
      BY <1>1, <1>4, <2>1 DEF LookupFits, Underway
    <2> QED BY <1>0, <1>1, <1>2, <2>1, <2>2, SameWalks DEF Owner
  <1> QED BY <1>3, <1>4 DEF AskPage

\* The tenant that answers the rest of the request is the one whose posts the walk
\* is about, if any of them is left.
LEMMA PageVersionWalks ==
  ASSUME WalkInv, NEW w \in Walker, PageVersion(w)
  PROVE  Walks'
  <1>0. /\ Walks /\ walks \in [Walker -> Walk] /\ walks[w] \in Walk
        /\ lookups \in [Reader -> Lookup] /\ Walker \subseteq Reader
        /\ Walking(w) /\ lookups[w].at = "resolved" /\ walks[w].at = "between"
        /\ stamps' = stamps /\ tenants' = tenants
    BY PublicReadAssumption
    DEF WalkInv, Walks, PublicReadTypeOK, ResolverTypeOK, PageVersion
  <1>1. CASE tenants[lookups[w].tenant].state = "live"
    <2>1. /\ walks' = [walks EXCEPT ![w].at = "rows"] /\ lookups' = lookups
      BY <1>1 DEF PageVersion
    <2>2. /\ walks'[w] = [walks[w] EXCEPT !.at = "rows"]
          /\ \A u \in Walker \ {w} : walks'[u] = walks[u]
          /\ walks' \in [Walker -> Walk]
      BY <1>0, <2>1 DEF Walk
    <2>3. /\ walks'[w].at = "rows" /\ walks'[w].slug = walks[w].slug
          /\ walks'[w].got = walks[w].got /\ walks'[w].cursor = walks[w].cursor
          /\ walks'[w].steady = walks[w].steady
      BY <1>0, <2>2 DEF Walk
    <2>4. ASSUME NEW x \in walks[w].steady
          PROVE  HomeOf[x[2]] = lookups[w].tenant
      <3>1. Owner(HomeOf[x[2]], walks[w].slug)
        BY <1>0 DEF Walking
      <3>2. lookups[w].tenant \in Tenant /\ Owner(lookups[w].tenant, walks[w].slug)
        BY <1>0, <1>1 DEF WalkInv, ResolvedHad, Had, Walking, Owner
      <3>3. x[2] \in Post /\ walks[w].slug \in Slug
        BY <1>0 DEF Walk, Position
      <3>4. HomeOf[x[2]] \in Tenant
        BY <3>3, PublicReadAssumption
      <3> QED BY <3>1, <3>2, <3>3, <3>4 DEF WalkInv, SoleOwners
    <2>5. Underway(w) /\ Underway(w)'
      BY <1>0, <2>3 DEF Underway
    <2>6. Walking(w)'
      <3>1. \A x : Got(w, x)' <=> Got(w, x)
        BY <2>3 DEF Got
      <3> QED
        BY <1>0, <2>1, <2>3, <2>4, <2>5, <3>1 DEF Walking, InOrder, Owner
    <2>7. ASSUME NEW u \in Walker \ {w} PROVE Walking(u)'
      <3>1. Walking(u) /\ LookupFits(u)
        BY <1>0, <2>1, FitsWhenSame DEF Walks
      <3>2. \A x \in walks[u].steady :
              stamps[x[2]] = x[1] /\ Owner(HomeOf[x[2]], walks[u].slug)'
        BY <1>0, <2>2, <3>1 DEF Walking, Owner
      <3> QED BY <1>0, <2>2, <3>1, <3>2, WalkingKept
    <2> QED BY <1>0, <2>2, <2>6, <2>7 DEF Walks
  <1>2. CASE tenants[lookups[w].tenant].state # "live"
    <2>1. Release(w) /\ walks' = walks
      BY <1>2 DEF PageVersion
    <2>2. lookups'[w].at = "idle" /\ \A u \in Walker \ {w} : lookups'[u] = lookups[u]
      BY <1>0, <2>1, ResolverDefaults DEF Release
    <2>3. \A u \in Walker : LookupFits(u)
      BY <1>0, <2>2, FitsWhenSame DEF Walks, LookupFits
    <2> QED BY <1>0, <2>1, <2>3, SameWalks DEF Owner
  <1> QED BY <1>1, <1>2

\* A post that is published, withdrawn, or deleted with its tenant.
LEMMA PostWalks ==
  ASSUME WalkInv,
         \/ \E p \in Post, stamp \in 1..MaxStamp : PublishPost(p, stamp)
         \/ \E p \in Post : WithdrawPost(p)
         \/ \E t \in Tenant : DropTenant(t)
  PROVE  Walks'
  <1>0. /\ Walks /\ stamps \in [Post -> 0..MaxStamp] /\ MaxStamp \in Nat
        /\ tenants \in [Tenant -> TenantRow] /\ HomeOf \in [Post -> Tenant]
    BY PublicReadAssumption
    DEF WalkInv, Walks, PublicReadTypeOK, ResolverTypeOK
  <1>1. ASSUME NEW w \in Walker, NEW x \in walks[w].steady
        PROVE  /\ x[1] \in 1..MaxStamp /\ x[2] \in Post /\ HomeOf[x[2]] \in Tenant
               /\ Owner(HomeOf[x[2]], walks[w].slug)
    <2>1. walks[w] \in Walk /\ Walking(w)
      BY <1>0 DEF Walks
    <2>2. x[1] \in 1..MaxStamp /\ x[2] \in Post
      BY <2>1 DEF Walk, Position
    <2> QED BY <1>0, <2>1, <2>2 DEF Walking
  <1>2. ASSUME NEW p \in Post, NEW stamp \in 0..MaxStamp,
               Stamped([stamps EXCEPT ![p] = stamp]), UNCHANGED resolverVars
        PROVE  Walks'
    <2>1. [stamps EXCEPT ![p] = stamp] \in [Post -> 0..MaxStamp]
      BY <1>0
    <2>2. tenants' = tenants /\ lookups' = lookups
      BY <1>2 DEF resolverVars
    <2>3. \A w \in Walker : walks'[w].slug = walks[w].slug
      <3>1. ASSUME NEW w \in Walker PROVE walks'[w].slug = walks[w].slug
        <4>1. walks[w] \in Walk
          BY <1>0 DEF Walks
        <4> QED BY <1>2, <4>1 DEF Stamped, Walk
      <3> QED BY <3>1
    <2>4. \A w \in Walker : \A x \in walks[w].steady : Owner(HomeOf[x[2]], walks[w].slug)'
      BY <1>1, <2>2, <2>3 DEF Owner
    <2> QED BY <1>0, <1>2, <2>1, <2>2, <2>4, StampedWalks
  <1>3. ASSUME NEW t \in Tenant, DropTenant(t)
        PROVE  Walks'
    <2> DEFINE new == [p \in Post |-> IF HomeOf[p] = t THEN 0 ELSE stamps[p]]
    <2>1. new \in [Post -> 0..MaxStamp] /\ \A p \in Post : HomeOf[p] = t => new[p] = 0
      BY <1>0
    <2>2. Stamped(new) /\ lookups' = lookups /\ \A u \in Tenant \ {t} : tenants'[u] = tenants[u]
      BY <1>0, <1>3 DEF DropTenant, DeleteTenant
    <2> HIDE DEF new
    <2>3. \A w \in Walker : walks'[w].slug = walks[w].slug
      <3>1. ASSUME NEW w \in Walker PROVE walks'[w].slug = walks[w].slug
        <4>1. walks[w] \in Walk
          BY <1>0 DEF Walks
        <4> QED BY <2>2, <4>1 DEF Stamped, Walk
      <3> QED BY <3>1
    <2>4. ASSUME NEW w \in Walker, NEW x \in walks[w].steady, new[x[2]] = x[1]
          PROVE  Owner(HomeOf[x[2]], walks[w].slug)'
      <3>1. HomeOf[x[2]] \in Tenant \ {t}
        BY <1>0, <1>1, <2>1, <2>4
      <3> QED BY <1>1, <2>2, <2>3, <3>1 DEF Owner
    <2> QED BY <1>0, <2>1, <2>2, <2>4, StampedWalks
  <1>4. 0 \in 0..MaxStamp /\ 1..MaxStamp \subseteq 0..MaxStamp
    BY <1>0
  <1> QED BY <1>2, <1>3, <1>4 DEF PublishPost, WithdrawPost

\* A step of the resolver that takes no walk anywhere.
LEMMA LookupWalks ==
  ASSUME WalkInv, UNCHANGED <<stamps, walks>>,
         \/ \E t \in Tenant, s \in Slug : CreateTenant(t, s)
         \/ \E v \in Visitor, s \in Slug : ResolveSlug(v, s)
         \/ \E v \in Visitor : Release(v) /\ UNCHANGED tenants
         \/ \E r \in Reader, t \in Tenant : QuerySlug(r, t)
         \/ \E r \in Reader : SlugNotFound(r) \/ StoreEntry(r)
         \/ ResolverTick
         \/ UNCHANGED resolverVars
  PROVE  Walks'
  <1>0. /\ Walks /\ lookups \in [Reader -> Lookup] /\ tenants \in [Tenant -> TenantRow]
        /\ Walker \subseteq Reader /\ Walker \cap Visitor = {}
    BY PublicReadAssumption
    DEF WalkInv, Walks, PublicReadTypeOK, ResolverTypeOK
  <1>1. \A t \in Tenant, s \in Slug : Owner(t, s) => Owner(t, s)'
    <2>1. ASSUME NEW v \in Tenant, NEW z \in Slug, CreateTenant(v, z),
                 NEW t \in Tenant, NEW s \in Slug, Owner(t, s)
          PROVE  Owner(t, s)'
      BY <1>0, <2>1 DEF CreateTenant, Owner
    <2>2. ASSUME ResolverTick, NEW t \in Tenant
          PROVE  tenants'[t].slug = tenants[t].slug /\ tenants'[t].state = tenants[t].state
      <3>1. PICK g : tenants'[t] = [tenants[t] EXCEPT !.gone = g]
        BY <2>2 DEF ResolverTick
      <3>2. tenants[t] \in TenantRow
        BY <1>0
      <3> QED BY <3>1, <3>2 DEF TenantRow
    <2>3. ASSUME ResolverTick, NEW t \in Tenant, NEW s \in Slug, Owner(t, s)
          PROVE  Owner(t, s)'
      BY <2>2, <2>3 DEF Owner
    <2>4. ASSUME tenants' = tenants
          PROVE  \A t \in Tenant, s \in Slug : Owner(t, s) => Owner(t, s)'
      BY <2>4 DEF Owner
    <2> QED
      BY <2>1, <2>3, <2>4
      DEF ResolveSlug, QuerySlug, SlugNotFound, StoreEntry, resolverVars
  <1>2. ASSUME NEW w \in Walker PROVE LookupFits(w)
    <2>0. Walking(w) /\ lookups[w] \in Lookup
      BY <1>0 DEF Walks
    <2>1. ASSUME NEW r \in Reader \ {w}, NEW l, lookups' = [lookups EXCEPT ![r] = l]
          PROVE  LookupFits(w)
      <3>1. lookups'[w] = lookups[w]
        BY <1>0, <2>1
      <3> QED BY <2>0, <3>1, FitsWhenSame
    <2>2. ASSUME NEW v \in Visitor, NEW s \in Slug, ResolveSlug(v, s)
          PROVE  LookupFits(w)
      BY <1>0, <2>1, <2>2, PublicReadAssumption DEF ResolveSlug
    <2>3. ASSUME NEW v \in Visitor, Release(v)
          PROVE  LookupFits(w)
      BY <1>0, <2>1, <2>3, PublicReadAssumption DEF Release
    <2>4. ASSUME NEW r \in Reader, NEW t \in Tenant, QuerySlug(r, t)
          PROVE  LookupFits(w)
      <3>1. CASE r = w
        <4>1. lookups[w].at = "query" /\ lookups'[w].slug = lookups[w].slug
          BY <1>0, <2>0, <2>4, <3>1 DEF QuerySlug, Lookup
        <4> QED BY <2>0, <4>1 DEF Walking, LookupFits
      <3>2. CASE r # w
        <4>1. lookups'[w] = lookups[w]
          BY <1>0, <2>4, <3>2 DEF QuerySlug
        <4> QED BY <2>0, <4>1, FitsWhenSame
      <3> QED BY <3>1, <3>2
    <2>5. ASSUME NEW r \in Reader, SlugNotFound(r)
          PROVE  LookupFits(w)
      <3>1. CASE r = w
        <4>1. lookups[w].at = "query" /\ lookups'[w].at = "idle"
          BY <1>0, <2>5, <3>1, ResolverDefaults DEF SlugNotFound, Release
        <4> QED BY <2>0, <4>1 DEF Walking, LookupFits
      <3>2. CASE r # w
        BY <2>1, <2>5, <3>2 DEF SlugNotFound, Release
      <3> QED BY <3>1, <3>2
    <2>6. ASSUME NEW r \in Reader, StoreEntry(r)
          PROVE  LookupFits(w)
      <3>1. CASE r = w
        <4>1. lookups[w].at = "store" /\ lookups'[w].slug = lookups[w].slug
          BY <1>0, <2>0, <2>6, <3>1 DEF StoreEntry, Lookup
        <4> QED BY <2>0, <4>1 DEF Walking, LookupFits
      <3>2. CASE r # w
        <4>1. lookups'[w] = lookups[w]
          BY <1>0, <2>6, <3>2 DEF StoreEntry
        <4> QED BY <2>0, <4>1, FitsWhenSame
      <3> QED BY <3>1, <3>2
    <2>7. CASE ResolverTick
      <3>1. PICK a : lookups'[w] = [lookups[w] EXCEPT !.age = a]
        BY <1>0, <2>7 DEF ResolverTick
      <3>2. /\ lookups'[w].at = lookups[w].at /\ lookups'[w].slug = lookups[w].slug
            /\ lookups'[w].tenant = lookups[w].tenant
        BY <2>0, <3>1 DEF Lookup
      <3> QED BY <2>0, <3>2 DEF Walking, LookupFits
    <2>8. ASSUME lookups' = lookups PROVE LookupFits(w)
      BY <2>0, <2>8, FitsWhenSame
    <2> QED
      BY <2>2, <2>3, <2>4, <2>5, <2>6, <2>7, <2>8 DEF CreateTenant, resolverVars
  <1> QED BY <1>0, <1>1, <1>2, SameWalks

\* A restart takes the request from every walk, and nothing else.
LEMMA RestartWalks ==
  ASSUME WalkInv, Restart
  PROVE  Walks'
  <1>0. /\ Walks /\ Walker \subseteq Reader
        /\ stamps' = stamps /\ tenants' = tenants
    BY PublicReadAssumption DEF WalkInv, Walks, PublicReadTypeOK, Restart, RestartResolver
  <1>1. ASSUME NEW w \in Walker
        PROVE  Walking(w)' /\ walks'[w] \in Walk
    <2>1. Walking(w) /\ walks[w] \in Walk
      BY <1>0 DEF Walks
    <2>2. /\ walks'[w] = [walks[w] EXCEPT !.at =
                            IF walks[w].at = "rows" THEN "between" ELSE walks[w].at]
          /\ lookups'[w].at = "idle"
      BY <1>0, ResolverDefaults DEF Restart, RestartResolver
    <2>3. /\ walks'[w].got = walks[w].got /\ walks'[w].slug = walks[w].slug
          /\ walks'[w].cursor = walks[w].cursor /\ walks'[w].steady = walks[w].steady
          /\ walks'[w].at = (IF walks[w].at = "rows" THEN "between" ELSE walks[w].at)
          /\ walks'[w] \in Walk
      BY <2>1, <2>2 DEF Walk
    <2>4. (Underway(w)' <=> Underway(w)) /\ walks'[w].at # "rows"
      BY <2>3 DEF Underway
    <2>5. \A x : Got(w, x)' <=> Got(w, x)
      BY <2>3 DEF Got
    <2> QED BY <1>0, <2>1, <2>2, <2>3, <2>4, <2>5 DEF Walking, InOrder, Owner
  <1>2. walks' \in [Walker -> Walk]
    <2>1. walks' = [w \in Walker |-> walks'[w]]
      BY DEF Restart
    <2> QED BY <1>1, <2>1
  <1> QED BY <1>0, <1>1, <1>2 DEF Walks

LEMMA WalkStep ==
  ASSUME WalkInv, ResolverInv, [PublicReadNext]_publicVars
  PROVE  WalkInv'
  <1>1. ResolverStep \/ UNCHANGED resolverVars
    BY PublicStepsResolve DEF publicVars, resolverVars
  <1>2. ResolverTypeOK' /\ SoleOwners' /\ ResolvedHad'
    BY <1>1, ResolverTypeStep, SoleOwnersStep, ResolvedHadStep DEF WalkInv, PublicReadTypeOK
  <1>3. Walks'
    <2>1. ASSUME NEW w \in Walker, NEW s \in Slug, AskPage(w, s) PROVE Walks'
      BY <2>1, AskPageWalks
    <2>2. ASSUME NEW w \in Walker, PageVersion(w) PROVE Walks'
      BY <2>2, PageVersionWalks
    <2>3. ASSUME NEW w \in Walker, PageRows(w) PROVE Walks'
      BY <2>3, PageRowsWalks
    <2>4. CASE Restart
      BY <2>4, RestartWalks
    <2>5. CASE \/ \E p \in Post, stamp \in 1..MaxStamp : PublishPost(p, stamp)
               \/ \E p \in Post : WithdrawPost(p)
               \/ \E t \in Tenant : DropTenant(t)
      BY <2>5, PostWalks
    <2>6. CASE \/ \E t \in Tenant, s \in Slug : NewTenant(t, s)
               \/ \E v \in Visitor, s \in Slug : VisitSite(v, s)
               \/ \E v \in Visitor : SiteRow(v)
               \/ \E r \in Reader : ResolveMiss(r)
               \/ Tick
               \/ UNCHANGED publicVars
      BY <2>6, LookupWalks
      DEF NewTenant, VisitSite, SiteRow, ResolveMiss, Tick, publicVars, resolverVars
    <2> QED BY <2>1, <2>2, <2>3, <2>4, <2>5, <2>6 DEF PublicReadNext
  <1> QED BY <1>2, <1>3 DEF WalkInv, Walks, PublicReadTypeOK

LEMMA WalkInvariant == PublicReadSpec => []WalkInv
  <1>1. WalkInv /\ ResolverInv /\ [PublicReadNext]_publicVars => WalkInv'
    BY WalkStep
  <1> QED BY <1>1, WalkInit, ResolverInvariant, PTL DEF PublicReadSpec

\* The state of the public API is always of its types: the positions of
\* published posts, and what every reader of listStatement's pages has got.
THEOREM PublicReadTypeCorrect == PublicReadSpec => []PublicReadTypeOK
  <1>1. WalkInv => PublicReadTypeOK
    BY DEF WalkInv
  <1> QED BY <1>1, WalkInvariant, PTL

\* Pages that follow next_cursor are strictly newest first, and miss no post that
\* was in the list when the walk began and was left alone, however many posts,
\* readers and tenants there are: listStatement goes on from the last row it gave,
\* by published_at and id, and fetchPage finds no content_version for a tenant
\* that a stale cache entry names.
THEOREM WalksAreStable == PublicReadSpec => []StableWalk
  <1> QED BY WalkInvariant, WalkImplies, PTL
=============================================================================
