\* One walker, one visitor, and one slug that two tenants may have in turn.
SPECIFICATION PublicReadSpec
CONSTANTS
    t1 = t1
    Slug = {s1}
    Tenant = {t1, t2}
    NoTenant = NoTenant
    Reader = {w1, v1}
    Walker = {w1}
    Visitor = {v1}
    TTL = 1
    MaxFetch = 1
    Post = {1, 2}
    HomeOf <- MCHomeOf
    MaxStamp = 2
    PageSize = 1
INVARIANTS
    PublicReadTypeOK
    StableWalk
PROPERTIES
    SweepBounds
    StaleAtMost
