\* Two images that may be confirmed under one key, two goroutines, replicas of
\* both builds.
SPECIFICATION MediaSpec
CONSTANTS
    alice = alice
    bob = bob
    Job = {i1, i2}
    Kind = {variants}
    Key = {k1}
    NoKey = NoKey
    NoLease = NoLease
    Handled = {variants}
    Prompt = {}
    BadPayload = {}
    Slot = {s1, s2}
    MaxAttempts = 2
    Lease = 3
    JobTimeout = 1
    StateTimeout = 1
    SpawnDelay = 0
    BaseBackoff = 1
    MaxBackoff = 1
    MaxLag = 0
    MaxFaults = 1
    Post = {p1}
    Actor <- MCActor
    AuthorOf <- MCAuthorOf
    Processor = {TRUE, FALSE}
    Variants = 2
SYMMETRY Symmetry
INVARIANTS
    MediaTypeOK
    ShownObjectsExist
    ImageGetsVariants
    DeletedStaysDeleted
