\* Two Apply requests for one import.
SPECIFICATION ImportsSpec
CONSTANTS
    Job = {i1}
    Kind = {import}
    Key = {i1}
    NoKey = NoKey
    NoLease = NoLease
    Handled = {import}
    Prompt = {}
    BadPayload = {}
    Slot = {s1, s2}
    MaxAttempts = 2
    Lease = 3
    JobTimeout = 1
    StateTimeout = 1
    SpawnDelay = 0
    BaseBackoff = 1
    MaxBackoff = 1
    MaxLag = 0
    MaxFaults = 1
    Markdown = {blank, m}
    Blank = blank
    NoText = NoText
    PostId = {p1, p2}
    NoPost = NoPost
    Apply = {a1, a2}
INVARIANTS
    EveryDraftLinked
