\* A document whose conversion may outlive its context and its lease, and one Apply.
SPECIFICATION ImportsSpec
CONSTANTS
    Job = {i1}
    Kind = {slow}
    Key = {i1}
    NoKey = NoKey
    NoLease = NoLease
    Handled = {slow}
    Prompt = {}
    BadPayload = {}
    Slot = {s1, s2}
    MaxAttempts = 2
    Lease = 3
    JobTimeout = 2
    StateTimeout = 1
    SpawnDelay = 0
    BaseBackoff = 1
    MaxBackoff = 1
    MaxLag = 0
    MaxFaults = 1
    Markdown = {blank, m}
    Blank = blank
    NoText = NoText
    PostId = {p1}
    NoPost = NoPost
    Apply = {a1}
PROPERTIES
    AppliedIsNeverReconverted
