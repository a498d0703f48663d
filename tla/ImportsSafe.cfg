\* One import, of a document that converts in time or of one that may outlive its lease,
\* two goroutines and two Apply requests.  A timeout is longer than the first
\* backoff: a row that is requeued under a run can be claimed while it lasts.
SPECIFICATION ImportsSpec
CONSTANTS
    Job = {i1}
    Kind = {quick, slow}
    Key = {i1}
    NoKey = NoKey
    NoLease = NoLease
    Handled = {quick, slow}
    Prompt = {quick}
    BadPayload = {}
    Slot = {s1, s2}
    MaxAttempts = 2
    Lease = 3
    JobTimeout = 2
    StateTimeout = 1
    SpawnDelay = 0
    BaseBackoff = 1
    MaxBackoff = 1
    MaxLag = 0
    MaxFaults = 1
    Markdown = {blank, m}
    Blank = blank
    NoText = NoText
    PostId = {p1, p2}
    NoPost = NoPost
    Apply = {a1, a2}
SYMMETRY Symmetry
INVARIANTS
    ImportsTypeOK
    JobDoneMeansOutcome
    LinkIsConversion
PROPERTIES
    NeverReconverted
    LinkStays
