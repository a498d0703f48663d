\* Two jobs share one goroutine slot; faults stop after MaxFaults.
SPECIFICATION FairSpec
CONSTANTS
    Job = {j1, j2}
    Kind = {purge}
    Key = {}
    NoKey = NoKey
    NoLease = NoLease
    Handled = {purge}
    Prompt = {purge}
    BadPayload = {}
    Slot = {s1}
    MaxAttempts = 2
    Lease = 3
    JobTimeout = 1
    StateTimeout = 1
    SpawnDelay = 1
    BaseBackoff = 1
    MaxBackoff = 2
    MaxLag = 1
    MaxFaults = 2
PROPERTIES
    EventuallySettled
