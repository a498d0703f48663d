\* One handled kind of prompt handlers and one kind nobody registered.
SPECIFICATION Spec
CONSTANTS
    Job = {j1, j2}
    Kind = {purge, unknown}
    Key = {k1}
    NoKey = NoKey
    NoLease = NoLease
    Handled = {purge}
    Prompt = {purge, unknown}
    BadPayload = {j2}
    Slot = {s1, s2}
    MaxAttempts = 2
    Lease = 3
    JobTimeout = 1
    StateTimeout = 1
    SpawnDelay = 1
    BaseBackoff = 2
    MaxBackoff = 1
    MaxLag = 0
    MaxFaults = 2
SYMMETRY Symmetry
INVARIANTS
    TypeOK
    SingleRunner
    LeaseCoversRun
    DoneWasHandled
    FailedSpentBudget
    OnlyFaultsRepeatWork
PROPERTIES
    SettledIsFinal
    ImplementsWorkQueue
