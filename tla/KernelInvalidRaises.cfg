SPECIFICATION Spec
CONSTANTS
    c1 = c1
    Callers = {c1}
    NoCaller = NoCaller
    Batches <- MCBatchesAll
    Evidence <- MCEvidence
    Policies = 1
    Classifiers = 1
    MaxConstraints = 1
    Actions <- MCActions
    NoAction = NoAction
    RequiredChecks <- MCRequiredChecks
    ConfiguredChecks <- MCConfiguredChecks
    Recorders = 1
    Ttl = 2
    Cancellable = FALSE
    ClockMayFail = FALSE
    MaxCalls = 1
    MaxTime = 1
INVARIANTS
    InvalidIsRejected
