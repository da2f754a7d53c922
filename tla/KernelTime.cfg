SPECIFICATION FairSpec
CONSTANTS
    c1 = c1
    c2 = c2
    Callers = {c1, c2}
    NoCaller = NoCaller
    Batches <- MCBatchesAll
    Evidence <- MCEvidence
    Policies = 1
    Classifiers = 1
    MaxConstraints = 1
    Actions <- MCActionsWithHold
    NoAction = NoAction
    RequiredChecks <- MCRequiredChecks
    ConfiguredChecks <- MCConfiguredChecks
    Recorders = 1
    Ttl = 2
    Cancellable = TRUE
    ClockMayFail = TRUE
    MaxCalls = 1
    MaxTime = 2
INVARIANTS
    PackageWithinEvidence
PROPERTIES
    ImplementsLedger
    EveryCallReturns
