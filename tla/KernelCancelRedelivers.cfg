SPECIFICATION Spec
CONSTANTS
    c1 = c1
    c2 = c2
    Callers = {c1, c2}
    NoCaller = NoCaller
    Batches <- MCBatchGood
    Evidence <- MCEvidence
    Policies = 1
    Classifiers = 1
    MaxConstraints = 1
    Actions <- MCActions
    NoAction = NoAction
    RequiredChecks <- MCRequiredChecks
    ConfiguredChecks <- MCConfiguredChecks
    Recorders = 1
    Ttl = 2
    Cancellable = TRUE
    ClockMayFail = FALSE
    MaxCalls = 2
    MaxTime = 0
INVARIANTS
    OfferedAtMostOnce
