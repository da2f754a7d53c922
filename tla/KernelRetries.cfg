SPECIFICATION Spec
CONSTANTS
    c1 = c1
    c2 = c2
    c3 = c3
    Callers = {c1, c2, c3}
    NoCaller = NoCaller
    Batches <- MCBatchGood
    Evidence <- MCEvidence
    Policies = 1
    Classifiers = 1
    MaxConstraints = 1
    Actions <- MCActions
    NoAction = NoAction
    RequiredChecks <- MCRequiredChecks
    ConfiguredChecks <- MCConfiguredChecks
    Recorders = 2
    Ttl = 2
    Cancellable = FALSE
    ClockMayFail = TRUE
    MaxCalls = 2
    MaxTime = 0
INVARIANTS
    OfferedAtMostOnce
    AnswersAgree
    DeliveryProvedOrReported
PROPERTIES
    VerdictIsFinal
