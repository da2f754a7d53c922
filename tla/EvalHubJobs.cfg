SPECIFICATION EvalHubSpec
CONSTANTS
    Cycles <- MCNone
    Policies = 1
    Classifiers = 1
    PolicyAnswers <- MCNone
    ConstraintValues <- MCNone
    ClassifierAnswers <- MCNone
    Objectives <- MCNone
    Plans <- MCNone
    CheckAnswers <- MCNone
    Actions <- StandaloneActions
    AllowedConsequences <- StandaloneConsequences
    Schemas <- StandaloneSchemas
    RequiredChecks <- StandaloneChecks
    ConfiguredChecks <- MCConfiguredChecks
    Unit = 3
    Now = 2
    Ttl = 1
    MinConfidence = 100
    GovernedNames <- MCPromotionNames
    Hosts <- MCHosts
    Jobs <- MCHubs
    Validity = 2
    Receipts <- MCReceipts
    TrustedVerifiers <- MCTrusted
INVARIANTS
    UnreviewedJobsPassed
    ConcerningJobsAreReviewed
    RejectedForCause
    OwnCorrelationsNeverMeet
    RaisesOnlyOnSharedArtifact
