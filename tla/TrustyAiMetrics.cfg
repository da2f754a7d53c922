SPECIFICATION TrustyAiSpec
CONSTANTS
    Cycles <- MCNone
    Policies = 1
    Classifiers = 1
    PolicyAnswers <- MCNone
    ConstraintValues <- MCNone
    ClassifierAnswers <- MCNone
    Objectives <- MCNone
    Plans <- MCNone
    CheckAnswers <- MCNone
    Actions <- StandaloneActions
    AllowedConsequences <- StandaloneConsequences
    Schemas <- StandaloneSchemas
    RequiredChecks <- StandaloneChecks
    ConfiguredChecks <- MCConfiguredChecks
    Unit = 3
    Now = 2
    Ttl = 1
    MinConfidence = 100
    GovernedNames <- MCRuntimeNames
    Hosts <- MCHosts
    Responses <- MCResponses
    One = 3
    Validity = 2
INVARIANTS
    QuietMetricsHold
    BreachesAreReviewed
    RejectedForCause
    OwnCorrelationsNeverMeet
    ExchangesDiffer
