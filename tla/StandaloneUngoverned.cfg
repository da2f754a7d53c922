SPECIFICATION StandaloneSpec
CONSTANTS
    Cycles <- MCCycles
    Policies = 1
    Classifiers = 1
    PolicyAnswers <- MCNone
    ConstraintValues <- MCNone
    ClassifierAnswers <- MCNone
    Objectives <- MCNone
    Plans <- MCNone
    CheckAnswers <- MCNone
    Actions <- StandaloneActions
    AllowedConsequences <- StandaloneConsequences
    Schemas <- StandaloneSchemas
    RequiredChecks <- StandaloneChecks
    ConfiguredChecks <- MCConfiguredChecks
    Unit = 3
    Now = 1
    Ttl = 6
    MinConfidence = 80
    GovernedNames <- MCOtherNames
INVARIANTS
    PlannerKeepsToItsNames
