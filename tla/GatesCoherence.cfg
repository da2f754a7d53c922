SPECIFICATION Spec
CONSTANTS
    Cycles <- MCCycles
    Policies = 2
    Classifiers = 2
    PolicyAnswers <- MCPolicyAnswers
    ConstraintValues <- MCConstraintValues
    ClassifierAnswers <- MCClassifierAnswers
    Objectives <- MCObjectives
    Plans <- MCPlans
    CheckAnswers <- MCCheckAnswers
    Actions <- MCActions
    AllowedConsequences <- MCAllowedConsequences
    Schemas <- MCSchemas
    RequiredChecks <- MCRequiredChecks
    ConfiguredChecks <- MCConfiguredChecks
    Unit = 3
    Now = 0
    Ttl = 6
INVARIANTS
    GatesImplyCoherence
    PackageIsGoverned
