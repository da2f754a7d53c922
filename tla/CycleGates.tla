------------------------------ MODULE CycleGates ------------------------------
(***************************************************************************)
(* The data gates of one governance cycle (GovernanceKernel._run_once,     *)
(* kernel.py:278-475): what the kernel checks of every port's answer, and  *)
(* what DecisionPackage.coherent_package checks again when the package is  *)
(* built.  The evidence has passed the evidence gates.  A port may answer  *)
(* with anything its contract type can hold; what the type refuses is an   *)
(* error inside the port.  The recorders, the cache and concurrency are in *)
(* GovernanceKernel, which leaves the answers themselves open.             *)
(*                                                                         *)
(* Lists whose elements a contract requires to differ are sets.            *)
(***************************************************************************)
EXTENDS Integers, Sequences, FiniteSetsExt

CONSTANTS
    Cycles,              \* evidence of the cycles considered
    Policies,            \* number of policy checks configured
    Classifiers,         \* number of constraint classifiers configured
    PolicyAnswers,       \* PolicyResult values policy checks return
    ConstraintValues,    \* Constraint values
    ClassifierAnswers,   \* sequences of them that classifiers return
    Objectives,          \* ObjectiveSpec values the interpreter returns
    Plans,               \* Plan values the planner returns
    CheckAnswers,        \* FalsificationResult values checks return
    Actions,             \* registered actions
    AllowedConsequences, \* of each registered action
    Schemas,             \* parameters the schema of each action accepts
    RequiredChecks,      \* falsification checks each action requires
    ConfiguredChecks,    \* falsification checks given to the kernel
    Unit,                \* the objective weights of 1.0
    Now,                 \* what the clock read when the cycle began
    Ttl                  \* decision_ttl

(* Contracts that the types enforce. *)
HasDistinctIds(S) == \A a, b \in S : a.id = b.id => a = b

IsEvidence(cycle) ==
    /\ cycle # <<>>
    /\ \A i, j \in DOMAIN cycle : cycle[i].id = cycle[j].id => i = j
    /\ \A i \in DOMAIN cycle : cycle[i].expires \in Int /\ Now < cycle[i].expires

IsObjective(o) ==
    /\ MapThenSumSet(LAMBDA n : o.weights[n], DOMAIN o.weights) = Unit
    /\ o.constraints # {}
    /\ o.refs # {}

SelectedOf(plan) == CHOOSE c \in plan.candidates : c.id = plan.selected

IsPlan(plan) ==
    /\ HasDistinctIds(plan.candidates)
    /\ \E c \in plan.candidates : c.id = plan.selected
    /\ plan.rejected = plan.candidates \ {SelectedOf(plan)}

ASSUME CyclesAssumption == \A cycle \in Cycles : IsEvidence(cycle)
ASSUME SizesAssumption ==
    Policies \in Nat /\ Classifiers \in Nat /\ Now \in Int /\ Ttl \in Nat \ {0}
ASSUME ObjectivesAssumption == \A o \in Objectives : IsObjective(o)
ASSUME PlansAssumption == \A p \in Plans : IsPlan(p)
ASSUME ClassifiersAssumption == ClassifierAnswers \subseteq Seq(ConstraintValues)
(* The registry wants at least one check, and no check twice. *)
ASSUME RegistryAssumption ==
    \A a \in Actions :
        /\ RequiredChecks[a] \in Seq(STRING)
        /\ RequiredChecks[a] # <<>>
        /\ \A i, j \in DOMAIN RequiredChecks[a] :
               RequiredChecks[a][i] = RequiredChecks[a][j] => i = j

VARIABLES
    gate,        \* the gate the cycle is at, or how it ended
    evidence,    \* the evidence of the cycle
    policies,    \* policy_results
    round,       \* classifiers asked so far
    classified,  \* constraints, in the order they came
    objective,   \* the objective, or the empty record
    plan,        \* the plan, or the empty record
    checks,      \* falsification_results
    package      \* the decision package, once it is built

vars == <<gate, evidence, policies, round, classified, objective, plan, checks,
          package>>

Absent == [id |-> "none"]

-----------------------------------------------------------------------------

Items == {evidence[i] : i \in DOMAIN evidence}
Known == {item.artifact : item \in Items}
Cites(answer) == answer.refs \subseteq Known

Constraints == {classified[i] : i \in DOMAIN classified}
ConstraintIds == {k.id : k \in Constraints}
HardIds(K) == {k.id : k \in {h \in K : h.hard}}

Selected == SelectedOf(plan)
Required == RequiredChecks[Selected.action]

(* objective_cost: the candidate has a value for exactly the terms. *)
IsPriced(o, c) == DOMAIN c.values = DOMAIN o.weights
Cost(o, c) == MapThenSumSet(LAMBDA n : o.weights[n] * c.values[n], DOMAIN o.weights)
IsCheapest(o, c, S) == \A d \in S : Cost(o, c) <= Cost(o, d)

(* ActionRegistry.validate. *)
ValidatesName(c) == c.action \in Actions   \* mutant
Validates(c) ==
    /\ c.action \in Actions
    /\ c.consequence \in AllowedConsequences[c.action]
    /\ c.parameters \in Schemas[c.action]

AnyCover(K, c) == TRUE   \* mutant
CoversHard(K, c) == HardIds(K) \subseteq c.constraints

IsAdmissible(c) ==
    Cites(c) /\ c.constraints \subseteq ConstraintIds /\ Validates(c)

-----------------------------------------------------------------------------
(* DecisionPackage and its validator. *)

Expiries == {Now + Ttl} \union {item.expires : item \in Items}

Package(expires) ==
    [created |-> Now, expires |-> expires,
     manifest |-> [i \in DOMAIN evidence |->
                      [id |-> evidence[i].id, artifact |-> evidence[i].artifact,
                       envelope |-> evidence[i]]],
     refs |-> Known, policies |-> policies, constraints |-> Constraints,
     objective |-> objective, candidates |-> plan.candidates,
     selected |-> Selected.id, rejected |-> plan.rejected, checks |-> checks]

HasSoundManifest(p) ==
    /\ \A i, j \in DOMAIN p.manifest :
           \/ p.manifest[i].id = p.manifest[j].id
           \/ p.manifest[i].envelope = p.manifest[j].envelope
           => i = j
    /\ {p.manifest[i].artifact : i \in DOMAIN p.manifest} = p.refs

HasSoundPolicies(p) ==
    /\ \A i, j \in DOMAIN p.policies :
           p.policies[i].check = p.policies[j].check => i = j
    /\ \A i \in DOMAIN p.policies : p.policies[i].allowed

HasSoundPlan(p) ==
    /\ HasDistinctIds(p.constraints)
    /\ p.objective.constraints = {k.id : k \in p.constraints}
    /\ HasDistinctIds(p.candidates)
    /\ \A c \in p.candidates :
           /\ c.constraints \subseteq {k.id : k \in p.constraints}
           /\ IsPriced(p.objective, c)
    /\ \E c \in p.candidates :
           /\ c.id = p.selected
           /\ HardIds(p.constraints) \subseteq c.constraints
           /\ IsCheapest(p.objective, c, p.candidates)
           /\ p.rejected = p.candidates \ {c}

HasSoundChecks(p) ==
    /\ \A i, j \in DOMAIN p.checks :
           /\ p.checks[i].candidate = p.checks[j].candidate
           /\ p.checks[i].check = p.checks[j].check
           => i = j
    /\ \A i \in DOMAIN p.checks :
           \E c \in p.candidates : p.checks[i].candidate = c.id
    /\ \E i \in DOMAIN p.checks : p.checks[i].candidate = p.selected
    /\ \A i \in DOMAIN p.checks :
           p.checks[i].candidate = p.selected => p.checks[i].survives

HasKnownRefs(p) ==
    /\ \A i \in DOMAIN p.policies : p.policies[i].refs \subseteq p.refs
    /\ \A i \in DOMAIN p.checks : p.checks[i].refs \subseteq p.refs
    /\ \A c \in p.constraints \union p.candidates \union {p.objective} :
           c.refs \subseteq p.refs

IsCoherent(p) ==
    /\ p.created < p.expires
    /\ HasSoundManifest(p)
    /\ HasSoundPolicies(p)
    /\ HasSoundPlan(p)
    /\ HasSoundChecks(p)
    /\ HasKnownRefs(p)

-----------------------------------------------------------------------------
(* The gates.  An answer that fails its gate raises out of the cycle. *)

PassOrRaise(passes, next) == gate' = IF passes THEN next ELSE "raised"

EvaluatePolicy(answer) ==
    /\ gate = "policy"
    /\ Len(policies) < Policies
    /\ PassOrRaise(Cites(answer), "policy")
    /\ policies' = IF Cites(answer) THEN Append(policies, answer) ELSE policies
    /\ UNCHANGED <<evidence, round, classified, objective, plan, checks, package>>

(* A denial is found before two answers under one check id are. *)
PoliciesDone ==
    /\ gate = "policy"
    /\ Len(policies) = Policies
    /\ \/ /\ \E i \in DOMAIN policies : ~policies[i].allowed
          /\ gate' = "rejected"
       \/ /\ \A i \in DOMAIN policies : policies[i].allowed
          /\ PassOrRaise(\A i, j \in DOMAIN policies :
                             policies[i].check = policies[j].check => i = j,
                         "classify")
    /\ UNCHANGED <<evidence, policies, round, classified, objective, plan, checks,
                   package>>

Classify(answer) ==
    /\ gate = "classify"
    /\ round < Classifiers
    /\ round' = round + 1
    /\ classified' = classified \o answer
    /\ PassOrRaise(\A i \in DOMAIN answer : Cites(answer[i]), "classify")
    /\ UNCHANGED <<evidence, policies, objective, plan, checks, package>>

ClassifiersDone ==
    /\ gate = "classify"
    /\ round = Classifiers
    /\ \/ /\ classified = <<>>
          /\ gate' = "no_candidate"
       \/ /\ classified # <<>>
          /\ PassOrRaise(\A i, j \in DOMAIN classified :
                             classified[i].id = classified[j].id => i = j,
                         "objective")
    /\ UNCHANGED <<evidence, policies, round, classified, objective, plan, checks,
                   package>>

InterpretObjective(answer) ==
    /\ gate = "objective"
    /\ objective' = answer
    /\ PassOrRaise(Cites(answer) /\ answer.constraints = ConstraintIds, "plan")
    /\ UNCHANGED <<evidence, policies, round, classified, plan, checks, package>>

PlannerDeclines ==
    /\ gate = "plan"
    /\ gate' = "no_candidate"
    /\ UNCHANGED <<evidence, policies, round, classified, objective, plan, checks,
                   package>>

ProposePlan(answer) ==
    /\ gate = "plan"
    /\ plan' = answer
    /\ LET chosen == SelectedOf(answer) IN
       PassOrRaise(
           /\ \A c \in answer.candidates : IsAdmissible(c) /\ IsPriced(objective, c)
           /\ IsCheapest(objective, chosen, answer.candidates)
           /\ CoversHard(Constraints, chosen)
           /\ \A i \in DOMAIN RequiredChecks[chosen.action] :
                  RequiredChecks[chosen.action][i] \in ConfiguredChecks,
           "check")
    /\ UNCHANGED <<evidence, policies, round, classified, objective, checks, package>>

Challenge(answer) ==
    /\ gate = "check"
    /\ Len(checks) < Len(Required)
    /\ LET passes == /\ answer.candidate = Selected.id
                     /\ answer.check = Required[Len(checks) + 1]
                     /\ Cites(answer) IN
           /\ PassOrRaise(passes, "check")
           /\ checks' = IF passes THEN Append(checks, answer) ELSE checks
    /\ UNCHANGED <<evidence, policies, round, classified, objective, plan, package>>

ChecksDone ==
    /\ gate = "check"
    /\ Len(checks) = Len(Required)
    /\ gate' = IF \E i \in DOMAIN checks : ~checks[i].survives
               THEN "rejected" ELSE "package"
    /\ UNCHANGED <<evidence, policies, round, classified, objective, plan, checks,
                   package>>

BuildPackage ==
    /\ gate = "package"
    /\ \E e \in Expiries :
           /\ \A f \in Expiries : e <= f
           /\ package' = Package(e)
           /\ PassOrRaise(IsCoherent(Package(e)), "packaged")
    /\ UNCHANGED <<evidence, policies, round, classified, objective, plan, checks>>

(* A port raises, also when it builds an answer its contract refuses. *)
PortRaises ==
    /\ \/ gate = "policy" /\ Len(policies) < Policies
       \/ gate = "classify" /\ round < Classifiers
       \/ gate \in {"objective", "plan"}
       \/ gate = "check" /\ Len(checks) < Len(Required)
    /\ gate' = "raised"
    /\ UNCHANGED <<evidence, policies, round, classified, objective, plan, checks,
                   package>>

(* The cycle is over: packaged and ready to be signed, refused or raised. *)
Over ==
    /\ gate \in {"packaged", "rejected", "no_candidate", "raised"}
    /\ UNCHANGED vars

Init ==
    /\ gate = "policy"
    /\ evidence \in Cycles
    /\ policies = <<>>
    /\ round = 0
    /\ classified = <<>>
    /\ objective = Absent
    /\ plan = Absent
    /\ checks = <<>>
    /\ package = Absent

Gates ==
    \/ PoliciesDone \/ ClassifiersDone \/ ChecksDone \/ BuildPackage \/ Over

Next ==
    \/ \E answer \in PolicyAnswers : EvaluatePolicy(answer)
    \/ \E answer \in ClassifierAnswers : Classify(answer)
    \/ \E answer \in Objectives : InterpretObjective(answer)
    \/ PlannerDeclines
    \/ \E answer \in Plans : ProposePlan(answer)
    \/ \E answer \in CheckAnswers : Challenge(answer)
    \/ PortRaises
    \/ Gates

Spec == Init /\ [][Next]_vars

-----------------------------------------------------------------------------
(* Properties. *)

(* Whatever the ports answer, a cycle that passed the kernel's gates can    *)
(* build its package: coherent_package (contracts.py:299-406) refuses       *)
(* nothing that the gates let through, so no cycle fails after its checks   *)
(* have been recorded as survived.                                          *)
GatesImplyCoherence ==
    gate = "package" =>
        \A e \in Expiries : (\A f \in Expiries : e <= f) => IsCoherent(Package(e))

(* What a package promises beyond its own validator: every candidate in it, *)
(* also a rejected one, is an action the registry admits with these         *)
(* parameters and this consequence, and the selected one has survived every *)
(* falsification check the registry requires of it, in order                *)
(* (kernel.py:369-443, registry.py:50-67).                                  *)
PackageIsGoverned ==
    gate = "packaged" =>
        LET chosen == CHOOSE c \in package.candidates : c.id = package.selected IN
        /\ \A c \in package.candidates :
               /\ c.action \in Actions
               /\ c.consequence \in AllowedConsequences[c.action]
               /\ c.parameters \in Schemas[c.action]
        /\ [i \in DOMAIN package.checks |-> package.checks[i].check]
               = RequiredChecks[chosen.action]
        /\ \A i \in DOMAIN package.checks : package.checks[i].survives
        /\ Len(package.policies) = Policies

=============================================================================
