--------------------------- MODULE CycleGatesProofs ---------------------------
(***************************************************************************)
(* The gates of a cycle let through only what DecisionPackage accepts, for *)
(* every set of answers the ports may give, every registry and every set   *)
(* of cycles.  The inductive invariant says, gate by gate, what the gates  *)
(* already passed have established of the answers kept.                    *)
(***************************************************************************)
EXTENDS CycleGates, TLAPS

(* The answers kept are lists, of whatever the ports answer. *)
IsList(s) == \E S : s \in Seq(S)

LEMMA ListFacts ==
    ASSUME NEW s, IsList(s)
    PROVE  Len(s) \in Nat /\ DOMAIN s = 1 .. Len(s) /\ (s = <<>> <=> Len(s) = 0)
  BY DEF IsList

LEMMA EmptyList == IsList(<<>>) /\ Len(<<>>) = 0 /\ DOMAIN <<>> = {}
  <1>1. <<>> \in Seq({})
    OBVIOUS
  <1> QED
    BY <1>1 DEF IsList

LEMMA AppendList ==
    ASSUME NEW s, NEW x, IsList(s)
    PROVE  /\ IsList(Append(s, x))
           /\ Len(s) \in Nat /\ Len(Append(s, x)) = Len(s) + 1
           /\ DOMAIN s = 1 .. Len(s)
           /\ DOMAIN Append(s, x) = 1 .. Len(s) + 1
           /\ \A i \in DOMAIN s : Append(s, x)[i] = s[i]
           /\ Append(s, x)[Len(s) + 1] = x
  <1>1. PICK S : s \in Seq(S)
    BY DEF IsList
  <1>2. s \in Seq(S \union {x})
    BY <1>1
  <1>3. Append(s, x) \in Seq(S \union {x})
    BY <1>2
  <1> QED
    BY <1>2, <1>3 DEF IsList

LEMMA ConcatenatedList ==
    ASSUME NEW s, NEW t, IsList(s), IsList(t)
    PROVE  /\ IsList(s \o t)
           /\ \A i \in DOMAIN (s \o t) :
                  \/ i \in DOMAIN s /\ (s \o t)[i] = s[i]
                  \/ i - Len(s) \in DOMAIN t /\ (s \o t)[i] = t[i - Len(s)]
  <1>1. PICK S : s \in Seq(S)
    BY DEF IsList
  <1>2. PICK T : t \in Seq(T)
    BY DEF IsList
  <1> DEFINE U == S \union T
  <1>3. s \in Seq(U) /\ t \in Seq(U)
    BY <1>1, <1>2
  <1> HIDE DEF U
  <1>4. s \o t \in Seq(U)
    BY <1>3
  <1> QED
    BY <1>3, <1>4 DEF IsList

-----------------------------------------------------------------------------
(* The inductive invariant. *)

(* Gates that are reached only through the gate named. *)
PastPolicies == {"classify", "objective", "plan", "check", "package"}
PastConstraints == {"objective", "plan", "check", "package"}
PastObjective == {"plan", "check", "package"}
PastPlan == {"check", "package"}

AnswersListed == IsList(policies) /\ IsList(classified) /\ IsList(checks)

(* What each gate has established. *)
PoliciesCite == \A i \in DOMAIN policies : Cites(policies[i])
PoliciesAgree ==
    gate \in PastPolicies =>
        /\ \A i, j \in DOMAIN policies :
               policies[i].check = policies[j].check => i = j
        /\ \A i \in DOMAIN policies : policies[i].allowed
ConstraintsCite ==
    gate # "raised" => \A i \in DOMAIN classified : Cites(classified[i])
ConstraintsDiffer ==
    gate \in PastConstraints =>
        \A i, j \in DOMAIN classified : classified[i].id = classified[j].id => i = j
ObjectiveCovers ==
    gate \in PastObjective =>
        Cites(objective) /\ objective.constraints = ConstraintIds
PlanPassed ==
    gate \in PastPlan =>
        /\ IsPlan(plan)
        /\ \A c \in plan.candidates : IsAdmissible(c) /\ IsPriced(objective, c)
        /\ IsCheapest(objective, Selected, plan.candidates)
        /\ CoversHard(Constraints, Selected)
ChecksInOrder ==
    IF gate \in PastPlan
    THEN /\ Len(checks) <= Len(Required)
         /\ \A i \in DOMAIN checks :
                /\ checks[i].candidate = Selected.id
                /\ checks[i].check = Required[i]
                /\ Cites(checks[i])
    ELSE gate \in PastPolicies \union {"policy"} => checks = <<>>
ChecksSurvived ==
    gate = "package" =>
        /\ Len(checks) = Len(Required)
        /\ \A i \in DOMAIN checks : checks[i].survives

GatesInv ==
    /\ AnswersListed
    /\ PoliciesCite
    /\ PoliciesAgree
    /\ ConstraintsCite
    /\ ConstraintsDiffer
    /\ ObjectiveCovers
    /\ PlanPassed
    /\ ChecksInOrder
    /\ ChecksSurvived

LEMMA SelectedIsCandidate ==
    ASSUME NEW p, IsPlan(p)
    PROVE  /\ SelectedOf(p) \in p.candidates
           /\ SelectedOf(p).id = p.selected
           /\ HasDistinctIds(p.candidates)
           /\ p.rejected = p.candidates \ {SelectedOf(p)}
  BY DEF IsPlan, SelectedOf

LEMMA GatesInit == Init => GatesInv
  BY EmptyList DEF Init, GatesInv, AnswersListed, PoliciesCite, PoliciesAgree, ConstraintsCite,
         ConstraintsDiffer, ObjectiveCovers, PlanPassed, ChecksInOrder, ChecksSurvived,
         PastPolicies, PastConstraints, PastObjective, PastPlan

(* A package built when every gate has passed is coherent. *)
LEMMA Coherence ==
    ASSUME GatesInv, gate = "package" => IsEvidence(evidence)
    PROVE  GatesImplyCoherence
  <1> SUFFICES ASSUME gate = "package",
                      NEW e \in Expiries, \A f \in Expiries : e <= f
               PROVE  IsCoherent(Package(e))
    BY DEF GatesImplyCoherence
  <1> DEFINE p == Package(e)
  <1>1. /\ p.created = Now /\ p.expires = e
        /\ p.refs = Known /\ p.policies = policies /\ p.constraints = Constraints
        /\ p.objective = objective /\ p.candidates = plan.candidates
        /\ p.selected = Selected.id /\ p.rejected = plan.rejected
        /\ p.checks = checks
        /\ p.manifest = [i \in DOMAIN evidence |->
                      [id |-> evidence[i].id, artifact |-> evidence[i].artifact,
                       envelope |-> evidence[i]]]
    BY DEF Package
  <1> HIDE DEF p
  <1>2. IsEvidence(evidence)
    OBVIOUS
  <1>3. p.created < p.expires
    <2>1. Now < Now + Ttl
      BY SizesAssumption
    <2>2. \A item \in Items : Now < item.expires
      BY <1>2 DEF Items, IsEvidence
    <2> QED
      BY <1>1, <2>1, <2>2 DEF Expiries
  <1>4. HasSoundManifest(p)
    <2>1. \A i \in DOMAIN evidence :
              /\ p.manifest[i].id = evidence[i].id
              /\ p.manifest[i].artifact = evidence[i].artifact
              /\ p.manifest[i].envelope = evidence[i]
      BY <1>1
    <2>2. DOMAIN p.manifest = DOMAIN evidence
      BY <1>1
    <2>3. \A i, j \in DOMAIN evidence : evidence[i].id = evidence[j].id => i = j
      BY <1>2 DEF IsEvidence
    <2>4. {p.manifest[i].artifact : i \in DOMAIN p.manifest} = Known
      BY <2>1, <2>2 DEF Known, Items
    <2>5. ASSUME NEW i \in DOMAIN evidence, NEW j \in DOMAIN evidence,
                 \/ p.manifest[i].id = p.manifest[j].id
                 \/ p.manifest[i].envelope = p.manifest[j].envelope
          PROVE  i = j
      BY <2>1, <2>3, <2>5
    <2> QED
      BY <1>1, <2>2, <2>4, <2>5 DEF HasSoundManifest
  <1>5. HasSoundPolicies(p)
    BY <1>1 DEF HasSoundPolicies, GatesInv, PoliciesAgree, PastPolicies
  <1>6. IsPlan(plan)
    BY DEF GatesInv, PlanPassed, PastPlan
  <1>7. /\ Selected \in plan.candidates /\ HasDistinctIds(plan.candidates)
        /\ plan.rejected = plan.candidates \ {Selected}
    BY <1>6, SelectedIsCandidate DEF Selected
  <1>8. HasSoundPlan(p)
    <2>1. HasDistinctIds(Constraints)
      BY DEF HasDistinctIds, Constraints, GatesInv, ConstraintsDiffer, PastConstraints
    <2>2. objective.constraints = {k.id : k \in Constraints}
      BY DEF GatesInv, ObjectiveCovers, PastObjective, ConstraintIds
    <2>3. \A c \in plan.candidates :
              c.constraints \subseteq {k.id : k \in Constraints} /\ IsPriced(objective, c)
      BY DEF GatesInv, PlanPassed, PastPlan, IsAdmissible, ConstraintIds
    <2>4. HardIds(Constraints) \subseteq Selected.constraints
          /\ IsCheapest(objective, Selected, plan.candidates)
      BY DEF GatesInv, PlanPassed, PastPlan, CoversHard
    <2> QED
      BY <1>1, <1>7, <2>1, <2>2, <2>3, <2>4 DEF HasSoundPlan
  <1>9. HasSoundChecks(p)
    <2>1. Selected.action \in Actions
      BY <1>7 DEF GatesInv, PlanPassed, PastPlan, IsAdmissible, Validates
    <2>2. /\ Required \in Seq(STRING) /\ Required # <<>>
          /\ \A i, j \in DOMAIN Required : Required[i] = Required[j] => i = j
      BY <2>1, RegistryAssumption DEF Required
    <2>3. DOMAIN checks = 1 .. Len(checks) /\ Len(checks) = Len(Required)
      BY ListFacts DEF GatesInv, AnswersListed, ChecksSurvived
    <2>4. DOMAIN checks = DOMAIN Required /\ 1 \in DOMAIN checks
      BY <2>2, <2>3
    <2>5. \A i \in DOMAIN checks : /\ checks[i].candidate = Selected.id
                                   /\ checks[i].check = Required[i]
                                   /\ checks[i].survives
      BY DEF GatesInv, ChecksInOrder, ChecksSurvived, PastPlan
    <2> QED
      BY <1>1, <1>7, <2>2, <2>4, <2>5 DEF HasSoundChecks
  <1>10. HasKnownRefs(p)
    <2>1. \A i \in DOMAIN policies : policies[i].refs \subseteq Known
      BY DEF GatesInv, PoliciesCite, Cites
    <2>2. \A i \in DOMAIN checks : checks[i].refs \subseteq Known
      BY DEF GatesInv, ChecksInOrder, PastPlan, Cites
    <2>3. \A k \in Constraints : k.refs \subseteq Known
      BY DEF GatesInv, ConstraintsCite, Constraints, Cites
    <2>4. \A c \in plan.candidates : c.refs \subseteq Known
      BY DEF GatesInv, PlanPassed, PastPlan, IsAdmissible, Cites
    <2>5. objective.refs \subseteq Known
      BY DEF GatesInv, ObjectiveCovers, PastObjective, Cites
    <2> QED
      BY <1>1, <2>1, <2>2, <2>3, <2>4, <2>5 DEF HasKnownRefs
  <1> QED
    BY <1>3, <1>4, <1>5, <1>8, <1>9, <1>10 DEF IsCoherent, p

-----------------------------------------------------------------------------
(* Each step keeps what the gates before it have established. *)

(* Steps that keep the answers only move to a gate already earned. *)
LEMMA MoveOn ==
    ASSUME GatesInv,
           UNCHANGED <<evidence, policies, classified, objective, plan, checks>>,
           gate \in PastPolicies \union {"policy"},
           gate' \in PastPolicies => PoliciesAgree',
           gate' \in PastConstraints => ConstraintsDiffer',
           gate' \in PastObjective => gate \in PastObjective,
           gate' \in PastPlan => gate \in PastPlan,
           gate \in PastPlan => gate' \in PastPlan \union {"rejected"},
           ChecksSurvived'
    PROVE  GatesInv'
  <1>1. AnswersListed' /\ PoliciesCite' /\ ConstraintsCite'
    BY DEF GatesInv, AnswersListed, PoliciesCite, ConstraintsCite, Cites, Known, Items,
           PastPolicies
  <1>2. PoliciesAgree'
    BY DEF PoliciesAgree
  <1>3. ConstraintsDiffer'
    BY DEF ConstraintsDiffer
  <1>4. ObjectiveCovers'
    BY DEF GatesInv, ObjectiveCovers, Cites, Known, Items, ConstraintIds, Constraints
  <1>5. PlanPassed'
    BY DEF GatesInv, PlanPassed, IsAdmissible, Cites, Known, Items, ConstraintIds,
           Constraints, Selected
  <1>6. ChecksInOrder'
    BY DEF GatesInv, ChecksInOrder, Cites, Known, Items, Required, Selected,
           PastPolicies, PastPlan
  <1> QED
    BY <1>1, <1>2, <1>3, <1>4, <1>5, <1>6 DEF GatesInv

(* A cycle that raises keeps only the types of what it held. *)
LEMMA Raising ==
    ASSUME GatesInv, gate' = "raised", evidence' = evidence,
           policies' = policies, checks' = checks, IsList(classified')
    PROVE  GatesInv'
  BY DEF GatesInv, AnswersListed, PoliciesCite, PoliciesAgree, ConstraintsCite,
         ConstraintsDiffer, ObjectiveCovers, PlanPassed, ChecksInOrder, ChecksSurvived,
         PastPolicies, PastConstraints, PastObjective, PastPlan, Cites, Known, Items

LEMMA EvaluatePolicyStep ==
    ASSUME GatesInv, NEW answer, EvaluatePolicy(answer)
    PROVE  GatesInv'
  <1>1. CASE ~Cites(answer)
    BY <1>1, Raising DEF EvaluatePolicy, PassOrRaise, GatesInv, AnswersListed
  <1>2. CASE Cites(answer)
    <2>1. /\ gate = "policy" /\ gate' = "policy"
          /\ policies' = Append(policies, answer)
          /\ UNCHANGED <<evidence, round, classified, objective, plan, checks, package>>
      BY <1>2 DEF EvaluatePolicy, PassOrRaise
    <2>2. AnswersListed'
      BY <2>1, AppendList DEF GatesInv, AnswersListed
    <2>3. PoliciesCite'
      <3>1. IsList(policies)
        BY DEF GatesInv, AnswersListed
      <3>2. \A i \in DOMAIN policies' :
                policies'[i] = answer \/ (i \in DOMAIN policies /\ policies'[i] = policies[i])
        <4>1. /\ DOMAIN policies' = 1 .. Len(policies) + 1 /\ Len(policies) \in Nat
              /\ DOMAIN policies = 1 .. Len(policies)
              /\ \A i \in DOMAIN policies : policies'[i] = policies[i]
              /\ policies'[Len(policies) + 1] = answer
          BY <2>1, <3>1, AppendList
        <4> QED
          BY <4>1
      <3>3. \A x : Cites(x) => Cites(x)'
        BY <2>1 DEF Cites, Known, Items
      <3> QED
        BY <1>2, <2>1, <3>2, <3>3 DEF GatesInv, PoliciesCite, Cites, Known, Items
    <2>4. ConstraintsCite'
      BY <2>1 DEF GatesInv, ConstraintsCite, Cites, Known, Items
    <2> QED
      BY <2>1, <2>2, <2>3, <2>4
         DEF GatesInv, PoliciesAgree, ConstraintsDiffer, ObjectiveCovers, PlanPassed,
             ChecksInOrder, ChecksSurvived, PastPolicies, PastConstraints, PastObjective,
             PastPlan
  <1> QED
    BY <1>1, <1>2

LEMMA PoliciesDoneStep ==
    ASSUME GatesInv, PoliciesDone
    PROVE  GatesInv'
  <1>1. CASE gate' = "raised"
    BY <1>1, Raising DEF PoliciesDone, GatesInv, AnswersListed
  <1>2. CASE gate' # "raised"
    <2>1. /\ gate = "policy" /\ gate' \in {"rejected", "classify"}
          /\ UNCHANGED <<evidence, policies, classified, objective, plan, checks>>
      BY <1>2 DEF PoliciesDone, PassOrRaise
    <2>2. gate' = "classify" =>
              /\ \A i, j \in DOMAIN policies :
                     policies[i].check = policies[j].check => i = j
              /\ \A i \in DOMAIN policies : policies[i].allowed
      BY <1>2 DEF PoliciesDone, PassOrRaise
    <2> QED
      BY <2>1, <2>2, MoveOn DEF PoliciesAgree, ConstraintsDiffer, ChecksSurvived,
             PastPolicies, PastConstraints, PastObjective, PastPlan
  <1> QED
    BY <1>1, <1>2

LEMMA ClassifyStep ==
    ASSUME GatesInv, NEW answer, IsList(answer), Classify(answer)
    PROVE  GatesInv'
  <1>1. /\ gate = "classify" /\ classified' = classified \o answer
        /\ IsList(classified) /\ IsList(classified')
        /\ UNCHANGED <<evidence, policies, objective, plan, checks, package>>
    BY ConcatenatedList DEF Classify, GatesInv, AnswersListed
  <1>2. CASE gate' = "raised"
    BY <1>1, <1>2, Raising
  <1>3. CASE gate' # "raised"
    <2>1. gate' = "classify" /\ \A i \in DOMAIN answer : Cites(answer[i])
      BY <1>3 DEF Classify, PassOrRaise
    <2>2. \A i \in DOMAIN classified' :
              \/ i \in DOMAIN classified /\ classified'[i] = classified[i]
              \/ i - Len(classified) \in DOMAIN answer
                     /\ classified'[i] = answer[i - Len(classified)]
      BY <1>1, ConcatenatedList
    <2>3. \A i \in DOMAIN classified : Cites(classified[i])
      BY <1>1 DEF GatesInv, ConstraintsCite
    <2>4. Known' = Known
      BY <1>1 DEF Known, Items
    <2>5. \A i \in DOMAIN classified' : classified'[i].refs \subseteq Known
      BY <2>1, <2>2, <2>3 DEF Cites
    <2>6. ConstraintsCite'
      BY <2>4, <2>5 DEF ConstraintsCite, Cites
    <2>7. AnswersListed' /\ PoliciesCite' /\ PoliciesAgree'
      BY <1>1, <2>4 DEF GatesInv, AnswersListed, PoliciesCite, PoliciesAgree, Cites,
             PastPolicies
    <2> QED
      BY <1>1, <2>1, <2>6, <2>7
         DEF GatesInv, ConstraintsDiffer, ObjectiveCovers, PlanPassed, ChecksInOrder,
             ChecksSurvived, PastPolicies, PastConstraints, PastObjective, PastPlan
  <1> QED
    BY <1>2, <1>3

LEMMA ClassifiersDoneStep ==
    ASSUME GatesInv, ClassifiersDone
    PROVE  GatesInv'
  <1>1. CASE gate' = "raised"
    BY <1>1, Raising DEF ClassifiersDone, GatesInv, AnswersListed
  <1>2. CASE gate' # "raised"
    <2>1. /\ gate = "classify" /\ gate' \in {"no_candidate", "objective"}
          /\ UNCHANGED <<evidence, policies, classified, objective, plan, checks>>
      BY <1>2 DEF ClassifiersDone, PassOrRaise
    <2>2. gate' = "objective" =>
              \A i, j \in DOMAIN classified : classified[i].id = classified[j].id => i = j
      BY <1>2 DEF ClassifiersDone, PassOrRaise
    <2>3. PoliciesAgree'
      BY <2>1 DEF GatesInv, PoliciesAgree, PastPolicies
    <2> QED
      BY <2>1, <2>2, <2>3, MoveOn DEF ConstraintsDiffer, ChecksSurvived,
             PastPolicies, PastConstraints, PastObjective, PastPlan
  <1> QED
    BY <1>1, <1>2

LEMMA InterpretObjectiveStep ==
    ASSUME GatesInv, NEW answer, InterpretObjective(answer)
    PROVE  GatesInv'
  <1>1. CASE gate' = "raised"
    BY <1>1, Raising DEF InterpretObjective, GatesInv, AnswersListed
  <1>2. CASE gate' # "raised"
    <2>1. /\ gate = "objective" /\ gate' = "plan" /\ objective' = answer
          /\ Cites(answer) /\ answer.constraints = ConstraintIds
          /\ UNCHANGED <<evidence, policies, classified, plan, checks, package>>
      BY <1>2 DEF InterpretObjective, PassOrRaise
    <2>2. Known' = Known /\ ConstraintIds' = ConstraintIds
      BY <2>1 DEF Known, Items, ConstraintIds, Constraints
    <2>3. ObjectiveCovers'
      BY <2>1, <2>2 DEF ObjectiveCovers, Cites
    <2>4. AnswersListed' /\ PoliciesCite' /\ PoliciesAgree' /\ ConstraintsCite'
          /\ ConstraintsDiffer'
      BY <2>1, <2>2 DEF GatesInv, AnswersListed, PoliciesCite, PoliciesAgree,
             ConstraintsCite, ConstraintsDiffer, Cites, PastPolicies, PastConstraints
    <2> QED
      BY <2>1, <2>3, <2>4 DEF GatesInv, PlanPassed, ChecksInOrder, ChecksSurvived,
             PastPolicies, PastPlan
  <1> QED
    BY <1>1, <1>2

LEMMA ProposePlanStep ==
    ASSUME GatesInv, NEW answer, IsPlan(answer), ProposePlan(answer)
    PROVE  GatesInv'
  <1>1. CASE gate' = "raised"
    BY <1>1, Raising DEF ProposePlan, GatesInv, AnswersListed
  <1>2. CASE gate' # "raised"
    <2> DEFINE chosen == SelectedOf(answer)
    <2>1. /\ gate = "plan" /\ gate' = "check" /\ plan' = answer
          /\ UNCHANGED <<evidence, policies, classified, objective, checks, package>>
      BY <1>2 DEF ProposePlan, PassOrRaise
    <2>2. /\ \A c \in answer.candidates : IsAdmissible(c) /\ IsPriced(objective, c)
          /\ IsCheapest(objective, chosen, answer.candidates)
          /\ CoversHard(Constraints, chosen)
      BY <1>2 DEF ProposePlan, PassOrRaise
    <2>3. /\ Known' = Known /\ ConstraintIds' = ConstraintIds
          /\ Constraints' = Constraints /\ Selected' = chosen
      BY <2>1 DEF Known, Items, ConstraintIds, Constraints, Selected
    <2>4. PlanPassed'
      BY <2>1, <2>2, <2>3 DEF PlanPassed, IsAdmissible, Cites
    <2>5. ChecksInOrder'
      <3>1. checks = <<>>
        BY <2>1 DEF GatesInv, ChecksInOrder, PastPolicies, PastPlan
      <3>2. chosen \in answer.candidates
        BY SelectedIsCandidate
      <3>3. chosen.action \in Actions
        BY <2>2, <3>2 DEF IsAdmissible, Validates
      <3>4. Required' \in Seq(STRING)
        BY <2>3, <3>3, RegistryAssumption DEF Required
      <3>5. checks' = <<>> /\ Len(checks') = 0 /\ DOMAIN checks' = {}
        BY <2>1, <3>1
      <3>6. Len(Required') \in Nat
        BY <3>4
      <3>7. Len(checks') <= Len(Required')
        BY <3>5, <3>6
      <3> QED
        BY <2>1, <3>5, <3>7 DEF ChecksInOrder, PastPlan
    <2>6. AnswersListed' /\ PoliciesCite' /\ PoliciesAgree' /\ ConstraintsCite'
          /\ ConstraintsDiffer' /\ ObjectiveCovers'
      BY <2>1, <2>3 DEF GatesInv, AnswersListed, PoliciesCite, PoliciesAgree,
             ConstraintsCite, ConstraintsDiffer, ObjectiveCovers, Cites, PastPolicies,
             PastConstraints, PastObjective
    <2> QED
      BY <2>1, <2>4, <2>5, <2>6 DEF GatesInv, ChecksSurvived
  <1> QED
    BY <1>1, <1>2

LEMMA ChallengeStep ==
    ASSUME GatesInv, NEW answer, Challenge(answer)
    PROVE  GatesInv'
  <1>1. CASE gate' = "raised"
    <2>1. checks' = checks
      BY <1>1 DEF Challenge, PassOrRaise
    <2> QED
      BY <1>1, <2>1, Raising DEF Challenge, GatesInv, AnswersListed
  <1>2. CASE gate' # "raised"
    <2>1. /\ gate = "check" /\ gate' = "check" /\ checks' = Append(checks, answer)
          /\ answer.candidate = Selected.id
          /\ answer.check = Required[Len(checks) + 1]
          /\ Cites(answer)
          /\ Len(checks) < Len(Required)
          /\ UNCHANGED <<evidence, policies, classified, objective, plan, package>>
      BY <1>2 DEF Challenge, PassOrRaise
    <2>2. /\ Len(checks) \in Nat /\ Len(checks') = Len(checks) + 1
          /\ DOMAIN checks = 1 .. Len(checks) /\ DOMAIN checks' = 1 .. Len(checks) + 1
          /\ \A i \in DOMAIN checks : checks'[i] = checks[i]
          /\ checks'[Len(checks) + 1] = answer /\ IsList(checks')
      BY <2>1, AppendList DEF GatesInv, AnswersListed
    <2>3. /\ Known' = Known /\ ConstraintIds' = ConstraintIds
          /\ Constraints' = Constraints /\ Selected' = Selected /\ Required' = Required
      BY <2>1 DEF Known, Items, ConstraintIds, Constraints, Selected, Required
    <2>4. Required \in Seq(STRING)
      <3>1. IsPlan(plan) /\ \A c \in plan.candidates : IsAdmissible(c)
        BY <2>1 DEF GatesInv, PlanPassed, PastPlan
      <3>2. Selected \in plan.candidates
        BY <3>1, SelectedIsCandidate DEF Selected
      <3> QED
        BY <3>1, <3>2, RegistryAssumption DEF IsAdmissible, Validates, Required
    <2>5. ChecksInOrder'
      <3>1. /\ Len(checks) <= Len(Required)
            /\ \A i \in DOMAIN checks :
                   /\ checks[i].candidate = Selected.id
                   /\ checks[i].check = Required[i]
                   /\ checks[i].refs \subseteq Known
        BY <2>1 DEF GatesInv, ChecksInOrder, PastPlan, Cites
      <3>2. Len(checks') <= Len(Required)
        BY <2>1, <2>2, <2>4
      <3>3. \A i \in DOMAIN checks' :
                \/ i = Len(checks) + 1 /\ checks'[i] = answer
                \/ i \in DOMAIN checks /\ checks'[i] = checks[i]
        BY <2>1, <2>2
      <3>4. \A i \in DOMAIN checks' :
                /\ checks'[i].candidate = Selected.id
                /\ checks'[i].check = Required[i]
                /\ checks'[i].refs \subseteq Known
        BY <2>1, <3>1, <3>3 DEF Cites
      <3> QED
        BY <2>1, <2>3, <3>2, <3>4 DEF ChecksInOrder, PastPlan, Cites
    <2>6. AnswersListed'
      BY <2>1, <2>2 DEF GatesInv, AnswersListed
    <2>7. PoliciesCite' /\ PoliciesAgree' /\ ConstraintsCite'
          /\ ConstraintsDiffer' /\ ObjectiveCovers'
      BY <2>1, <2>3 DEF GatesInv, PoliciesCite, PoliciesAgree,
             ConstraintsCite, ConstraintsDiffer, ObjectiveCovers, Cites, PastPolicies,
             PastConstraints, PastObjective
    <2>8. PlanPassed'
      BY <2>1, <2>3 DEF GatesInv, PlanPassed, PastPlan, IsAdmissible, Cites
    <2> QED
      BY <2>1, <2>5, <2>6, <2>7, <2>8 DEF GatesInv, ChecksSurvived
  <1> QED
    BY <1>1, <1>2

LEMMA ChecksDoneStep ==
    ASSUME GatesInv, ChecksDone
    PROVE  GatesInv'
  <1>1. /\ gate = "check" /\ gate' \in {"rejected", "package"}
        /\ Len(checks) = Len(Required)
        /\ gate' = "package" => \A i \in DOMAIN checks : checks[i].survives
        /\ UNCHANGED <<evidence, policies, classified, objective, plan, checks>>
    BY DEF ChecksDone
  <1>2. ChecksSurvived'
    BY <1>1 DEF ChecksSurvived, Required, Selected
  <1>3. PoliciesAgree' /\ ConstraintsDiffer'
    BY <1>1 DEF GatesInv, PoliciesAgree, ConstraintsDiffer, PastPolicies, PastConstraints
  <1> QED
    BY <1>1, <1>2, <1>3, MoveOn DEF PastPolicies, PastConstraints, PastObjective, PastPlan

LEMMA BuildPackageStep ==
    ASSUME GatesInv, BuildPackage
    PROVE  GatesInv'
  <1>1. CASE gate' = "raised"
    BY <1>1, Raising DEF BuildPackage, GatesInv, AnswersListed
  <1>2. CASE gate' # "raised"
    <2>1. /\ gate = "package" /\ gate' = "packaged"
          /\ UNCHANGED <<evidence, policies, classified, objective, plan, checks>>
      BY <1>2 DEF BuildPackage, PassOrRaise
    <2>2. AnswersListed'
      BY <2>1 DEF GatesInv, AnswersListed
    <2>3. PoliciesCite'
      BY <2>1 DEF GatesInv, PoliciesCite, Cites, Known, Items
    <2>4. ConstraintsCite'
      BY <2>1 DEF GatesInv, ConstraintsCite, Cites, Known, Items
    <2> QED
      BY <2>1, <2>2, <2>3, <2>4 DEF GatesInv, PoliciesAgree, ConstraintsDiffer, ObjectiveCovers,
             PlanPassed, ChecksInOrder, ChecksSurvived, PastPolicies, PastConstraints,
             PastObjective, PastPlan
  <1> QED
    BY <1>1, <1>2

(* A step that changes nothing keeps everything. *)
LEMMA Stuttering ==
    ASSUME GatesInv, UNCHANGED vars
    PROVE  GatesInv'
  <1>. UNCHANGED <<gate, evidence, policies, classified, objective, plan, checks>>
    BY DEF vars
  <1>1. AnswersListed'
    BY DEF GatesInv, AnswersListed
  <1>2. PoliciesCite' /\ ConstraintsCite'
    BY DEF GatesInv, PoliciesCite, ConstraintsCite, Cites, Known, Items
  <1>3. PoliciesAgree' /\ ConstraintsDiffer'
    BY DEF GatesInv, PoliciesAgree, ConstraintsDiffer
  <1>4. ObjectiveCovers'
    BY DEF GatesInv, ObjectiveCovers, Cites, Known, Items, ConstraintIds, Constraints
  <1>5. PlanPassed'
    BY DEF GatesInv, PlanPassed, IsAdmissible, Cites, Known, Items, ConstraintIds,
           Constraints, Selected
  <1>6. ChecksInOrder'
    BY DEF GatesInv, ChecksInOrder, Cites, Known, Items, Required, Selected
  <1>7. ChecksSurvived'
    BY DEF GatesInv, ChecksSurvived, Required, Selected
  <1>. QED
    BY <1>1, <1>2, <1>3, <1>4, <1>5, <1>6, <1>7 DEF GatesInv

LEMMA OtherSteps ==
    ASSUME GatesInv, PlannerDeclines \/ PortRaises \/ Over
    PROVE  GatesInv'
  <1>1. CASE PortRaises
    BY <1>1, Raising DEF PortRaises, GatesInv, AnswersListed
  <1>2. CASE PlannerDeclines
    <2>1. /\ gate = "plan" /\ gate' = "no_candidate"
          /\ UNCHANGED <<evidence, policies, classified, objective, plan, checks>>
      BY <1>2 DEF PlannerDeclines
    <2> QED
      BY <2>1, MoveOn DEF ChecksSurvived, PastPolicies, PastConstraints, PastObjective,
             PastPlan
  <1>3. CASE Over
    BY <1>3, Stuttering DEF Over
  <1> QED
    BY <1>1, <1>2, <1>3

LEMMA ClassifiersListed == \A answer \in ClassifierAnswers : IsList(answer)
  BY ClassifiersAssumption DEF IsList

LEMMA GatesStep == GatesInv /\ [Next]_vars => GatesInv'
  <1> SUFFICES ASSUME GatesInv, [Next]_vars
               PROVE  GatesInv'
    OBVIOUS
  <1>1. CASE UNCHANGED vars
    BY <1>1, Stuttering
  <1>2. CASE Next
    BY <1>2, PlansAssumption, ClassifiersListed, EvaluatePolicyStep, PoliciesDoneStep, ClassifyStep, ClassifiersDoneStep,
       InterpretObjectiveStep, ProposePlanStep, ChallengeStep, ChecksDoneStep,
       BuildPackageStep, OtherSteps
       DEF Next, Gates
  <1> QED
    BY <1>1, <1>2

(* What the gates already passed have established of the answers stays      *)
(* established until the package is built (kernel.py:278-475).              *)
THEOREM GatesInvariance == Spec => []GatesInv
  BY GatesInit, GatesStep, PTL DEF Spec

(* The validator of DecisionPackage never refuses what passed the gates of  *)
(* the kernel, whatever the ports answer (kernel.py:278-475 against         *)
(* contracts.py:299-406).                                                   *)
THEOREM PackagesAreCoherent == Spec => []GatesImplyCoherence
  <1>1. Init => evidence \in Cycles
    BY DEF Init
  <1>2. evidence \in Cycles /\ [Next]_vars => (evidence \in Cycles)'
    BY DEF Next, Gates, EvaluatePolicy, PoliciesDone, Classify, ClassifiersDone,
       InterpretObjective, PlannerDeclines, ProposePlan, Challenge, ChecksDone,
       BuildPackage, PortRaises, Over, vars
  <1>3. GatesInv /\ evidence \in Cycles => GatesImplyCoherence
    BY CyclesAssumption, Coherence
  <1> QED
    BY <1>1, <1>2, <1>3, GatesInvariance, PTL DEF Spec

-----------------------------------------------------------------------------
(* What the finished package keeps of all this. *)

PoliciesCounted ==
    /\ Len(policies) <= Policies
    /\ gate \in PastPolicies => Len(policies) = Policies

GovernedInv == PoliciesCounted /\ PackageIsGoverned

LEMMA PoliciesCountedStep ==
    ASSUME GatesInv, PoliciesCounted, [Next]_vars
    PROVE  PoliciesCounted'
  <1>. IsList(policies) /\ Policies \in Nat
    BY SizesAssumption DEF GatesInv, AnswersListed
  <1>1. ASSUME NEW answer \in PolicyAnswers, EvaluatePolicy(answer)
        PROVE  PoliciesCounted'
    <2>1. /\ gate = "policy" /\ gate' \in {"policy", "raised"}
          /\ Len(policies) < Policies
          /\ policies' = Append(policies, answer) \/ policies' = policies
      BY <1>1 DEF EvaluatePolicy, PassOrRaise
    <2>2. Len(policies') <= Policies
      BY <2>1, AppendList, ListFacts
    <2> QED
      BY <2>1, <2>2 DEF PoliciesCounted, PastPolicies
  <1>2. CASE PoliciesDone
    BY <1>2 DEF PoliciesDone, PoliciesCounted, PastPolicies
  <1>3. ASSUME UNCHANGED policies, gate \in PastPolicies \/ gate' = gate \/ gate' = "raised"
        PROVE  PoliciesCounted'
    BY <1>3 DEF PoliciesCounted, PastPolicies
  <1>4. ASSUME NEW answer \in ClassifierAnswers, Classify(answer)
        PROVE  PoliciesCounted'
    BY <1>3, <1>4 DEF Classify, PastPolicies
  <1>5. ASSUME NEW answer \in Objectives, InterpretObjective(answer)
        PROVE  PoliciesCounted'
    BY <1>3, <1>5 DEF InterpretObjective, PastPolicies
  <1>6. ASSUME NEW answer \in Plans, ProposePlan(answer)
        PROVE  PoliciesCounted'
    BY <1>3, <1>6 DEF ProposePlan, PastPolicies
  <1>7. ASSUME NEW answer \in CheckAnswers, Challenge(answer)
        PROVE  PoliciesCounted'
    BY <1>3, <1>7 DEF Challenge, PastPolicies
  <1>8. CASE PlannerDeclines \/ ClassifiersDone \/ ChecksDone \/ BuildPackage
    BY <1>3, <1>8 DEF PlannerDeclines, ClassifiersDone, ChecksDone, BuildPackage,
       PastPolicies
  <1>9. CASE PortRaises
    BY <1>3, <1>9 DEF PortRaises
  <1>10. CASE Over \/ UNCHANGED vars
    BY <1>3, <1>10 DEF Over, vars
  <1> QED
    BY <1>1, <1>2, <1>4, <1>5, <1>6, <1>7, <1>8, <1>9, <1>10 DEF Next, Gates

(* Past the package gate its clauses are those of the gates before. *)
LEMMA BuiltIsGoverned ==
    ASSUME GatesInv, PoliciesCounted, BuildPackage
    PROVE  PackageIsGoverned'
  <1> SUFFICES ASSUME gate' = "packaged"
               PROVE  PackageIsGoverned'
    BY DEF PackageIsGoverned
  <1>1. PICK e \in Expiries : package' = Package(e)
    BY DEF BuildPackage
  <1>2. /\ package'.candidates = plan.candidates /\ package'.selected = Selected.id
        /\ package'.checks = checks /\ package'.policies = policies
    BY <1>1 DEF Package
  <1>3. gate = "package"
    BY DEF BuildPackage
  <1>4. IsPlan(plan) /\ \A c \in plan.candidates : IsAdmissible(c)
    BY <1>3 DEF GatesInv, PlanPassed, PastPlan
  <1>5. Selected \in plan.candidates /\ Selected.id = plan.selected
    BY <1>4, SelectedIsCandidate DEF Selected
  <1>6. (CHOOSE c \in package'.candidates : c.id = package'.selected) = Selected
    BY <1>2, <1>5 DEF Selected, SelectedOf
  <1>7. \A c \in plan.candidates :
            /\ c.action \in Actions
            /\ c.consequence \in AllowedConsequences[c.action]
            /\ c.parameters \in Schemas[c.action]
    BY <1>4 DEF IsAdmissible, Validates
  <1>8. [i \in DOMAIN checks |-> checks[i].check] = Required
    <2>1. Required \in Seq(STRING) /\ DOMAIN checks = 1 .. Len(checks)
      BY <1>5, <1>7, RegistryAssumption, ListFacts DEF Required, GatesInv, AnswersListed
    <2>2. /\ Len(checks) = Len(Required)
          /\ \A i \in DOMAIN checks : checks[i].check = Required[i]
      BY <1>3 DEF GatesInv, ChecksInOrder, ChecksSurvived, PastPlan
    <2>3. DOMAIN checks = DOMAIN Required
      BY <2>1, <2>2
    <2>4. Required = [i \in DOMAIN Required |-> Required[i]]
      BY <2>1
    <2> QED
      BY <2>2, <2>3, <2>4
  <1>9. \A i \in DOMAIN checks : checks[i].survives
    BY <1>3 DEF GatesInv, ChecksSurvived
  <1>10. Len(policies) = Policies
    BY <1>3 DEF PoliciesCounted, PastPolicies
  <1> QED
    BY <1>2, <1>6, <1>7, <1>8, <1>9, <1>10 DEF PackageIsGoverned, Required

LEMMA GovernedStep ==
    ASSUME GatesInv, GovernedInv, [Next]_vars
    PROVE  GovernedInv'
  <1>1. PoliciesCounted'
    BY PoliciesCountedStep DEF GovernedInv
  <1>2. CASE BuildPackage
    BY <1>1, <1>2, BuiltIsGoverned DEF GovernedInv
  <1>3. ASSUME gate' # "packaged" \/ UNCHANGED <<gate, package>>
        PROVE  GovernedInv'
    <2>1. CASE gate' # "packaged"
      BY <1>1, <2>1 DEF GovernedInv, PackageIsGoverned
    <2>2. CASE UNCHANGED <<gate, package>>
      <3>. gate' = gate /\ package' = package
        BY <2>2
      <3>1. PackageIsGoverned
        BY DEF GovernedInv
      <3>2. PackageIsGoverned'
        BY <3>1, Zenon DEF PackageIsGoverned
      <3> QED
        BY <1>1, <3>2 DEF GovernedInv
    <2> QED
      BY <1>3, <2>1, <2>2
  <1>4. CASE UNCHANGED vars \/ Over
    BY <1>3, <1>4 DEF Over, vars
  <1>5. CASE Next /\ ~BuildPackage /\ ~Over
    <2>1. gate' # "packaged"
      BY <1>5 DEF Next, Gates, EvaluatePolicy, PoliciesDone, Classify, ClassifiersDone,
         InterpretObjective, PlannerDeclines, ProposePlan, Challenge, ChecksDone,
         PortRaises, PassOrRaise
    <2> QED
      BY <1>3, <2>1
  <1> QED
    BY <1>2, <1>4, <1>5

(* In every package the kernel signs each candidate is one the registry     *)
(* admits, and the selected one survived every check required of it, in     *)
(* order (kernel.py:369-443, registry.py:46-67).                            *)
THEOREM PackagesAreGoverned == Spec => []PackageIsGoverned
  <1>1. Init => GovernedInv
    BY SizesAssumption DEF Init, GovernedInv, PoliciesCounted, PackageIsGoverned,
       PastPolicies
  <1>2. GatesInv /\ GovernedInv /\ [Next]_vars => GovernedInv'
    BY GovernedStep
  <1>3. GovernedInv => PackageIsGoverned
    BY DEF GovernedInv
  <1> QED
    BY <1>1, <1>2, <1>3, GatesInvariance, PTL DEF Spec

=============================================================================
