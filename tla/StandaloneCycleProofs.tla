------------------------- MODULE StandaloneCycleProofs -------------------------
(***************************************************************************)
(* The built-in objective, planner and check fit every gate of the kernel, *)
(* for any evidence: a cycle with them raises only over a repeated         *)
(* artifact digest, its verdict is the one the evidence calls for, and the *)
(* review it proposes covers every concern.  The invariant is about the    *)
(* variables of the gates alone, so that it serves the EvalHub and the     *)
(* TrustyAI cycle as well, which bring a policy and a classifier of their  *)
(* own.                                                                    *)
(***************************************************************************)
EXTENDS StandaloneCycle, CycleGatesProofs, FunctionTheorems, FiniteSetTheorems

(* Gates and verdicts of a cycle that has passed the evidence gates. *)
Deciding == {"policy", "classify", "objective", "plan", "check", "package"}
Admitted == Deciding \union {"packaged", "no_candidate", "raised"}

IsFresh == \A item \in Items : item.observed <= Now /\ Now < item.expires
FreshEvidence == gate \in Admitted \/ policies # <<>> => IsFresh

PoliciesPassed ==
    /\ Len(policies) <= Policies
    /\ gate \in PastPolicies \union {"packaged", "no_candidate"} =>
           Len(policies) = Policies /\ \A i \in DOMAIN policies : policies[i].allowed
DenialsDecide ==
    gate = "rejected" => \/ policies = <<>>
                         \/ \E i \in DOMAIN policies : ~policies[i].allowed
ClassifiedOnce ==
    /\ round \in {0, 1}
    /\ round = 0 => classified = <<>>
    /\ gate \in PastConstraints \union {"packaged", "no_candidate"} => round = 1
ConcernsFound == gate \in PastConstraints \union {"packaged"} => classified # <<>>
ConstraintsTellApart ==
    ~SharesArtifact =>
        \A i, j \in DOMAIN classified : classified[i].id = classified[j].id => i = j
ObjectiveKept == gate \in PastObjective \union {"packaged"} => objective = RiskReduction
PlanKept == gate \in PastPlan \union {"packaged"} => plan = ReviewPlan /\ Governed # {}
ChecksSurvive == \A i \in DOMAIN checks : checks[i].survives
PackageKept == gate = "packaged" => \E e \in Expiries : package = Package(e)
NoneGoverned == gate = "no_candidate" => classified = <<>> \/ Governed = {}

PortsInv ==
    /\ FreshEvidence
    /\ PoliciesPassed
    /\ DenialsDecide
    /\ ClassifiedOnce
    /\ ConcernsFound
    /\ ConstraintsTellApart
    /\ ObjectiveKept
    /\ PlanKept
    /\ ChecksSurvive
    /\ PackageKept
    /\ NoneGoverned
    /\ RaisesOnlyOnSharedArtifact

-----------------------------------------------------------------------------
(* Operators of the ports. *)

(* Positions in ascending order name each of them once. *)
LEMMA InOrderFacts ==
    ASSUME NEW m \in Nat, NEW P \in SUBSET (1 .. m)
    PROVE  LET places == InOrder(P) IN
           /\ IsList(places) /\ Cardinality(P) \in Nat
           /\ DOMAIN places = 1 .. Cardinality(P) /\ Len(places) = Cardinality(P)
           /\ \A n \in DOMAIN places : places[n] \in P
           /\ \A i \in P : \E n \in DOMAIN places : places[n] = i
           /\ \A n, k \in DOMAIN places : places[n] = places[k] => n = k
  <1> DEFINE UpTo(i) == {j \in P : j <= i}
             Rank(i) == Cardinality(UpTo(i))
             N == 1 .. Cardinality(P)
             places == InOrder(P)
             rank == [i \in P |-> Rank(i)]
  <1>1. IsFiniteSet(P) /\ Cardinality(P) \in Nat
    <2>1. IsFiniteSet(1 .. m)
      BY FS_Interval
    <2>2. IsFiniteSet(P)
      BY <2>1, FS_Subset
    <2> QED
      BY <2>2, FS_CardinalityType
  <1>2. ASSUME NEW i \in P
        PROVE  UpTo(i) \in SUBSET P /\ IsFiniteSet(UpTo(i)) /\ Rank(i) \in N
    <2>1. UpTo(i) \in SUBSET P /\ i \in UpTo(i)
      OBVIOUS
    <2>2. IsFiniteSet(UpTo(i)) /\ Rank(i) <= Cardinality(P)
      BY <1>1, <2>1, FS_Subset
    <2>3. Rank(i) \in Nat /\ Rank(i) # 0
      BY <2>1, <2>2, FS_CardinalityType, FS_EmptySet
    <2> QED
      BY <1>1, <2>1, <2>2, <2>3
  <1>3. ASSUME NEW i \in P, NEW j \in P, i < j
        PROVE  Rank(i) < Rank(j)
    <2>1. i \in Int /\ j \in Int /\ P \subseteq Int
      OBVIOUS
    <2>2. UpTo(i) \in SUBSET UpTo(j)
      <3>1. \A k \in P : k <= i => k <= j
        BY <1>3, <2>1
      <3> QED
        BY <3>1
    <2>3. j \in UpTo(j) /\ j \notin UpTo(i)
      BY <1>3, <2>1
    <2>4. IsFiniteSet(UpTo(j)) /\ Rank(i) \in N /\ Rank(j) \in N
      BY <1>2
    <2>5. UpTo(i) # UpTo(j)
      BY <2>3
    <2> HIDE DEF UpTo
    <2>6. Rank(i) <= Rank(j) /\ Rank(i) # Rank(j)
      BY <2>2, <2>4, <2>5, FS_Subset
    <2> QED
      BY <1>1, <2>4, <2>6
  <1>4. ASSUME NEW i \in P, NEW j \in P, Rank(i) = Rank(j)
        PROVE  i = j
    <2>1. Rank(i) \in N /\ Rank(j) \in N
      BY <1>2
    <2> QED
      BY <1>1, <1>3, <1>4, <2>1
  <1>5. \A n \in N : \E i \in P : Rank(i) = n
    <2> HIDE DEF Rank
    <2>1. rank \in [P -> N]
      BY <1>2
    <2>2. rank \in Injection(P, N)
      BY <1>4, <2>1, Fun_IsInj
    <2>3. IsFiniteSet(N) /\ Cardinality(N) = Cardinality(P)
      BY <1>1, FS_Interval
    <2>4. rank \in Surjection(P, N)
      BY <2>2, <2>3, FS_Injection
    <2>5. \A n \in N : \E i \in P : rank[i] = n
      BY <2>4 DEF Surjection
    <2> QED
      BY <2>5
  <1>6. DOMAIN places = N /\ \A n \in N : places[n] = CHOOSE i \in P : Rank(i) = n
    BY DEF InOrder
  <1> HIDE DEF Rank, places
  <1>7. \A n \in N : places[n] \in P /\ Rank(places[n]) = n
    BY <1>5, <1>6
  <1>8. \A i \in P : Rank(i) \in N
    BY <1>2
  <1>9. places \in [N -> P]
    <2>1. places = [n \in N |-> places[n]]
      BY <1>6 DEF InOrder, places
    <2> QED
      BY <1>7, <2>1
  <1>10. places \in Seq(P) /\ Len(places) = Cardinality(P)
    BY <1>1, <1>9
  <1> QED
    BY <1>1, <1>4, <1>6, <1>7, <1>8, <1>10 DEF IsList, places

(* The cost of a candidate by the two terms of the built-in objective. *)
LEMMA CostOfTwo ==
    ASSUME NEW o, NEW c, o.weights = [risk |-> 2, intervention |-> 1],
           NEW x \in Nat, NEW y \in Nat, c.values = [risk |-> x, intervention |-> y]
    PROVE  Cost(o, c) = 2 * x + y
  <1> DEFINE S == {"risk", "intervention"}
             Term(n) == o.weights[n] * c.values[n]
             First(s) == CHOOSE n \in s : TRUE
             Def(g) == [s \in SUBSET S |->
                           IF s = {} THEN 0 ELSE Term(First(s)) + g[s \ {First(s)}]]
             sums == [s \in SUBSET S |->
                         (IF "risk" \in s THEN 2 * x ELSE 0)
                             + (IF "intervention" \in s THEN y ELSE 0)]
             iter == CHOOSE g : g = Def(g)
  <1>1. Cost(o, c) = iter[DOMAIN o.weights]
    BY DEF Cost, MapThenSumSet, MapThenFoldSet
  <1>2. DOMAIN o.weights = S
    OBVIOUS
  <1>3. Term("risk") = 2 * x /\ Term("intervention") = y
    OBVIOUS
  <1> HIDE DEF Term
  <1>4. \A s \in SUBSET S : s # {} => First(s) \in s
    OBVIOUS
  <1> HIDE DEF First
  <1>5. sums = Def(sums)
    <2>1. ASSUME NEW s \in SUBSET S, s # {}
          PROVE  sums[s] = Term(First(s)) + sums[s \ {First(s)}]
      <3>1. First(s) \in s /\ s \ {First(s)} \in SUBSET S
        BY <1>4, <2>1
      <3>2. CASE First(s) = "risk"
        <4>1. sums[s] = 2 * x + (IF "intervention" \in s THEN y ELSE 0)
          BY <3>1, <3>2
        <4>2. sums[s \ {First(s)}] = (IF "intervention" \in s THEN y ELSE 0)
          BY <3>1, <3>2
        <4> QED
          BY <1>3, <3>2, <4>1, <4>2
      <3>3. CASE First(s) = "intervention"
        <4>1. sums[s] = (IF "risk" \in s THEN 2 * x ELSE 0) + y
          BY <3>1, <3>3
        <4>2. sums[s \ {First(s)}] = (IF "risk" \in s THEN 2 * x ELSE 0)
          BY <3>1, <3>3
        <4> QED
          BY <1>3, <3>3, <4>1, <4>2
      <3> QED
        BY <3>1, <3>2, <3>3
    <2>2. sums[{}] = 0
      OBVIOUS
    <2>3. \A s \in SUBSET S : sums[s] = Def(sums)[s]
      <3> HIDE DEF sums
      <3> QED
        BY <2>1, <2>2
    <2>4. DOMAIN sums = SUBSET S /\ sums = [s \in SUBSET S |-> sums[s]]
      OBVIOUS
    <2> HIDE DEF sums
    <2> QED
      BY <2>3, <2>4
  <1>6. iter = Def(iter)
    <2> HIDE DEF Def, sums
    <2> QED
      BY <1>5
  <1> HIDE DEF iter
  <1>7. iter[{}] = 0
    BY <1>6
  <1>8. ASSUME NEW s \in SUBSET S, s # {}
        PROVE  iter[s] = Term(First(s)) + iter[s \ {First(s)}]
    BY <1>6, <1>8
  <1>9. iter[{"risk"}] = 2 * x
    <2>1. First({"risk"}) = "risk"
      BY <1>4
    <2>2. {"risk"} \ {"risk"} = {}
      OBVIOUS
    <2>3. iter[{"risk"}] = Term("risk") + iter[{}]
      BY <1>8, <2>1, <2>2
    <2> QED
      BY <1>3, <1>7, <2>3
  <1>10. iter[{"intervention"}] = y
    <2>1. First({"intervention"}) = "intervention"
      BY <1>4
    <2>2. {"intervention"} \ {"intervention"} = {}
      OBVIOUS
    <2>3. iter[{"intervention"}] = Term("intervention") + iter[{}]
      BY <1>8, <2>1, <2>2
    <2> QED
      BY <1>3, <1>7, <2>3
  <1>11. iter[S] = Term(First(S)) + iter[S \ {First(S)}]
    BY <1>8
  <1>12. CASE First(S) = "risk"
    <2>1. S \ {"risk"} = {"intervention"}
      OBVIOUS
    <2> QED
      BY <1>1, <1>2, <1>3, <1>10, <1>11, <1>12, <2>1
  <1>13. CASE First(S) = "intervention"
    <2>1. S \ {"intervention"} = {"risk"}
      OBVIOUS
    <2> QED
      BY <1>1, <1>2, <1>3, <1>9, <1>11, <1>13, <2>1
  <1> QED
    BY <1>4, <1>12, <1>13

(* A list of what f says of each position in a set, in order. *)
Picked(P, f) == [n \in DOMAIN InOrder(P) |-> f[InOrder(P)[n]]]
LEMMA PickedList ==
    ASSUME NEW s, Len(s) \in Nat, DOMAIN s = 1 .. Len(s), NEW P \in SUBSET DOMAIN s, NEW f
    PROVE  LET answer == Picked(P, f) IN
           /\ IsList(answer)
           /\ \A n \in DOMAIN answer : \E i \in P : answer[n] = f[i]
           /\ \A i \in P : \E n \in DOMAIN answer : answer[n] = f[i]
           /\ (\A i, j \in P : f[i].id = f[j].id => i = j) =>
                  \A n, k \in DOMAIN answer : answer[n].id = answer[k].id => n = k
           /\ answer = <<>> <=> P = {}
  <1> DEFINE places == InOrder(P)
             N == 1 .. Cardinality(P)
             answer == Picked(P, f)
  <1>1. /\ Cardinality(P) \in Nat /\ DOMAIN places = N
        /\ \A n \in DOMAIN places : places[n] \in P
        /\ \A i \in P : \E n \in DOMAIN places : places[n] = i
        /\ \A n, k \in DOMAIN places : places[n] = places[k] => n = k
    <2> HIDE DEF places
    <2> QED
      BY InOrderFacts DEF places
  <1> HIDE DEF places
  <1>2. answer = [n \in N |-> f[places[n]]]
    BY <1>1 DEF places, Picked
  <1> HIDE DEF answer
  <1>3. answer \in Seq({f[i] : i \in P}) /\ Len(answer) = Cardinality(P)
    BY <1>1, <1>2
  <1>4. DOMAIN answer = N
    BY <1>2
  <1>5. answer = <<>> <=> P = {}
    <2>1. answer = <<>> <=> Len(answer) = 0
      BY <1>3
    <2>2. P = {} <=> N = {}
      BY <1>1
    <2> QED
      BY <1>1, <1>3, <2>1, <2>2
  <1>6. \A n \in DOMAIN answer : answer[n] = f[places[n]] /\ places[n] \in P
    BY <1>1, <1>2
  <1>7. ASSUME NEW i \in P
        PROVE  \E n \in DOMAIN answer : answer[n] = f[i]
    <2>1. PICK n \in DOMAIN answer : places[n] = i
      BY <1>1, <1>4
    <2> QED
      BY <1>6, <2>1
  <1>8. ASSUME \A i, j \in P : f[i].id = f[j].id => i = j,
               NEW n \in DOMAIN answer, NEW k \in DOMAIN answer,
               answer[n].id = answer[k].id
        PROVE  n = k
    <2>1. answer[n] = f[places[n]] /\ answer[k] = f[places[k]]
          /\ places[n] \in P /\ places[k] \in P
      BY <1>6
    <2>2. f[places[n]].id = f[places[k]].id
      BY <1>8, <2>1
    <2>3. places[n] = places[k]
      BY <1>8, <2>1, <2>2
    <2> QED
      BY <1>1, <1>4, <2>3
  <1> HIDE DEF N
  <1> QED
    BY <1>3, <1>5, <1>6, <1>7, <1>8 DEF IsList, answer

(* What the ports after the classifier say depends on what is kept. *)
LEMMA SamePorts ==
    ASSUME evidence' = evidence, classified' = classified
    PROVE  /\ Items' = Items /\ Known' = Known /\ IsFresh' = IsFresh
           /\ SharesArtifact' = SharesArtifact
           /\ Constraints' = Constraints /\ ConstraintIds' = ConstraintIds
           /\ RiskReduction' = RiskReduction /\ Governed' = Governed
           /\ Review' = Review /\ Hold' = Hold /\ Expiries' = Expiries
  <1>1. Items' = Items
    BY DEF Items
  <1>2. Known' = Known /\ IsFresh' = IsFresh /\ Expiries' = Expiries
    BY <1>1 DEF Known, IsFresh, Expiries
  <1>3. SharesArtifact' = SharesArtifact
    BY DEF SharesArtifact
  <1>4. Constraints' = Constraints
    BY DEF Constraints
  <1>5. ConstraintIds' = ConstraintIds /\ Governed' = Governed
    BY <1>1, <1>4 DEF ConstraintIds, Governed
  <1>6. RiskReduction' = RiskReduction
    BY <1>4, <1>5 DEF RiskReduction
  <1>7. Review' = Review /\ Hold' = Hold
    BY <1>5 DEF Review, Hold
  <1> QED
    BY <1>1, <1>2, <1>3, <1>4, <1>5, <1>6, <1>7

LEMMA SamePlan ==
    ASSUME evidence' = evidence, classified' = classified, objective' = objective
    PROVE  ReviewPlan' = ReviewPlan
  <1>1. Review' = Review /\ Hold' = Hold
    BY SamePorts
  <1>2. Preferred' = Preferred
    BY <1>1 DEF Preferred
  <1> QED
    BY <1>1, <1>2 DEF ReviewPlan

LEMMA SamePackage ==
    ASSUME UNCHANGED <<evidence, policies, classified, objective, plan, checks>>, NEW e
    PROVE  Package(e)' = Package(e)
  <1>1. Known' = Known /\ Constraints' = Constraints
    BY SamePorts
  <1>2. Selected' = Selected
    BY DEF Selected
  <1> QED
    BY <1>1, <1>2 DEF Package

(* By the built-in objective a review is cheaper than a hold. *)
LEMMA ReviewPreferred ==
    ASSUME objective = RiskReduction
    PROVE  /\ Preferred = Review /\ Cost(objective, Review) <= Cost(objective, Hold)
           /\ Cost(objective, Review) <= Cost(objective, Review)
  <1>1. Cost(objective, Review) = 10
    BY CostOfTwo DEF RiskReduction, Review
  <1>2. Cost(objective, Hold) = 12
    BY CostOfTwo DEF RiskReduction, Hold
  <1> QED
    BY <1>1, <1>2 DEF Preferred

LEMMA ReviewPlanIsPlan == IsPlan(ReviewPlan)
  <1>1. ReviewPlan.candidates = {Review, Hold} /\ ReviewPlan.selected = Preferred.id
        /\ ReviewPlan.rejected = {Review, Hold} \ {Preferred}
    BY DEF ReviewPlan
  <1>2. Review.id = "request_review" /\ Hold.id = "hold"
    BY DEF Review, Hold
  <1>3. Preferred \in {Review, Hold}
    BY DEF Preferred
  <1>4. \A c, d \in {Review, Hold} : c.id = d.id => c = d
    BY <1>2
  <1>5. (CHOOSE c \in {Review, Hold} : c.id = Preferred.id) = Preferred
    BY <1>3, <1>4
  <1> QED
    BY <1>1, <1>3, <1>4, <1>5 DEF IsPlan, SelectedOf, HasDistinctIds

LEMMA ReviewSelected ==
    ASSUME objective = RiskReduction
    PROVE  SelectedOf(ReviewPlan) = Review
  <1>1. Preferred = Review
    BY ReviewPreferred
  <1>2. ReviewPlan.candidates = {Review, Hold} /\ ReviewPlan.selected = Review.id
    BY <1>1 DEF ReviewPlan
  <1>3. Review.id = "request_review" /\ Hold.id = "hold"
    BY DEF Review, Hold
  <1> QED
    BY <1>2, <1>3 DEF SelectedOf

-----------------------------------------------------------------------------
(* Each step keeps the invariant, whatever the policy and the classifier. *)

(* Only the gate moves, and only to where what is claimed is there. *)
LEMMA PortsMove ==
    ASSUME PortsInv,
           UNCHANGED <<evidence, policies, round, classified, objective, plan, checks>>,
           gate \in Deciding,
           FreshEvidence', PoliciesPassed', DenialsDecide', PackageKept', NoneGoverned',
           gate' \in PastConstraints \union {"packaged", "no_candidate"} => round = 1,
           gate' \in PastConstraints \union {"packaged"} => classified # <<>>,
           gate' \in PastObjective \union {"packaged"} => gate \in PastObjective,
           gate' \in PastPlan \union {"packaged"} => gate \in PastPlan,
           gate' # "raised"
    PROVE  PortsInv'
  <1>1. /\ RiskReduction' = RiskReduction /\ Governed' = Governed
        /\ SharesArtifact' = SharesArtifact /\ ReviewPlan' = ReviewPlan
    BY SamePorts, SamePlan
  <1>2. ClassifiedOnce' /\ ConcernsFound' /\ ConstraintsTellApart'
    BY <1>1 DEF PortsInv, ClassifiedOnce, ConcernsFound, ConstraintsTellApart
  <1>3. ObjectiveKept' /\ PlanKept' /\ ChecksSurvive'
    BY <1>1 DEF PortsInv, ObjectiveKept, PlanKept, ChecksSurvive
  <1> QED
    BY <1>2, <1>3 DEF PortsInv, RaisesOnlyOnSharedArtifact

LEMMA PolicyPort ==
    ASSUME GatesInv, PortsInv, NEW answer, Cites(answer), EvaluatePolicy(answer)
    PROVE  PortsInv'
  <1>1. /\ gate = "policy" /\ gate' = "policy" /\ policies' = Append(policies, answer)
        /\ Len(policies) < Policies
        /\ UNCHANGED <<evidence, round, classified, objective, plan, checks, package>>
    BY DEF EvaluatePolicy, PassOrRaise
  <1>2. Len(policies) \in Nat /\ Len(policies') = Len(policies) + 1
    BY <1>1, AppendList DEF GatesInv, AnswersListed
  <1>3. /\ IsFresh' = IsFresh /\ SharesArtifact' = SharesArtifact
    BY <1>1, SamePorts
  <1>4. FreshEvidence'
    BY <1>1, <1>3 DEF PortsInv, FreshEvidence, Admitted, Deciding
  <1>5. PoliciesPassed'
    BY <1>1, <1>2, SizesAssumption DEF PoliciesPassed, PastPolicies
  <1>6. ClassifiedOnce' /\ ConcernsFound' /\ ConstraintsTellApart'
    BY <1>1, <1>3 DEF PortsInv, ClassifiedOnce, ConcernsFound, ConstraintsTellApart,
           PastConstraints
  <1> QED
    BY <1>1, <1>4, <1>5, <1>6
       DEF PortsInv, DenialsDecide, ObjectiveKept, PlanKept, ChecksSurvive, PackageKept,
           NoneGoverned, RaisesOnlyOnSharedArtifact, PastObjective, PastPlan

LEMMA PoliciesDonePort ==
    ASSUME GatesInv, PortsInv, PoliciesDone
    PROVE  PortsInv'
  <1>1. /\ gate = "policy" /\ Len(policies) = Policies
        /\ UNCHANGED <<evidence, policies, round, classified, objective, plan, checks,
                       package>>
    BY DEF PoliciesDone
  <1>2. \A i, j \in DOMAIN policies : i = j
    <2>1. DOMAIN policies = 1 .. Policies
      BY <1>1, ListFacts DEF GatesInv, AnswersListed
    <2> QED
      BY <2>1, PortsAssumption
  <1>3. \/ gate' = "rejected" /\ \E i \in DOMAIN policies : ~policies[i].allowed
        \/ gate' = "classify" /\ \A i \in DOMAIN policies : policies[i].allowed
    BY <1>2 DEF PoliciesDone, PassOrRaise
  <1>4. IsFresh' = IsFresh
    BY <1>1, SamePorts
  <1>5. FreshEvidence' /\ DenialsDecide' /\ PoliciesPassed'
    BY <1>1, <1>3, <1>4 DEF PortsInv, FreshEvidence, Admitted, Deciding, DenialsDecide,
           PoliciesPassed, PastPolicies
  <1>6. PackageKept' /\ NoneGoverned'
    BY <1>3 DEF PackageKept, NoneGoverned
  <1> QED
    BY <1>1, <1>3, <1>5, <1>6, PortsMove
       DEF Deciding, PastConstraints, PastObjective, PastPlan

LEMMA ClassifierPort ==
    ASSUME GatesInv, PortsInv, NEW answer, IsList(answer), Classify(answer),
           \A i \in DOMAIN answer : Cites(answer[i]),
           ~SharesArtifact =>
               \A i, j \in DOMAIN answer : answer[i].id = answer[j].id => i = j
    PROVE  PortsInv' /\ round = 0 /\ round' = 1 /\ classified' = answer
  <1>1. /\ gate = "classify" /\ gate' = "classify" /\ round' = round + 1 /\ round < 1
        /\ classified' = classified \o answer
        /\ UNCHANGED <<evidence, policies, objective, plan, checks, package>>
    BY PortsAssumption DEF Classify, PassOrRaise
  <1>2. round = 0 /\ classified = <<>>
    BY <1>1 DEF PortsInv, ClassifiedOnce
  <1>3. classified' = answer
    <2>1. PICK S : answer \in Seq(S)
      BY DEF IsList
    <2> QED
      BY <1>1, <1>2, <2>1
  <1>4. /\ IsFresh' = IsFresh /\ SharesArtifact' = SharesArtifact
    BY <1>1 DEF IsFresh, Items, SharesArtifact
  <1>5. FreshEvidence' /\ PoliciesPassed' /\ ChecksSurvive'
    BY <1>1, <1>4 DEF PortsInv, FreshEvidence, Admitted, Deciding, PoliciesPassed,
           PastPolicies, ChecksSurvive
  <1>6. ClassifiedOnce' /\ ConstraintsTellApart' /\ ConcernsFound'
    BY <1>1, <1>2, <1>3, <1>4
       DEF ClassifiedOnce, ConstraintsTellApart, ConcernsFound, PastConstraints
  <1> QED
    BY <1>1, <1>2, <1>3, <1>5, <1>6
       DEF PortsInv, DenialsDecide, ObjectiveKept, PlanKept, PackageKept,
           NoneGoverned, RaisesOnlyOnSharedArtifact, PastObjective, PastPlan

LEMMA ClassifiersDonePort ==
    ASSUME GatesInv, PortsInv, ClassifiersDone
    PROVE  PortsInv'
  <1>1. /\ gate = "classify" /\ round = 1
        /\ UNCHANGED <<evidence, policies, round, classified, objective, plan, checks,
                       package>>
        /\ gate' \in {"no_candidate", "objective", "raised"}
        /\ gate' = "no_candidate" => classified = <<>>
        /\ gate' = "objective" => classified # <<>>
    BY PortsAssumption DEF ClassifiersDone, PassOrRaise
  <1>2. IsFresh' = IsFresh /\ SharesArtifact' = SharesArtifact
    BY <1>1, SamePorts
  <1>3. FreshEvidence' /\ PoliciesPassed' /\ DenialsDecide' /\ PackageKept' /\ NoneGoverned'
    BY <1>1, <1>2 DEF PortsInv, FreshEvidence, Admitted, Deciding, PoliciesPassed,
           PastPolicies, DenialsDecide, PackageKept, NoneGoverned
  <1>4. CASE gate' = "raised"
    <2>1. SharesArtifact
      BY <1>4 DEF ClassifiersDone, PassOrRaise, PortsInv, ConstraintsTellApart
    <2>2. ConstraintsTellApart' /\ ClassifiedOnce' /\ ChecksSurvive'
      BY <1>1, <1>2, <1>4 DEF PortsInv, ConstraintsTellApart, ClassifiedOnce,
             ChecksSurvive, PastConstraints
    <2> QED
      BY <1>2, <1>3, <1>4, <2>1, <2>2
         DEF PortsInv, ConcernsFound, ObjectiveKept, PlanKept, RaisesOnlyOnSharedArtifact,
             PastConstraints, PastObjective, PastPlan
  <1>5. CASE gate' # "raised"
    BY <1>1, <1>3, <1>5, PortsMove DEF Deciding, PastConstraints, PastObjective, PastPlan
  <1> QED
    BY <1>4, <1>5

LEMMA ObjectivePort ==
    ASSUME GatesInv, PortsInv, StandaloneObjective
    PROVE  PortsInv'
  <1>1. /\ gate = "objective" /\ objective' = RiskReduction
        /\ UNCHANGED <<evidence, policies, round, classified, plan, checks, package>>
    BY DEF StandaloneObjective, InterpretObjective
  <1>2. Cites(RiskReduction) /\ RiskReduction.constraints = ConstraintIds
    <2>1. \A k \in Constraints : k.refs \subseteq Known
      BY <1>1 DEF GatesInv, ConstraintsCite, Constraints, Cites
    <2>2. RiskReduction.refs = UNION {k.refs : k \in Constraints}
          /\ RiskReduction.constraints = ConstraintIds
      BY DEF RiskReduction
    <2> QED
      BY <2>1, <2>2 DEF Cites
  <1>3. gate' = "plan"
    BY <1>2 DEF StandaloneObjective, InterpretObjective, PassOrRaise
  <1>4. /\ IsFresh' = IsFresh /\ SharesArtifact' = SharesArtifact
        /\ RiskReduction' = RiskReduction
    BY <1>1, SamePorts
  <1>5. FreshEvidence' /\ PoliciesPassed' /\ DenialsDecide' /\ PackageKept' /\ NoneGoverned'
    BY <1>1, <1>3, <1>4 DEF PortsInv, FreshEvidence, Admitted, Deciding, PoliciesPassed,
           PastPolicies, DenialsDecide, PackageKept, NoneGoverned
  <1>6. ClassifiedOnce' /\ ConcernsFound' /\ ConstraintsTellApart'
    BY <1>1, <1>3, <1>4 DEF PortsInv, ClassifiedOnce, ConcernsFound, ConstraintsTellApart,
           PastConstraints
  <1>7. ObjectiveKept' /\ PlanKept' /\ ChecksSurvive'
    BY <1>1, <1>3, <1>4 DEF PortsInv, ObjectiveKept, PlanKept, ChecksSurvive,
           PastPlan
  <1> QED
    BY <1>3, <1>5, <1>6, <1>7 DEF PortsInv, RaisesOnlyOnSharedArtifact

(* The kernel accepts the plan of the built-in planner. *)
LEMMA ReviewPlanPasses ==
    ASSUME objective = RiskReduction
    PROVE  /\ \A c \in ReviewPlan.candidates : IsAdmissible(c) /\ IsPriced(objective, c)
           /\ IsCheapest(objective, SelectedOf(ReviewPlan), ReviewPlan.candidates)
           /\ CoversHard(Constraints, SelectedOf(ReviewPlan))
           /\ RequiredChecks[SelectedOf(ReviewPlan).action] = <<"evidence-freshness">>
  <1>1. SelectedOf(ReviewPlan) = Review /\ ReviewPlan.candidates = {Review, Hold}
    BY ReviewSelected DEF ReviewPlan
  <1>2. Cost(objective, Review) <= Cost(objective, Hold)
        /\ Cost(objective, Review) <= Cost(objective, Review)
    BY ReviewPreferred
  <1>3. /\ Review.action = "request_review" /\ Review.consequence = "medium"
        /\ Review.parameters = "queue" /\ DOMAIN Review.values = {"risk", "intervention"}
        /\ Review.constraints = ConstraintIds /\ Review.refs = Artifacts(Governed)
    BY DEF Review
  <1>4. /\ Hold.action = "hold" /\ Hold.consequence = "high"
        /\ Hold.parameters = "subject_ids" /\ DOMAIN Hold.values = {"risk", "intervention"}
        /\ Hold.constraints = ConstraintIds /\ Hold.refs = Artifacts(Governed)
    BY DEF Hold
  <1>5. DOMAIN objective.weights = {"risk", "intervention"}
    BY DEF RiskReduction
  <1>6. Artifacts(Governed) \subseteq Known
    BY DEF Artifacts, Governed, Known
  <1>7. Validates(Review) /\ Validates(Hold)
    <2>1. Actions = {"request_review", "hold"}
      BY StandaloneAssumption DEF StandaloneActions
    <2>2. /\ AllowedConsequences["request_review"] = {"low", "medium"}
          /\ AllowedConsequences["hold"] = {"high", "critical"}
      BY StandaloneAssumption DEF StandaloneConsequences
    <2>3. /\ Schemas["request_review"] = {"queue"} /\ Schemas["hold"] = {"subject_ids"}
      BY StandaloneAssumption DEF StandaloneSchemas
    <2> QED
      BY <1>3, <1>4, <2>1, <2>2, <2>3 DEF Validates
  <1>8. RequiredChecks["request_review"] = <<"evidence-freshness">>
    BY StandaloneAssumption DEF StandaloneChecks, StandaloneActions
  <1>9. HardIds(Constraints) \subseteq ConstraintIds
    BY DEF HardIds, ConstraintIds
  <1> QED
    BY <1>1, <1>2, <1>3, <1>4, <1>5, <1>6, <1>7, <1>8, <1>9
       DEF IsAdmissible, Cites, IsPriced, IsCheapest, CoversHard

LEMMA PlanPort ==
    ASSUME GatesInv, PortsInv, StandalonePlan
    PROVE  PortsInv'
  <1>1. /\ gate = "plan"
        /\ UNCHANGED <<evidence, policies, round, classified, objective, checks, package>>
    BY DEF StandalonePlan, PlannerDeclines, ProposePlan
  <1>2. /\ IsFresh' = IsFresh /\ SharesArtifact' = SharesArtifact /\ Governed' = Governed
        /\ RiskReduction' = RiskReduction /\ ReviewPlan' = ReviewPlan
    BY <1>1, SamePorts, SamePlan
  <1>3. objective = RiskReduction /\ round = 1 /\ classified # <<>>
    BY <1>1 DEF PortsInv, ObjectiveKept, PastObjective, ClassifiedOnce, ConcernsFound,
       PastConstraints
  <1>4. \/ gate' = "no_candidate" /\ Governed = {} /\ plan' = plan
        \/ gate' = "check" /\ Governed # {} /\ plan' = ReviewPlan
    <2>1. CASE Governed = {} /\ PlannerDeclines
      BY <2>1 DEF PlannerDeclines
    <2>2. CASE Governed # {} /\ ProposePlan(ReviewPlan)
      <3> DEFINE needed == RequiredChecks[SelectedOf(ReviewPlan).action]
      <3>1. needed = <<"evidence-freshness">>
        BY <1>3, ReviewPlanPasses
      <3>2. \A i \in DOMAIN needed : needed[i] \in ConfiguredChecks
        BY <3>1, StandaloneAssumption
      <3> HIDE DEF needed
      <3> QED
        BY <1>3, <2>2, <3>2, ReviewPlanPasses DEF ProposePlan, PassOrRaise, needed
    <2> QED
      BY <2>1, <2>2 DEF StandalonePlan
  <1>5. FreshEvidence' /\ PoliciesPassed' /\ DenialsDecide' /\ PackageKept' /\ NoneGoverned'
    BY <1>1, <1>2, <1>4 DEF PortsInv, FreshEvidence, Admitted, Deciding, PoliciesPassed,
           PastPolicies, DenialsDecide, PackageKept, NoneGoverned
  <1>6. ClassifiedOnce' /\ ConcernsFound' /\ ConstraintsTellApart'
    BY <1>1, <1>2, <1>3, <1>4 DEF PortsInv, ClassifiedOnce, ConcernsFound,
           ConstraintsTellApart
  <1>7. ObjectiveKept' /\ PlanKept' /\ ChecksSurvive'
    BY <1>1, <1>2, <1>3, <1>4 DEF PortsInv, ObjectiveKept, PlanKept, ChecksSurvive,
           PastPlan
  <1> QED
    BY <1>4, <1>5, <1>6, <1>7 DEF PortsInv, RaisesOnlyOnSharedArtifact

LEMMA CheckPort ==
    ASSUME GatesInv, PortsInv, StandaloneCheck
    PROVE  PortsInv'
  <1>1. /\ gate = "check" /\ Len(checks) < Len(Required)
        /\ UNCHANGED <<evidence, policies, round, classified, objective, plan, package>>
    BY DEF StandaloneCheck, Challenge
  <1>2. /\ IsFresh' = IsFresh /\ SharesArtifact' = SharesArtifact /\ Governed' = Governed
        /\ RiskReduction' = RiskReduction /\ ReviewPlan' = ReviewPlan
    BY <1>1, SamePorts, SamePlan
  <1>3. Required = <<"evidence-freshness">>
    BY <1>1, ReviewPlanPasses DEF PortsInv, ObjectiveKept, PlanKept, PastObjective, PastPlan,
       Required, Selected
  <1>4. EvidenceFreshness.survives
    BY <1>1 DEF PortsInv, FreshEvidence, IsFresh, Admitted, Deciding, EvidenceFreshness
  <1>5. IsList(checks) /\ Len(checks) = 0
    BY <1>1, <1>3, ListFacts DEF GatesInv, AnswersListed
  <1>6. gate' = "check" /\ checks' = Append(checks, EvidenceFreshness)
    BY <1>1, <1>3, <1>5 DEF StandaloneCheck, Challenge, PassOrRaise, EvidenceFreshness, Cites
  <1>7. ChecksSurvive'
    <2>1. DOMAIN checks' = 1 .. 1 /\ checks'[1] = EvidenceFreshness
      BY <1>5, <1>6, AppendList
    <2> QED
      BY <1>4, <2>1 DEF ChecksSurvive
  <1>8. FreshEvidence' /\ PoliciesPassed' /\ DenialsDecide' /\ PackageKept' /\ NoneGoverned'
    BY <1>1, <1>2, <1>6 DEF PortsInv, FreshEvidence, Admitted, Deciding, PoliciesPassed,
           PastPolicies, DenialsDecide, PackageKept, NoneGoverned
  <1>9. ClassifiedOnce' /\ ConcernsFound' /\ ConstraintsTellApart'
    BY <1>1, <1>2, <1>6 DEF PortsInv, ClassifiedOnce, ConcernsFound,
           ConstraintsTellApart
  <1>10. ObjectiveKept' /\ PlanKept'
    BY <1>1, <1>2, <1>6 DEF PortsInv, ObjectiveKept, PlanKept
  <1> QED
    BY <1>6, <1>7, <1>8, <1>9, <1>10 DEF PortsInv, RaisesOnlyOnSharedArtifact

LEMMA ChecksDonePort ==
    ASSUME GatesInv, PortsInv, ChecksDone
    PROVE  PortsInv'
  <1>1. /\ gate = "check" /\ gate' = "package"
        /\ UNCHANGED <<evidence, policies, round, classified, objective, plan, checks,
                       package>>
    BY DEF ChecksDone, PortsInv, ChecksSurvive
  <1>2. IsFresh' = IsFresh
    BY <1>1, SamePorts
  <1>3. FreshEvidence' /\ PoliciesPassed' /\ DenialsDecide' /\ PackageKept' /\ NoneGoverned'
    BY <1>1, <1>2 DEF PortsInv, FreshEvidence, Admitted, Deciding, PoliciesPassed,
           PastPolicies, DenialsDecide, PackageKept, NoneGoverned
  <1>4. round = 1 /\ classified # <<>>
    BY <1>1 DEF PortsInv, ClassifiedOnce, ConcernsFound, PastConstraints
  <1> QED
    BY <1>1, <1>3, <1>4, PortsMove DEF Deciding, PastConstraints, PastObjective, PastPlan

LEMMA PackagePort ==
    ASSUME GatesInv, PortsInv, gate = "package" => IsEvidence(evidence), BuildPackage
    PROVE  PortsInv'
  <1>1. /\ gate = "package"
        /\ UNCHANGED <<evidence, policies, round, classified, objective, plan, checks>>
    BY DEF BuildPackage
  <1>2. PICK e \in Expiries : /\ \A f \in Expiries : e <= f
                              /\ package' = Package(e)
                              /\ PassOrRaise(IsCoherent(Package(e)), "packaged")
    BY DEF BuildPackage
  <1>3. gate' = "packaged"
    BY <1>1, <1>2, Coherence DEF GatesImplyCoherence, PassOrRaise
  <1>4. IsFresh' = IsFresh /\ Expiries' = Expiries
    BY <1>1, SamePorts
  <1>5. PackageKept'
    <2>1. Package(e)' = Package(e)
      BY <1>1, SamePackage
    <2> QED
      BY <1>2, <1>4, <2>1 DEF PackageKept
  <1>6. FreshEvidence' /\ PoliciesPassed' /\ DenialsDecide' /\ NoneGoverned'
    BY <1>1, <1>3, <1>4 DEF PortsInv, FreshEvidence, Admitted, Deciding, PoliciesPassed,
           PastPolicies, DenialsDecide, NoneGoverned
  <1>7. round = 1 /\ classified # <<>>
    BY <1>1 DEF PortsInv, ClassifiedOnce, ConcernsFound, PastConstraints
  <1> QED
    BY <1>1, <1>3, <1>5, <1>6, <1>7, PortsMove
       DEF Deciding, PastConstraints, PastObjective, PastPlan

LEMMA CitationPort ==
    ASSUME GatesInv, PortsInv, CitationRepeats
    PROVE  PortsInv'
  <1>1. /\ SharesArtifact /\ gate \in Deciding /\ gate' = "raised"
        /\ UNCHANGED <<evidence, policies, round, classified, objective, plan, checks,
                       package>>
    BY DEF CitationRepeats, PortRaises, Deciding
  <1>2. IsFresh' = IsFresh /\ SharesArtifact' = SharesArtifact
    BY <1>1, SamePorts
  <1>3. FreshEvidence' /\ PoliciesPassed' /\ ClassifiedOnce' /\ ConstraintsTellApart'
        /\ ChecksSurvive'
    BY <1>1, <1>2 DEF PortsInv, FreshEvidence, Admitted, PoliciesPassed, PastPolicies,
       ClassifiedOnce, ConstraintsTellApart, ChecksSurvive, PastConstraints
  <1> QED
    BY <1>1, <1>2, <1>3
       DEF PortsInv, DenialsDecide, ConcernsFound, ObjectiveKept, PlanKept, PackageKept,
           NoneGoverned, RaisesOnlyOnSharedArtifact, PastConstraints, PastObjective,
           PastPlan

LEMMA PortsStutter ==
    ASSUME PortsInv, UNCHANGED vars
    PROVE  PortsInv'
  <1>1. UNCHANGED <<gate, evidence, policies, round, classified, objective, plan, checks,
                    package>>
    BY DEF vars
  <1>2. /\ IsFresh' = IsFresh /\ SharesArtifact' = SharesArtifact /\ Governed' = Governed
        /\ RiskReduction' = RiskReduction /\ ReviewPlan' = ReviewPlan
        /\ Expiries' = Expiries
    BY <1>1, SamePorts, SamePlan
  <1>3. FreshEvidence' /\ PoliciesPassed' /\ DenialsDecide' /\ NoneGoverned'
    BY <1>1, <1>2 DEF PortsInv, FreshEvidence, PoliciesPassed, DenialsDecide, NoneGoverned
  <1>4. PackageKept'
    <2>1. \A e : Package(e)' = Package(e)
      BY <1>1, SamePackage
    <2> QED
      BY <1>1, <1>2, <2>1 DEF PortsInv, PackageKept
  <1>5. ClassifiedOnce' /\ ConcernsFound' /\ ConstraintsTellApart'
    BY <1>1, <1>2 DEF PortsInv, ClassifiedOnce, ConcernsFound, ConstraintsTellApart
  <1>6. ObjectiveKept' /\ PlanKept' /\ ChecksSurvive'
    BY <1>1, <1>2 DEF PortsInv, ObjectiveKept, PlanKept, ChecksSurvive
  <1> QED
    BY <1>1, <1>2, <1>3, <1>4, <1>5, <1>6 DEF PortsInv, RaisesOnlyOnSharedArtifact

(* Policies that all answered alike still do after one more of them.        *)
LEMMA OneMorePolicy ==
    ASSUME GatesInv, NEW answer, \A i \in DOMAIN policies : policies[i] = answer,
           EvaluatePolicy(answer)
    PROVE  /\ \A i \in DOMAIN policies' : policies'[i] = answer
           /\ UNCHANGED <<evidence, round, classified>>
  <1>1. /\ policies' = Append(policies, answer) \/ policies' = policies
        /\ UNCHANGED <<evidence, round, classified>>
    BY DEF EvaluatePolicy
  <1>2. /\ Len(policies) \in Nat /\ DOMAIN policies = 1 .. Len(policies)
        /\ DOMAIN Append(policies, answer) = 1 .. Len(policies) + 1
        /\ \A i \in DOMAIN policies : Append(policies, answer)[i] = policies[i]
        /\ Append(policies, answer)[Len(policies) + 1] = answer
    BY AppendList DEF GatesInv, AnswersListed
  <1>3. \A i \in DOMAIN Append(policies, answer) : Append(policies, answer)[i] = answer
    BY <1>2
  <1> QED
    BY <1>1, <1>3

(* Until a host has its evidence admitted, no port has answered.            *)
Unasked == policies = <<>> /\ round = 0 /\ classified = <<>> /\ checks = <<>>
Preparing == {"receive", "verify", "run", "refused"}

LEMMA BeforeCycle ==
    ASSUME Unasked, gate \in Preparing \union {"rejected", "policy"},
           gate = "policy" => IsFresh
    PROVE  GatesInv /\ PortsInv
  <1>1. GatesInv
    BY EmptyList
       DEF Unasked, Preparing, GatesInv, AnswersListed, PoliciesCite, PoliciesAgree,
           ConstraintsCite, ConstraintsDiffer, ObjectiveCovers, PlanPassed, ChecksInOrder,
           ChecksSurvived, PastPolicies, PastConstraints, PastObjective, PastPlan
  <1>2. 0 <= Policies
    BY SizesAssumption
  <1>3. PortsInv
    BY <1>2, EmptyList
       DEF Unasked, Preparing, PortsInv, FreshEvidence, PoliciesPassed, DenialsDecide,
           ClassifiedOnce, ConcernsFound, ConstraintsTellApart, ObjectiveKept, PlanKept,
           ChecksSurvive, PackageKept, NoneGoverned, RaisesOnlyOnSharedArtifact,
           Admitted, Deciding, PastPolicies, PastConstraints, PastObjective, PastPlan
  <1> QED
    BY <1>1, <1>3

LEMMA BeforeCycleNext ==
    ASSUME Unasked', gate' \in Preparing \union {"rejected", "policy"},
           gate' = "policy" => IsFresh'
    PROVE  GatesInv' /\ PortsInv'
  <1>1. GatesInv'
    BY EmptyList
       DEF Unasked, Preparing, GatesInv, AnswersListed, PoliciesCite, PoliciesAgree,
           ConstraintsCite, ConstraintsDiffer, ObjectiveCovers, PlanPassed, ChecksInOrder,
           ChecksSurvived, PastPolicies, PastConstraints, PastObjective, PastPlan
  <1>2. 0 <= Policies
    BY SizesAssumption
  <1>3. PortsInv'
    BY <1>2, EmptyList
       DEF Unasked, Preparing, PortsInv, FreshEvidence, PoliciesPassed, DenialsDecide,
           ClassifiedOnce, ConcernsFound, ConstraintsTellApart, ObjectiveKept, PlanKept,
           ChecksSurvive, PackageKept, NoneGoverned, RaisesOnlyOnSharedArtifact,
           Admitted, Deciding, PastPolicies, PastConstraints, PastObjective, PastPlan
  <1> QED
    BY <1>1, <1>3

(* The steps that the built-in ports and the gates take in every cycle. *)
SharedNext ==
    StandaloneObjective \/ StandalonePlan \/ StandaloneCheck \/ CitationRepeats \/ Gates

LEMMA SharedSteps ==
    ASSUME GatesInv, PortsInv, gate = "package" => IsEvidence(evidence), SharedNext
    PROVE  GatesInv' /\ PortsInv' /\ UNCHANGED <<evidence, policies, round, classified>>
  <1>1. CASE StandaloneObjective
    BY <1>1, ObjectivePort, InterpretObjectiveStep DEF StandaloneObjective, InterpretObjective
  <1>2. CASE StandalonePlan
    BY <1>2, PlanPort, ProposePlanStep, OtherSteps, ReviewPlanIsPlan
       DEF StandalonePlan, PlannerDeclines, ProposePlan
  <1>3. CASE StandaloneCheck
    BY <1>3, CheckPort, ChallengeStep DEF StandaloneCheck, Challenge
  <1>4. CASE CitationRepeats
    BY <1>4, CitationPort, OtherSteps DEF CitationRepeats, PortRaises
  <1>5. CASE PoliciesDone
    BY <1>5, PoliciesDonePort, PoliciesDoneStep DEF PoliciesDone
  <1>6. CASE ClassifiersDone
    BY <1>6, ClassifiersDonePort, ClassifiersDoneStep DEF ClassifiersDone
  <1>7. CASE ChecksDone
    BY <1>7, ChecksDonePort, ChecksDoneStep DEF ChecksDone
  <1>8. CASE BuildPackage
    BY <1>8, PackagePort, BuildPackageStep DEF BuildPackage
  <1>9. CASE Over
    BY <1>9, PortsStutter, Stuttering DEF Over, vars
  <1> QED
    BY <1>1, <1>2, <1>3, <1>4, <1>5, <1>6, <1>7, <1>8, <1>9 DEF SharedNext, Gates

(* The steps of the kernel stay in the kernel. *)
LEMMA KernelSteps ==
    ASSUME \/ SharedNext
           \/ \E answer : EvaluatePolicy(answer) \/ Classify(answer)
    PROVE  gate \notin Preparing /\ gate' \notin Preparing
  <1>1. CASE SharedNext
    BY <1>1 DEF SharedNext, StandaloneObjective, StandalonePlan, StandaloneCheck,
       CitationRepeats, Gates, InterpretObjective, PlannerDeclines, ProposePlan, Challenge,
       PortRaises, PoliciesDone, ClassifiersDone, ChecksDone, BuildPackage, Over, vars,
       PassOrRaise, Preparing
  <1>2. ASSUME NEW answer, EvaluatePolicy(answer) \/ Classify(answer)
        PROVE  gate \notin Preparing /\ gate' \notin Preparing
    BY <1>2 DEF EvaluatePolicy, Classify, PassOrRaise, Preparing
  <1> QED
    BY <1>1, <1>2

(* A cycle that is over stays as it is. *)
LEMMA DecidingSteps == SharedNext => gate \in Deciding \/ UNCHANGED vars
  BY DEF SharedNext, StandaloneObjective, StandalonePlan, StandaloneCheck, CitationRepeats,
     Gates, InterpretObjective, PlannerDeclines, ProposePlan, Challenge, PortRaises,
     PoliciesDone, ClassifiersDone, ChecksDone, BuildPackage, Over, Deciding

(* Past the evidence gates only a denial rejects a cycle: what survives one *)
(* freshness check at the instant of admission survives the other.          *)
LEMMA RejectingSteps ==
    ASSUME PortsInv, SharedNext, gate' = "rejected", gate # "rejected"
    PROVE  policies' # <<>>
  <1>1. PoliciesDone \/ ChecksDone
    BY DEF SharedNext, StandaloneObjective, StandalonePlan, StandaloneCheck, CitationRepeats,
       Gates, InterpretObjective, PlannerDeclines, ProposePlan, Challenge, PortRaises,
       ClassifiersDone, BuildPackage, Over, vars, PassOrRaise
  <1>2. CASE PoliciesDone
    <2>1. (\E i \in DOMAIN policies : ~policies[i].allowed) /\ policies' = policies
      BY <1>2 DEF PoliciesDone, PassOrRaise
    <2> QED
      BY <2>1
  <1>3. CASE ChecksDone
    BY <1>3 DEF ChecksDone, PortsInv, ChecksSurvive
  <1> QED
    BY <1>1, <1>2, <1>3

(* What the one package of a packaged cycle holds. *)
LEMMA PackagedReview ==
    ASSUME PortsInv, gate = "packaged"
    PROVE  /\ (CHOOSE c \in package.candidates : c.id = package.selected) = Review
           /\ package.constraints = Constraints /\ classified # <<>>
           /\ Review.action = "request_review" /\ Review.constraints = ConstraintIds
           /\ Review.refs = Artifacts(Governed)
  <1>1. objective = RiskReduction /\ plan = ReviewPlan /\ classified # <<>>
    BY DEF PortsInv, ObjectiveKept, PlanKept, ConcernsFound
  <1>2. Selected = Review
    BY <1>1, ReviewSelected DEF Selected
  <1>3. package.candidates = {Review, Hold} /\ package.selected = Review.id
        /\ package.constraints = Constraints
    BY <1>1, <1>2 DEF PortsInv, PackageKept, Package, ReviewPlan
  <1>4. Review.id = "request_review" /\ Hold.id = "hold"
    BY DEF Review, Hold
  <1> QED
    BY <1>1, <1>3, <1>4 DEF Review

(* Every constraint of a package is covered by the review it selects. *)
LEMMA ReviewCovers ==
    ASSUME NEW k \in Constraints
    PROVE  k.id \in Review.constraints
  BY DEF Review, ConstraintIds

-----------------------------------------------------------------------------
(* The cycle with the built-in policy and classifier. *)

StandaloneKept ==
    /\ evidence \in Cycles
    /\ \A i \in DOMAIN policies : policies[i] = MinimumConfidence
    /\ round = 1 => classified = FailedMeasurements
    /\ gate = "rejected" => policies # <<>>

StandaloneInv == GatesInv /\ PortsInv /\ StandaloneKept

(* The classifier makes one constraint of every concern. *)
LEMMA FailedMeasurementsFacts ==
    ASSUME evidence \in Cycles
    PROVE  LET answer == FailedMeasurements IN
           /\ IsList(answer)
           /\ \A n \in DOMAIN answer : \E i \in DOMAIN evidence :
                  IsConcerning(evidence[i]) /\ answer[n] = ReviewConstraint(evidence[i])
           /\ \A i \in DOMAIN evidence : IsConcerning(evidence[i]) =>
                  \E n \in DOMAIN answer : answer[n] = ReviewConstraint(evidence[i])
           /\ \A n \in DOMAIN answer : Cites(answer[n])
           /\ ~SharesArtifact =>
                  \A n, k \in DOMAIN answer : answer[n].id = answer[k].id => n = k
           /\ answer = <<>> <=> \A i \in DOMAIN evidence : ~IsConcerning(evidence[i])
  <1> DEFINE P == {i \in DOMAIN evidence : IsConcerning(evidence[i])}
             f == [i \in DOMAIN evidence |-> ReviewConstraint(evidence[i])]
             answer == FailedMeasurements
             places == InOrder(P)
  <1>1. Len(evidence) \in Nat /\ DOMAIN evidence = 1 .. Len(evidence)
    BY AdmittedAssumption
  <1>2. P \in SUBSET DOMAIN evidence
    OBVIOUS
  <1>3. \A n \in DOMAIN places : places[n] \in P
    BY <1>1, <1>2, InOrderFacts
  <1>4. answer = Picked(P, f)
    <2>1. answer = [n \in DOMAIN places |-> ReviewConstraint(evidence[places[n]])]
      BY DEF FailedMeasurements
    <2>2. \A n \in DOMAIN places : f[places[n]] = ReviewConstraint(evidence[places[n]])
      BY <1>3
    <2> HIDE DEF f, answer
    <2> QED
      BY <2>1, <2>2 DEF Picked
  <1> HIDE DEF answer, P, f
  <1>5. /\ IsList(answer)
        /\ \A n \in DOMAIN answer : \E i \in P : answer[n] = f[i]
        /\ \A i \in P : \E n \in DOMAIN answer : answer[n] = f[i]
        /\ (\A i, j \in P : f[i].id = f[j].id => i = j) =>
               \A n, k \in DOMAIN answer : answer[n].id = answer[k].id => n = k
        /\ answer = <<>> <=> P = {}
    <2> DEFINE picked == Picked(P, f)
    <2>1. /\ IsList(picked)
          /\ \A n \in DOMAIN picked : \E i \in P : picked[n] = f[i]
          /\ \A i \in P : \E n \in DOMAIN picked : picked[n] = f[i]
          /\ (\A i, j \in P : f[i].id = f[j].id => i = j) =>
                 \A n, k \in DOMAIN picked : picked[n].id = picked[k].id => n = k
          /\ picked = <<>> <=> P = {}
      BY <1>1, <1>2, PickedList, Zenon
    <2> QED
      BY <1>4, <2>1
  <1>6. \A i \in P : i \in DOMAIN evidence /\ f[i] = ReviewConstraint(evidence[i])
    BY DEF P, f
  <1>7. \A n \in DOMAIN answer : Cites(answer[n])
    <2>1. \A i \in DOMAIN evidence : Cites(ReviewConstraint(evidence[i]))
      BY DEF Cites, ReviewConstraint, Known, Items
    <2> QED
      BY <1>5, <1>6, <2>1
  <1>8. ASSUME ~SharesArtifact, NEW i \in P, NEW j \in P, f[i].id = f[j].id
        PROVE  i = j
    <2>1. \A item : ReviewConstraint(item).id[2] = item.artifact
      BY DEF ReviewConstraint
    <2>2. /\ f[i].id[2] = evidence[i].artifact /\ f[j].id[2] = evidence[j].artifact
      BY <1>6, <2>1
    <2> QED
      BY <1>6, <1>8, <2>2 DEF SharesArtifact
  <1>9. \A i \in DOMAIN evidence : i \in P <=> IsConcerning(evidence[i])
    BY DEF P
  <1>10. P = {} <=> \A i \in DOMAIN evidence : ~IsConcerning(evidence[i])
    BY DEF P
  <1> QED
    BY <1>5, <1>6, <1>7, <1>8, <1>9, <1>10 DEF answer

LEMMA StandaloneInit == Init => StandaloneInv
  <1> SUFFICES ASSUME Init
               PROVE  PortsInv /\ StandaloneKept
    BY GatesInit DEF StandaloneInv
  <1>1. IsFresh
    BY CyclesAssumption, AdmittedAssumption DEF Init, IsFresh, Items, IsEvidence
  <1>2. PortsInv
    BY <1>1, BeforeCycle DEF Init, Unasked
  <1> QED
    BY <1>2, EmptyList DEF Init, StandaloneKept

LEMMA StandaloneStep == StandaloneInv /\ [StandaloneNext]_vars => StandaloneInv'
  <1> SUFFICES ASSUME StandaloneInv, [StandaloneNext]_vars
               PROVE  StandaloneInv'
    OBVIOUS
  <1>1. GatesInv /\ PortsInv /\ StandaloneKept /\ IsEvidence(evidence)
    BY CyclesAssumption DEF StandaloneInv, StandaloneKept
  <1>2. ASSUME evidence' = evidence
        PROVE  MinimumConfidence' = MinimumConfidence
               /\ FailedMeasurements' = FailedMeasurements
    BY <1>2 DEF MinimumConfidence, FailedMeasurements, Items, Known
  <1>3. ASSUME UNCHANGED <<evidence, policies, round, classified>>,
               gate' = "rejected" => policies' # <<>>
        PROVE  StandaloneKept'
    BY <1>1, <1>2, <1>3 DEF StandaloneKept
  <1>4. CASE StandalonePolicy
    <2>1. EvaluatePolicy(MinimumConfidence) /\ Cites(MinimumConfidence)
      BY <1>4 DEF StandalonePolicy, MinimumConfidence, Cites
    <2>2. GatesInv' /\ PortsInv'
      BY <1>1, <2>1, PolicyPort, EvaluatePolicyStep
    <2>3. /\ \A i \in DOMAIN policies' : policies'[i] = MinimumConfidence
          /\ UNCHANGED <<evidence, round, classified>>
      BY <1>1, <2>1, OneMorePolicy DEF StandaloneKept
    <2>4. gate' # "rejected"
      BY <2>1 DEF EvaluatePolicy, PassOrRaise
    <2> QED
      BY <1>1, <1>2, <2>2, <2>3, <2>4 DEF StandaloneInv, StandaloneKept
  <1>5. CASE StandaloneClassify
    <2> DEFINE answer == FailedMeasurements
    <2>1. /\ IsList(answer) /\ \A n \in DOMAIN answer : Cites(answer[n])
          /\ ~SharesArtifact =>
                 \A n, k \in DOMAIN answer : answer[n].id = answer[k].id => n = k
      BY <1>1, FailedMeasurementsFacts DEF StandaloneKept
    <2>2. Classify(answer) /\ UNCHANGED <<evidence, policies>>
      BY <1>5 DEF StandaloneClassify, Classify
    <2> HIDE DEF answer
    <2>3. GatesInv' /\ PortsInv' /\ classified' = answer
      BY <1>1, <2>1, <2>2, ClassifierPort, ClassifyStep
    <2>4. gate' # "rejected"
      BY <2>2 DEF Classify, PassOrRaise
    <2> QED
      BY <1>1, <1>2, <2>2, <2>3, <2>4 DEF StandaloneInv, StandaloneKept, answer
  <1>6. CASE SharedNext
    <2>1. gate' = "rejected" => policies' # <<>>
      BY <1>1, <1>6, SharedSteps, RejectingSteps DEF StandaloneKept
    <2> QED
      BY <1>1, <1>3, <1>6, <2>1, SharedSteps DEF StandaloneInv
  <1>7. CASE UNCHANGED vars
    <2>1. gate' = "rejected" => policies' # <<>>
      BY <1>1, <1>7 DEF StandaloneKept, vars
    <2> QED
      BY <1>1, <1>3, <1>7, <2>1, PortsStutter, Stuttering DEF StandaloneInv, vars
  <1> QED
    BY <1>4, <1>5, <1>6, <1>7 DEF StandaloneNext, SharedNext

(* The invariant of the cycle with the built-in ports (builtin.py behind    *)
(* kernel.py:278-475).                                                      *)
THEOREM StandaloneInvariance == StandaloneSpec => []StandaloneInv
  BY StandaloneInit, StandaloneStep, PTL DEF StandaloneSpec

(* The built-in ports pass every gate of the kernel, and nothing raises but *)
(* a citation that repeats an artifact digest (builtin.py:133, 165, 169-348 *)
(* against kernel.py:278-475).                                              *)
THEOREM PortsNeverRaise == StandaloneSpec => []RaisesOnlyOnSharedArtifact
  <1>1. StandaloneInv => RaisesOnlyOnSharedArtifact
    BY DEF StandaloneInv, PortsInv
  <1> QED
    BY <1>1, StandaloneInvariance, PTL

(* The constraints of a classified cycle are those of its concerns. *)
LEMMA ConstraintsOfEvidence ==
    ASSUME StandaloneKept, classified = FailedMeasurements
    PROVE  /\ \A k \in Constraints :
                  k.name = "review-required" /\ \E i \in DOMAIN evidence :
                      IsConcerning(evidence[i]) /\ k = ReviewConstraint(evidence[i])
           /\ \A i \in DOMAIN evidence : IsConcerning(evidence[i]) =>
                  ReviewConstraint(evidence[i]) \in Constraints
  <1>1. \A i : ReviewConstraint(evidence[i]).name = "review-required"
    BY DEF ReviewConstraint
  <1>2. /\ \A k \in Constraints : \E i \in DOMAIN evidence :
               IsConcerning(evidence[i]) /\ k = ReviewConstraint(evidence[i])
        /\ \A i \in DOMAIN evidence : IsConcerning(evidence[i]) =>
               ReviewConstraint(evidence[i]) \in Constraints
    BY FailedMeasurementsFacts DEF StandaloneKept, Constraints
  <1> QED
    BY <1>1, <1>2

LEMMA VerdictOfEvidence == StandaloneInv => VerdictFollowsEvidence
  <1> SUFFICES ASSUME StandaloneInv
               PROVE  VerdictFollowsEvidence
    OBVIOUS
  <1>1. GatesInv /\ PortsInv /\ StandaloneKept
    BY DEF StandaloneInv
  <1>2. Len(policies) \in Nat /\ DOMAIN policies = 1 .. Len(policies)
    BY <1>1, ListFacts DEF GatesInv, AnswersListed
  <1> DEFINE isBelow == Policies = 1 /\ \E i \in DOMAIN evidence :
                            evidence[i].confidence < MinConfidence
             isQuiet == \A i \in DOMAIN evidence : evidence[i].status \in {"passed", "unknown"}
  <1>3. MinimumConfidence.allowed <=>
            \A i \in DOMAIN evidence : ~(evidence[i].confidence < MinConfidence)
    BY DEF MinimumConfidence, BelowFloor, Items
  <1>4. gate = "rejected" => isBelow
    <2> SUFFICES ASSUME gate = "rejected"
                 PROVE  isBelow
      OBVIOUS
    <2>1. policies # <<>>
      BY <1>1 DEF StandaloneKept
    <2>2. PICK i \in DOMAIN policies : ~policies[i].allowed
      BY <1>1, <2>1 DEF PortsInv, DenialsDecide
    <2>3. ~MinimumConfidence.allowed
      BY <1>1, <2>2 DEF StandaloneKept
    <2>4. Policies = 1
      <3>1. Len(policies) <= Policies /\ Policies \in {0, 1}
        BY <1>1, PortsAssumption DEF PortsInv, PoliciesPassed
      <3>2. Len(policies) # 0
        BY <1>2, <2>2
      <3> QED
        BY <1>2, <3>1, <3>2
    <2> QED
      BY <1>3, <2>3, <2>4
  <1>5. gate \in {"no_candidate", "packaged"} => ~isBelow
    <2> SUFFICES ASSUME gate \in {"no_candidate", "packaged"}, Policies = 1
                 PROVE  MinimumConfidence.allowed
      BY <1>3
    <2>1. 1 \in DOMAIN policies /\ policies[1].allowed
      BY <1>1, <1>2 DEF PortsInv, PoliciesPassed
    <2> QED
      BY <1>1, <2>1 DEF StandaloneKept
  <1>6. gate \in {"no_candidate", "packaged"} => classified = FailedMeasurements
    BY <1>1 DEF PortsInv, ClassifiedOnce, StandaloneKept
  <1>7. FailedMeasurements = <<>> <=> isQuiet
    <2>1. \A i \in DOMAIN evidence :
              evidence[i].status \in {"passed", "failed", "warning", "unknown"}
      BY <1>1, AdmittedAssumption DEF StandaloneKept
    <2> QED
      BY <1>1, <2>1, FailedMeasurementsFacts DEF StandaloneKept, IsConcerning
  <1>8. gate = "no_candidate" => isQuiet \/ "review-required" \notin GovernedNames
    <2> SUFFICES ASSUME gate = "no_candidate", classified # <<>>,
                        "review-required" \in GovernedNames
                 PROVE  FALSE
      BY <1>6, <1>7
    <2>1. Governed = {}
      BY <1>1 DEF PortsInv, NoneGoverned
    <2>2. PICK i \in DOMAIN evidence : IsConcerning(evidence[i])
      BY <1>1, <1>6, FailedMeasurementsFacts DEF StandaloneKept
    <2>3. ReviewConstraint(evidence[i]) \in Constraints
      BY <1>1, <1>6, <2>2, FailedMeasurementsFacts DEF StandaloneKept, Constraints
    <2>4. evidence[i] \in Governed
      BY <2>3 DEF Governed, ReviewConstraint, Items
    <2> QED
      BY <2>1, <2>4
  <1>9. gate = "packaged" => ~isQuiet /\ "review-required" \in GovernedNames
    <2>1. gate = "packaged" => ~isQuiet
      BY <1>1, <1>6, <1>7 DEF PortsInv, ConcernsFound
    <2>2. gate = "packaged" => \E k \in Constraints : k.name \in GovernedNames
      BY <1>1 DEF PortsInv, PlanKept, Governed
    <2>3. gate = "packaged" => \A k \in Constraints : k.name = "review-required"
      BY <1>1, <1>6, ConstraintsOfEvidence
    <2> QED
      BY <2>1, <2>2, <2>3
  <1> QED
    BY <1>4, <1>5, <1>8, <1>9 DEF VerdictFollowsEvidence

(* Of any evidence, the verdict is the one its confidences and statuses     *)
(* call for (builtin.py:109-348).                                           *)
THEOREM VerdictsFollowEvidence == StandaloneSpec => []VerdictFollowsEvidence
  BY StandaloneInvariance, VerdictOfEvidence, PTL

LEMMA NamesKept == StandaloneInv => PlannerKeepsToItsNames
  <1> SUFFICES ASSUME StandaloneInv
               PROVE  PlannerKeepsToItsNames
    OBVIOUS
  <1>1. PortsInv /\ StandaloneKept
    BY DEF StandaloneInv
  <1>2. ASSUME gate \in {"check", "package", "packaged"}
        PROVE  \E k \in Constraints : k.name \in GovernedNames
    BY <1>1, <1>2 DEF PortsInv, PlanKept, PastPlan, Governed
  <1>3. ASSUME gate = "no_candidate", NEW i \in DOMAIN evidence,
               evidence[i].status \in {"failed", "warning"}
        PROVE  \E k \in Constraints :
                   /\ k.name \notin GovernedNames
                   /\ k.id[1] = evidence[i].id /\ k.refs = {evidence[i].artifact}
                   /\ k.hard <=> evidence[i].status = "failed"
    <2> DEFINE k == ReviewConstraint(evidence[i])
    <2>1. classified = FailedMeasurements
      BY <1>1, <1>3 DEF PortsInv, ClassifiedOnce, StandaloneKept
    <2>2. k \in Constraints
      BY <1>1, <1>3, <2>1, ConstraintsOfEvidence DEF IsConcerning
    <2>3. /\ k.id[1] = evidence[i].id /\ k.refs = {evidence[i].artifact}
          /\ k.hard <=> evidence[i].status = "failed"
      BY DEF ReviewConstraint
    <2> HIDE DEF k
    <2>4. Governed = {}
      BY <1>1, <1>3, <2>2 DEF PortsInv, NoneGoverned, Constraints
    <2>5. k.name \notin GovernedNames
      BY <2>2, <2>3, <2>4 DEF Governed, Items
    <2> QED
      BY <2>2, <2>3, <2>5
  <1> QED
    BY <1>2, <1>3 DEF PlannerKeepsToItsNames

(* Whatever names the planner governs, it plans only for them, and every    *)
(* concern it leaves alone is a constraint of the cycle that has another    *)
(* name (builtin.py:257-283).                                               *)
THEOREM DeclinesOtherNames == StandaloneSpec => []PlannerKeepsToItsNames
  BY StandaloneInvariance, NamesKept, PTL

LEMMA ConcernsCovered == StandaloneInv => ConcernsAreGoverned
  <1> SUFFICES ASSUME StandaloneInv, gate = "packaged"
               PROVE  ConcernsAreGoverned
    BY DEF ConcernsAreGoverned
  <1> DEFINE chosen == CHOOSE c \in package.candidates : c.id = package.selected
  <1>1. /\ chosen = Review /\ package.constraints = Constraints
        /\ Review.action = "request_review" /\ Review.refs = Artifacts(Governed)
    BY PackagedReview DEF StandaloneInv
  <1>2. evidence \in Cycles /\ classified = FailedMeasurements
    BY DEF StandaloneInv, StandaloneKept, PortsInv, ClassifiedOnce
  <1> HIDE DEF chosen
  <1>3. ASSUME NEW i \in DOMAIN evidence, evidence[i].status \in {"failed", "warning"}
        PROVE  \E k \in package.constraints :
                   /\ k.hard <=> evidence[i].status = "failed"
                   /\ k.id[1] = evidence[i].id
                   /\ k.refs = {evidence[i].artifact}
                   /\ k.id \in chosen.constraints
                   /\ k.refs \subseteq chosen.refs
    <2> DEFINE k == ReviewConstraint(evidence[i])
    <2>1. IsConcerning(evidence[i])
      BY <1>3 DEF IsConcerning
    <2>2. k \in Constraints
      BY <1>2, <2>1, FailedMeasurementsFacts DEF Constraints
    <2>3. /\ k.hard <=> evidence[i].status = "failed"
          /\ k.id[1] = evidence[i].id /\ k.refs = {evidence[i].artifact}
          /\ k.name = "review-required"
      BY DEF ReviewConstraint
    <2> HIDE DEF k
    <2>4. evidence[i].artifact \in Artifacts(Governed)
      <3>1. Governed # {}
        BY DEF StandaloneInv, PortsInv, PlanKept
      <3>2. PICK h \in Constraints : h.name \in GovernedNames
        BY <3>1 DEF Governed
      <3>3. h.name = "review-required"
        BY <1>2, <3>2, FailedMeasurementsFacts DEF Constraints, ReviewConstraint
      <3>4. evidence[i] \in Governed
        BY <2>2, <2>3, <3>2, <3>3 DEF Governed, Items
      <3> QED
        BY <3>4 DEF Artifacts
    <2>5. k.id \in chosen.constraints /\ k.refs \subseteq chosen.refs
      BY <1>1, <2>2, <2>3, <2>4, ReviewCovers
    <2> QED
      BY <1>1, <2>2, <2>3, <2>5
  <1> QED
    BY <1>1, <1>3 DEF ConcernsAreGoverned, chosen

(* Every failed or warning measurement of any evidence is a constraint that *)
(* the proposed review covers (builtin.py:169-348).                         *)
THEOREM ConcernsCauseReview == StandaloneSpec => []ConcernsAreGoverned
  BY StandaloneInvariance, ConcernsCovered, PTL

=============================================================================
