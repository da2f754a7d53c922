---------------------------- MODULE StandaloneCycle ----------------------------
(***************************************************************************)
(* A cycle with the built-in ports (builtin.py) behind the gates: the      *)
(* minimum-confidence policy, the failed-measurement classifier, the       *)
(* risk-reduction objective, the review planner and the evidence-freshness *)
(* check, over the standalone action registry.  Each port is a function of *)
(* what it is given; building a contract value whose references repeat is  *)
(* an error inside the port.                                               *)
(***************************************************************************)
EXTENDS CycleGates

CONSTANTS
    MinConfidence,    \* the floor of MinimumConfidencePolicy, in hundredths
    GovernedNames     \* constraint_names of the planner

(* No more than the one policy check, and the one classifier. *)
ASSUME PortsAssumption == Policies \in {0, 1} /\ Classifiers = 1
(* Evidence is a list of measurements, none of them from after the cycle    *)
(* began (kernel.py:246-256, MeasurementStatus).                            *)
ASSUME AdmittedAssumption ==
    \A cycle \in Cycles :
        /\ Len(cycle) \in Nat /\ DOMAIN cycle = 1 .. Len(cycle)
        /\ \A i \in DOMAIN cycle :
               /\ cycle[i].observed <= Now
               /\ cycle[i].status \in {"passed", "failed", "warning", "unknown"}

(* A set of positions, in ascending order: what a loop with continue visits. *)
InOrder(positions) ==
    [n \in 1 .. Cardinality(positions) |->
        CHOOSE i \in positions : Cardinality({j \in positions : j <= i}) = n]

Artifacts(items) == {item.artifact : item \in items}
(* A list of the artifact digests of the evidence repeats one of them. *)
SharesArtifact ==
    \E i, j \in DOMAIN evidence : i # j /\ evidence[i].artifact = evidence[j].artifact

-----------------------------------------------------------------------------
(* The ports. *)

FloorExcluded(item) == item.confidence <= MinConfidence   \* mutant
BelowFloor(item) == item.confidence < MinConfidence
MinimumConfidence ==
    [check |-> "minimum-confidence", allowed |-> \A item \in Items : ~BelowFloor(item),
     refs |-> Known]

OnlyFailed(item) == item.status = "failed"   \* mutant
IsConcerning(item) == item.status \in {"failed", "warning"}

(* The constraint id is a digest of the item's identity and measurement. *)
ReviewConstraint(item) ==
    [id |-> <<item.id, item.artifact, item.subject, item.status, item.confidence>>,
     name |-> "review-required", hard |-> item.status = "failed",
     refs |-> {item.artifact}]
FailedMeasurements ==
    LET concerning == InOrder({i \in DOMAIN evidence : IsConcerning(evidence[i])}) IN
    [n \in DOMAIN concerning |-> ReviewConstraint(evidence[concerning[n]])]

RiskReduction ==
    [weights |-> [risk |-> 2, intervention |-> 1], constraints |-> ConstraintIds,
     refs |-> UNION {k.refs : k \in Constraints}]

(* The items the governed constraints cite. *)
AnyName ==   \* mutant
    LET refs == UNION {k.refs : k \in Constraints}
    IN  {item \in Items : item.artifact \in refs}
Governed ==
    LET refs == UNION {k.refs : k \in {h \in Constraints : h.name \in GovernedNames}}
    IN  {item \in Items : item.artifact \in refs}
Review ==
    [id |-> "request_review", action |-> "request_review", consequence |-> "medium",
     parameters |-> "queue", values |-> [risk |-> 4, intervention |-> 2],
     constraints |-> ConstraintIds, refs |-> Artifacts(Governed)]
Hold ==
    [id |-> "hold", action |-> "hold", consequence |-> "high",
     parameters |-> "subject_ids", values |-> [risk |-> 1, intervention |-> 10],
     constraints |-> ConstraintIds, refs |-> Artifacts(Governed)]

(* The cheaper of the two, and of two equally cheap the first by name. *)
HoldFirst == Hold   \* mutant
Preferred == IF Cost(objective, Review) < Cost(objective, Hold) THEN Review ELSE Hold
ReviewPlan ==
    [candidates |-> {Review, Hold}, selected |-> Preferred.id,
     rejected |-> {Review, Hold} \ {Preferred}]

(* Challenged at the instant at which the evidence was admitted. *)
EvidenceFreshness ==
    [candidate |-> Selected.id, check |-> "evidence-freshness",
     survives |-> \A item \in Items : item.observed <= Now /\ Now < item.expires,
     refs |-> Known]

StandaloneActions == {"request_review", "hold"}
StandaloneConsequences ==
    [request_review |-> {"low", "medium"}, hold |-> {"high", "critical"}]
StandaloneSchemas == [request_review |-> {"queue"}, hold |-> {"subject_ids"}]
StandaloneChecks == [a \in StandaloneActions |-> <<"evidence-freshness">>]

ASSUME StandaloneAssumption ==
    /\ Actions = StandaloneActions /\ AllowedConsequences = StandaloneConsequences
    /\ Schemas = StandaloneSchemas /\ RequiredChecks = StandaloneChecks
    /\ "evidence-freshness" \in ConfiguredChecks

-----------------------------------------------------------------------------
(* The cycle. *)

(* The policy and the check cite the digest of every envelope, and the      *)
(* contract refuses a citation that repeats one.                            *)
StandalonePolicy == ~SharesArtifact /\ EvaluatePolicy(MinimumConfidence)
StandaloneCheck == ~SharesArtifact /\ Challenge(EvidenceFreshness)
CitationRepeats ==
    SharesArtifact /\ gate \in {"policy", "check"} /\ PortRaises

StandaloneClassify == Classify(FailedMeasurements)
StandaloneObjective == InterpretObjective(RiskReduction)
StandalonePlan ==
    \/ Governed = {} /\ PlannerDeclines
    \/ Governed # {} /\ ProposePlan(ReviewPlan)

StandaloneNext ==
    \/ StandalonePolicy \/ StandaloneClassify \/ StandaloneObjective
    \/ StandalonePlan \/ StandaloneCheck \/ CitationRepeats \/ Gates

StandaloneSpec == Init /\ [][StandaloneNext]_vars

-----------------------------------------------------------------------------
(* Properties. *)

(* The built-in ports fit each other and every gate of the kernel: a cycle  *)
(* over admitted evidence reaches a verdict and does not raise, except when *)
(* two envelopes carry one artifact digest, which the kernel admits         *)
(* (kernel.py:464) but the reference lists of builtin.py:133,165 do not.    *)
RaisesOnlyOnSharedArtifact == gate = "raised" => SharesArtifact

(* The verdict is the one the evidence calls for, whichever port gave it:   *)
(* rejected only for evidence below the floor, no candidate only when no    *)
(* measurement failed or warned or the planner does not govern them, and a  *)
(* proposal only otherwise.                                                 *)
VerdictFollowsEvidence ==
    LET isBelow == Policies = 1 /\ \E i \in DOMAIN evidence :
                       evidence[i].confidence < MinConfidence
        isQuiet == \A i \in DOMAIN evidence :
                       evidence[i].status \in {"passed", "unknown"}
    IN  /\ gate = "rejected" => isBelow
        /\ gate = "no_candidate" => ~isBelow /\ (isQuiet \/ "review-required" \notin GovernedNames)
        /\ gate = "packaged" => ~isBelow /\ ~isQuiet /\ "review-required" \in GovernedNames

(* The planner keeps to the names it was given (builtin.py:257-288): a plan *)
(* answers a constraint of one of them, and a cycle in which it declines    *)
(* has a constraint of another name for every failed or warning item, which *)
(* the cycle then records and leaves without a proposal (kernel.py:353-367).*)
PlannerKeepsToItsNames ==
    LET IsNamed(k) == k.name \in GovernedNames IN
    /\ gate \in {"check", "package", "packaged"} => \E k \in Constraints : IsNamed(k)
    /\ gate = "no_candidate" =>
           \A i \in DOMAIN evidence : evidence[i].status \in {"failed", "warning"} =>
               \E k \in Constraints :
                   /\ ~IsNamed(k)
                   /\ k.id[1] = evidence[i].id /\ k.refs = {evidence[i].artifact}
                   /\ k.hard <=> evidence[i].status = "failed"

(* Every failed measurement of a packaged cycle is a hard constraint, every *)
(* warning a soft one, and the selected proposal, a review and never the    *)
(* costlier hold, covers each and cites its artifact (builtin.py:182-348).  *)
ConcernsAreGoverned ==
    gate = "packaged" =>
        LET chosen == CHOOSE c \in package.candidates : c.id = package.selected IN
        /\ chosen.action = "request_review"
        /\ \A i \in DOMAIN evidence : evidence[i].status \in {"failed", "warning"} =>
               \E k \in package.constraints :
                   /\ k.hard <=> evidence[i].status = "failed"
                   /\ k.id[1] = evidence[i].id
                   /\ k.refs = {evidence[i].artifact}
                   /\ k.id \in chosen.constraints
                   /\ k.refs \subseteq chosen.refs

=============================================================================
