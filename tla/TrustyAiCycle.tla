----------------------------- MODULE TrustyAiCycle -----------------------------
(***************************************************************************)
(* From TrustyAI metrics to a verdict: TrustyAIServiceEvidenceSource has   *)
(* the requested metrics computed one after the other and normalises each  *)
(* response (adapters/trustyai_service.py), and the kernel runs a cycle    *)
(* with the TrustyAI policy pack (policy_packs/trustyai_service.py) and    *)
(* the built-in objective, planner and check, as in cli.py.  Nothing       *)
(* dates a metric but the clock of the host when its response is in.       *)
(*                                                                         *)
(* The floating-point numbers of a response are only ever compared, so     *)
(* they are integers here, with One for 1.0.  A response is a JSON object: *)
(* a record whose domain is the keys it has.  Optional values are          *)
(* sequences.                                                              *)
(***************************************************************************)
EXTENDS StandaloneCycle

CONSTANTS
    Hosts,       \* requests, correlation, confidence and trust of hosts
    Responses,   \* what the service may answer
    One,         \* the number 1.0
    Validity     \* validity of an envelope

ASSUME TrustyAiAssumption ==
    One \in Nat \ {0} /\ Validity \in Nat \ {0} /\ Now \in Nat
(* The kernel of cli.py has the policy and the planner of the pack. *)
ASSUME PackAssumption == Policies = 1 /\ "runtime-review-required" \in GovernedNames

VARIABLES
    host,      \* a member of Hosts
    time,      \* the clock of the host
    fetched    \* the responses, in the order of the requests

trustyVars == <<vars, host, time, fetched>>

-----------------------------------------------------------------------------
(* TRUSTYAI_METRIC_CONTRACTS.  A kind stands for its endpoint, its schema,  *)
(* and the name and unit of its measurement.                                *)

Kinds == {"kstest", "comparemeans", "jensenshannon", "mmd", "spd", "dir"}
ShapeOf == [kstest |-> "p-value", comparemeans |-> "p-value",
            jensenshannon |-> "threshold", mmd |-> "threshold",
            spd |-> "range", dir |-> "range"]
FamilyOf(kind) == IF kind \in {"spd", "dir"} THEN "fairness" ELSE "drift"
MetricNameOf == [kstest |-> "KSTest", comparemeans |-> "CompareMeans",
                 jensenshannon |-> "JensenShannon", mmd |-> "MMD",
                 spd |-> "SPD", dir |-> "DIR"]

(* The source takes a list of at least one request, each of a known kind,   *)
(* with or without a statistic.                                             *)
ASSUME RequestsAssumption ==
    \A h \in Hosts :
        /\ DOMAIN h.requests = 1 .. Len(h.requests) /\ Len(h.requests) \in Nat \ {0}
        /\ \A i \in DOMAIN h.requests :
               LET statistic == h.requests[i].statistic IN
               /\ h.requests[i].kind \in Kinds
               /\ statistic = <<>> \/ statistic = <<statistic[1]>>

-----------------------------------------------------------------------------
(* The response models.  Keys a model does not ask for are ignored.         *)

Has(r, keys) == keys \subseteq DOMAIN r

VerdictAtAlpha(r) ==   \* mutant
    /\ Has(r, {"status", "value", "drift_detected", "p_value", "alpha"})
    /\ r.status = "success" /\ 0 <= r.p_value /\ r.p_value <= One
    /\ 0 < r.alpha /\ r.alpha < One
    /\ r.drift_detected <=> r.p_value <= r.alpha
IsPValueResponse(r) ==
    /\ Has(r, {"status", "value", "drift_detected", "p_value", "alpha"})
    /\ r.status = "success" /\ 0 <= r.p_value /\ r.p_value <= One
    /\ 0 < r.alpha /\ r.alpha < One
    /\ r.drift_detected <=> r.p_value < r.alpha

IsThresholdResponse(r) ==
    /\ Has(r, {"status", "value", "drift_detected", "threshold"})
    /\ r.status = "success"
    /\ r.drift_detected <=> r.value > r.threshold

Decisive(r) == IF r.statistic = "distance" THEN r.distance ELSE r.divergence
IsJensenShannonResponse(r) ==
    /\ Has(r, {"status", "value", "drift_detected", "threshold", "statistic", "distance",
               "divergence"})
    /\ r.status = "success" /\ r.statistic \in {"distance", "divergence"}
    /\ r.drift_detected <=> Decisive(r) > r.threshold

IsFairnessResponse(r) ==
    /\ Has(r, {"name", "value", "type", "lower", "upper", "outside"})
    /\ r.type = "metric" /\ r.name \in {"SPD", "DIR"}
    /\ r.lower <= r.upper
    /\ r.outside <=> r.value < r.lower \/ r.value > r.upper

(* The statistic asked for, "distance" unless the request names one. *)
Statistic(request) == IF request.statistic = <<>> THEN "distance" ELSE request.statistic[1]

AnyStatistic(request, r) ==   \* mutant
    /\ ShapeOf[request.kind] = "p-value" => IsPValueResponse(r)
    /\ request.kind = "jensenshannon" => IsJensenShannonResponse(r)
    /\ request.kind = "mmd" => IsThresholdResponse(r)
    /\ ShapeOf[request.kind] = "range" =>
           IsFairnessResponse(r) /\ r.name = MetricNameOf[request.kind]
IsAnswer(request, r) ==
    /\ ShapeOf[request.kind] = "p-value" => IsPValueResponse(r)
    /\ request.kind = "jensenshannon" =>
           IsJensenShannonResponse(r) /\ r.statistic = Statistic(request)
    /\ request.kind = "mmd" => IsThresholdResponse(r)
    /\ ShapeOf[request.kind] = "range" =>
           IsFairnessResponse(r) /\ r.name = MetricNameOf[request.kind]

-----------------------------------------------------------------------------
(* normalize_trustyai_metric. *)

IsNormalizable(request, r) ==
    /\ request.endpoint = request.kind
    /\ request.isIdentified
    /\ request.metricName \in {<<>>, <<MetricNameOf[request.kind]>>}
    /\ IsAnswer(request, r)

Measured(kind, r) ==
    CASE ShapeOf[kind] = "p-value" ->
             [value |-> r.p_value, threshold |-> <<r.alpha>>, statistic |-> <<r.value>>,
              bounds |-> <<>>, isFailed |-> r.drift_detected]
      [] ShapeOf[kind] = "threshold" ->
             [value |-> IF kind = "jensenshannon" THEN Decisive(r) ELSE r.value,
              threshold |-> <<r.threshold>>, statistic |-> <<>>, bounds |-> <<>>,
              isFailed |-> r.drift_detected]
      [] ShapeOf[kind] = "range" ->
             [value |-> r.value, threshold |-> <<>>, statistic |-> <<>>,
              bounds |-> <<r.lower, r.upper>>, isFailed |-> r.outside]

ByModel(request, exchange) == request.model   \* mutant
OwnCorrelation(request, exchange) == <<request.model, exchange>>

(* The digest of an exchange stands for what is digested. *)
Exchange(request, r) == [kind |-> request.kind, request |-> request, response |-> r]

Normalize(request, r) ==
    LET exchange == Exchange(request, r) IN
    [id |-> <<request.kind, exchange>>, producer |-> request.endpoint,
     schema |-> request.kind, kind |-> request.kind, family |-> FamilyOf(request.kind),
     correlation |-> IF host.isCorrelated THEN "given" ELSE OwnCorrelation(request, exchange),
     subject |-> request.model, model |-> request.model,
     measured |-> Measured(request.kind, r),
     status |-> IF Measured(request.kind, r).isFailed THEN "failed" ELSE "passed",
     confidence |-> host.confidence, artifact |-> exchange, located |-> FALSE,
     mode |-> "authenticated-compute-response",
     observed |-> time, expires |-> time + Validity]

-----------------------------------------------------------------------------
(* The policy pack. *)

IsOutside(m) == m.value < m.bounds[1] \/ m.value > m.bounds[2]

(* The verdict the pack expects of a measurement, once its values are there. *)
HasValues(shape, m) ==
    /\ shape = "p-value" => /\ m.threshold # <<>>
                            /\ 0 < m.threshold[1] /\ m.threshold[1] < One
                            /\ m.statistic # <<>>
    /\ shape = "threshold" => m.threshold # <<>>
    /\ shape = "range" => m.threshold = <<>> /\ m.bounds # <<>> /\ m.bounds[1] <= m.bounds[2]
IsFailing(shape, m) ==
    \/ shape = "p-value" /\ m.value < m.threshold[1]
    \/ shape = "threshold" /\ m.value > m.threshold[1]
    \/ shape = "range" /\ IsOutside(m)

(* _contract_problem finds none. *)
KeepsContract(item) ==
    /\ item.schema \in Kinds
    /\ item.kind = item.schema /\ item.family = FamilyOf(item.schema)
    /\ item.producer = item.schema
    /\ item.model = item.subject
    /\ item.mode = "authenticated-compute-response" /\ ~item.located
    /\ item.status \in {"passed", "failed"}
    /\ HasValues(ShapeOf[item.schema], item.measured)
    /\ item.status = "failed" <=> IsFailing(ShapeOf[item.schema], item.measured)

TrustyAiEvidencePolicy ==
    [check |-> "trustyai-service-evidence-v1alpha1",
     allowed |-> /\ host.isTrusted
                 /\ \A item \in Items : KeepsContract(item) /\ ~BelowFloor(item),
     refs |-> Known]

IsBreach(item) == item.schema \in Kinds /\ item.status = "failed"

RuntimeConstraint(item) ==
    [id |-> <<item.subject, item.kind, item.status, item.artifact>>,
     name |-> "runtime-review-required", hard |-> TRUE, refs |-> {item.artifact}]

SkipFirst(items) ==   \* mutant
    InOrder({i \in DOMAIN items : i > 1 /\ IsBreach(items[i])})
Breaches(items) == InOrder({i \in DOMAIN items : IsBreach(items[i])})
RuntimeConstraints ==
    LET breaches == Breaches(evidence) IN
    [n \in DOMAIN breaches |-> RuntimeConstraint(evidence[breaches[n]])]

-----------------------------------------------------------------------------
(* The host: receive, and run.  An error before the cycle leaves the gate   *)
(* at "refused".                                                            *)

Stay == UNCHANGED <<policies, round, classified, objective, plan, checks, package>>

Receive(r) ==
    /\ gate = "receive"
    /\ fetched' = Append(fetched, r)
    /\ LET request == host.requests[Len(fetched')] IN
       IF ~IsNormalizable(request, r)
       THEN gate' = "refused" /\ UNCHANGED evidence
       ELSE /\ evidence' = Append(evidence, Normalize(request, r))
            /\ gate' = IF Len(fetched') < Len(host.requests) THEN "receive" ELSE "run"
    /\ UNCHANGED <<host, time>> /\ Stay

(* compute raises: the request is too large, the service or the transport   *)
(* fails, or what arrives is no JSON object within the limits.              *)
ComputeFails ==
    /\ gate = "receive"
    /\ gate' = "refused"
    /\ UNCHANGED <<evidence, host, time, fetched>> /\ Stay

(* The evidence gates of the kernel. *)
OneCorrelation == Cardinality({item.correlation : item \in Items}) = 1
RepeatsEvidence ==
    \E i, j \in DOMAIN evidence :
        i # j /\ evidence[i].producer = evidence[j].producer /\ evidence[i].id = evidence[j].id

AdmitRepeats ==   \* mutant
    IF ~OneCorrelation THEN "refused"
    ELSE IF \E item \in Items : ~(item.observed <= Now /\ Now < item.expires)
    THEN "rejected" ELSE "policy"
Admission ==
    IF ~OneCorrelation \/ RepeatsEvidence THEN "refused"
    ELSE IF \E item \in Items : ~(item.observed <= Now /\ Now < item.expires)
    THEN "rejected" ELSE "policy"
Run ==
    /\ gate = "run"
    /\ time = Now
    /\ gate' = Admission
    /\ UNCHANGED <<evidence, host, time, fetched>> /\ Stay

Tick ==
    /\ gate \in {"receive", "run"}
    /\ time < Now
    /\ time' = time + 1
    /\ UNCHANGED <<vars, host, fetched>>

Refused == gate = "refused" /\ UNCHANGED trustyVars

(* The contracts refuse references that repeat; see ExchangesDiffer. *)
InCycle ==
    /\ \/ EvaluatePolicy(TrustyAiEvidencePolicy)
       \/ Classify(RuntimeConstraints)
       \/ StandaloneObjective \/ StandalonePlan \/ StandaloneCheck \/ Gates
    /\ UNCHANGED <<host, time, fetched>>

TrustyAiInit ==
    /\ gate = "receive" /\ evidence = <<>> /\ policies = <<>> /\ round = 0
    /\ classified = <<>> /\ objective = Absent /\ plan = Absent /\ checks = <<>>
    /\ package = Absent
    /\ host \in Hosts /\ time = 0 /\ fetched = <<>>

TrustyAiNext ==
    \/ \E r \in Responses : Receive(r)
    \/ ComputeFails \/ Run \/ Tick \/ Refused
    \/ InCycle

TrustyAiSpec == TrustyAiInit /\ [][TrustyAiNext]_trustyVars

-----------------------------------------------------------------------------
(* Properties. *)

Received == 1 .. Len(evidence)
InKernel == gate \notin {"receive", "run", "refused"}

(* What docs/trustyai-service-integration.md says of each metric (Implemented *)
(* compute contracts), on the raw response.                                   *)
IsBreached(i) ==
    LET request == host.requests[i]
        r == fetched[i]
    IN  CASE request.kind \in {"kstest", "comparemeans"} -> r.p_value < r.alpha
          [] request.kind = "mmd" -> r.value > r.threshold
          [] request.kind = "jensenshannon" ->
                 IF request.statistic = <<"divergence">> THEN r.divergence > r.threshold
                 ELSE r.distance > r.threshold
          [] request.kind \in {"spd", "dir"} -> r.value < r.lower \/ r.value > r.upper

(* A cycle ends without a constraint only when every metric that was asked  *)
(* for holds by its own statistic and bounds, and its response came within  *)
(* the validity, however long the metrics after it took.                    *)
QuietMetricsHold ==
    gate = "no_candidate" =>
        /\ Len(fetched) = Len(host.requests)
        /\ \A i \in Received :
               ~IsBreached(i) /\ evidence[i].observed + Validity > Now

(* In a packaged cycle each breached metric is one hard constraint of its   *)
(* own, the others are none, and the selected review covers every one.      *)
BreachesAreReviewed ==
    gate = "packaged" =>
        LET chosen == CHOOSE c \in package.candidates : c.id = package.selected
            ConstraintsOf(i) == {k \in package.constraints : evidence[i].artifact \in k.refs}
        IN  /\ chosen.action = "request_review"
            /\ \A i \in Received :
                   /\ Cardinality(ConstraintsOf(i)) = IF IsBreached(i) THEN 1 ELSE 0
                   /\ \A k \in ConstraintsOf(i) : k.hard /\ k.id \in chosen.constraints

(* Adapter and pack read the same verdict out of a response, on the bounds  *)
(* as well: the policy turns a cycle down only for what the host set, the   *)
(* confidence or the trusted producer (adapters/trustyai_service.py:146-218,*)
(* policy_packs/trustyai_service.py:100-135).                               *)
RejectedForCause ==
    gate = "rejected" /\ policies # <<>> => host.confidence < MinConfidence \/ ~host.isTrusted

(* The source gives no correlation id, so each of its metrics has one of    *)
(* its own, and more than one metric never makes a cycle                    *)
(* (adapters/trustyai_service.py:426-429, 648-661; kernel.py:226-229).      *)
OwnCorrelationsNeverMeet ==
    Len(evidence) > 1 /\ ~host.isCorrelated => ~InKernel

(* The kernel refuses a repeated exchange by its evidence id, so within a   *)
(* cycle no two envelopes carry one digest, and nothing the ports build     *)
(* from digests repeats or raises (kernel.py:230-234, pack:183-189, 241).   *)
ExchangesDiffer == InKernel => ~SharesArtifact /\ gate # "raised"

=============================================================================
