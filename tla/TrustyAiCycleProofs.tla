------------------------- MODULE TrustyAiCycleProofs -------------------------
(***************************************************************************)
(* The TrustyAI adapter and its policy pack agree on every response, with  *)
(* any numbers and bounds in it; every breached metric of a cycle, and no  *)
(* other, is a constraint that the proposed review covers; and the metrics *)
(* of a source without a correlation id never share a cycle.  The          *)
(* inductive invariant says what normalize_trustyai_metric has established *)
(* of each envelope, and what the evidence gates of the kernel and the     *)
(* ports of the pack have established since; what the gates and the        *)
(* built-in ports establish is in CycleGatesProofs and                     *)
(* StandaloneCycleProofs.                                                  *)
(***************************************************************************)
EXTENDS TrustyAiCycle, StandaloneCycleProofs

HostTyped ==
    /\ host \in Hosts /\ time \in Nat
    /\ IsList(fetched) /\ IsList(evidence)

(* One envelope for each response, until all of them are there. *)
InStep ==
    /\ gate # "refused" => Len(fetched) = Len(evidence)
    /\ gate = "receive" => Len(fetched) < Len(host.requests)
    /\ gate \notin {"receive", "refused"} => Len(fetched) = Len(host.requests)
NotYetAsked == gate \in Preparing => Unasked

(* The envelope of an exchange is named after it, and keeps the contract.   *)
IsEnvelope(item, request, r) ==
    /\ IsNormalizable(request, r)
    /\ KeepsContract(item)
    /\ item.schema = request.kind
    /\ item.status = "failed" <=> Measured(request.kind, r).isFailed
    /\ item.confidence = host.confidence
    /\ item.id = <<item.artifact.kind, item.artifact>>
    /\ item.producer = item.artifact.kind
    /\ ~host.isCorrelated => item.correlation = <<item.model, item.artifact>>
    /\ item.observed \in Int /\ item.expires = item.observed + Validity
EnvelopesKept ==
    \A i \in DOMAIN evidence : IsEnvelope(evidence[i], host.requests[i], fetched[i])

(* What the ports of the pack have answered. *)
PackAnswers ==
    /\ \A i \in DOMAIN policies : policies[i] = TrustyAiEvidencePolicy
    /\ round = 1 => classified = RuntimeConstraints

(* The evidence gates of the kernel. *)
AdmittedApart == InKernel => ~SharesArtifact

HostInv ==
    /\ HostTyped
    /\ InStep
    /\ NotYetAsked
    /\ EnvelopesKept
    /\ PackAnswers
    /\ AdmittedApart
    /\ OwnCorrelationsNeverMeet

TrustyInv == GatesInv /\ PortsInv /\ HostInv

-----------------------------------------------------------------------------
(* The adapter. *)

(* What the adapter measures is what the pack expects, for any numbers. *)
LEMMA AdapterKeepsContract ==
    ASSUME NEW request, request.kind \in Kinds, NEW r, IsNormalizable(request, r)
    PROVE  /\ HasValues(ShapeOf[request.kind], Measured(request.kind, r))
           /\ Measured(request.kind, r).isFailed
                  <=> IsFailing(ShapeOf[request.kind], Measured(request.kind, r))
  <1> DEFINE k == request.kind
  <1>1. IsAnswer(request, r)
    BY DEF IsNormalizable
  <1>2. CASE k \in {"kstest", "comparemeans"}
    <2>1. ShapeOf[k] = "p-value"
      BY <1>2 DEF ShapeOf
    <2>2. IsPValueResponse(r)
      BY <1>1, <2>1 DEF IsAnswer
    <2>3. /\ Measured(k, r).value = r.p_value /\ Measured(k, r).threshold = <<r.alpha>>
          /\ Measured(k, r).statistic = <<r.value>>
          /\ Measured(k, r).isFailed = r.drift_detected
      BY <2>1 DEF Measured
    <2> QED
      BY <2>1, <2>2, <2>3 DEF HasValues, IsFailing, IsPValueResponse
  <1>3. CASE k = "jensenshannon"
    <2>1. ShapeOf[k] = "threshold"
      BY <1>3 DEF ShapeOf
    <2>2. IsJensenShannonResponse(r)
      BY <1>1, <1>3, <2>1 DEF IsAnswer
    <2>3. /\ Measured(k, r).value = Decisive(r) /\ Measured(k, r).threshold = <<r.threshold>>
          /\ Measured(k, r).isFailed = r.drift_detected
      BY <1>3, <2>1 DEF Measured
    <2> QED
      BY <2>1, <2>2, <2>3 DEF HasValues, IsFailing, IsJensenShannonResponse
  <1>4. CASE k = "mmd"
    <2>1. ShapeOf[k] = "threshold"
      BY <1>4 DEF ShapeOf
    <2>2. IsThresholdResponse(r)
      BY <1>1, <1>4, <2>1 DEF IsAnswer
    <2>3. /\ Measured(k, r).value = r.value /\ Measured(k, r).threshold = <<r.threshold>>
          /\ Measured(k, r).isFailed = r.drift_detected
      BY <1>4, <2>1 DEF Measured
    <2> QED
      BY <2>1, <2>2, <2>3 DEF HasValues, IsFailing, IsThresholdResponse
  <1>5. CASE k \in {"spd", "dir"}
    <2>1. ShapeOf[k] = "range"
      BY <1>5 DEF ShapeOf
    <2>2. IsFairnessResponse(r)
      BY <1>1, <1>5, <2>1 DEF IsAnswer
    <2>3. /\ Measured(k, r).value = r.value /\ Measured(k, r).threshold = <<>>
          /\ Measured(k, r).bounds = <<r.lower, r.upper>>
          /\ Measured(k, r).isFailed = r.outside
      BY <2>1 DEF Measured
    <2> QED
      BY <2>1, <2>2, <2>3 DEF HasValues, IsFailing, IsOutside, IsFairnessResponse
  <1> QED
    BY <1>2, <1>3, <1>4, <1>5 DEF Kinds

(* Failed is what the documentation calls breached, on the raw response. *)
LEMMA FailedIsBreached ==
    ASSUME NEW i, host.requests[i].kind \in Kinds,
           IsNormalizable(host.requests[i], fetched[i]),
           LET statistic == host.requests[i].statistic IN
           statistic = <<>> \/ statistic = <<statistic[1]>>
    PROVE  Measured(host.requests[i].kind, fetched[i]).isFailed <=> IsBreached(i)
  <1> DEFINE request == host.requests[i]
             r == fetched[i]
             k == request.kind
  <1>1. IsAnswer(request, r)
    BY DEF IsNormalizable
  <1>2. CASE k \in {"kstest", "comparemeans"}
    <2>1. ShapeOf[k] = "p-value"
      BY <1>2 DEF ShapeOf
    <2>2. IsPValueResponse(r) /\ Measured(k, r).isFailed = r.drift_detected
      BY <1>1, <2>1 DEF IsAnswer, Measured
    <2>3. IsBreached(i) <=> r.p_value < r.alpha
      BY <1>2 DEF IsBreached
    <2> QED
      BY <2>2, <2>3 DEF IsPValueResponse
  <1>3. CASE k = "jensenshannon"
    <2>1. ShapeOf[k] = "threshold"
      BY <1>3 DEF ShapeOf
    <2>2. IsJensenShannonResponse(r) /\ Measured(k, r).isFailed = r.drift_detected
          /\ r.statistic = Statistic(request)
      BY <1>1, <1>3, <2>1 DEF IsAnswer, Measured
    <2>3. IsBreached(i) <=> IF request.statistic = <<"divergence">>
                            THEN r.divergence > r.threshold ELSE r.distance > r.threshold
      BY <1>3 DEF IsBreached
    <2>4. request.statistic = <<"divergence">> <=> r.statistic = "divergence"
      <3>1. CASE request.statistic = <<>>
        BY <2>2, <3>1 DEF Statistic
      <3>2. CASE request.statistic = <<request.statistic[1]>>
        <4>1. request.statistic # <<>>
          BY <3>2
        <4>2. r.statistic = request.statistic[1]
          BY <2>2, <4>1 DEF Statistic
        <4> QED
          BY <3>2, <4>2
      <3> QED
        BY <3>1, <3>2
    <2>5. r.statistic \in {"distance", "divergence"}
      BY <2>2 DEF IsJensenShannonResponse
    <2> QED
      BY <2>2, <2>3, <2>4, <2>5 DEF IsJensenShannonResponse, Decisive
  <1>4. CASE k = "mmd"
    <2>1. ShapeOf[k] = "threshold"
      BY <1>4 DEF ShapeOf
    <2>2. IsThresholdResponse(r) /\ Measured(k, r).isFailed = r.drift_detected
      BY <1>1, <1>4, <2>1 DEF IsAnswer, Measured
    <2>3. IsBreached(i) <=> r.value > r.threshold
      BY <1>4 DEF IsBreached
    <2> QED
      BY <2>2, <2>3 DEF IsThresholdResponse
  <1>5. CASE k \in {"spd", "dir"}
    <2>1. ShapeOf[k] = "range"
      BY <1>5 DEF ShapeOf
    <2>2. IsFairnessResponse(r) /\ Measured(k, r).isFailed = r.outside
      BY <1>1, <2>1 DEF IsAnswer, Measured
    <2>3. IsBreached(i) <=> r.value < r.lower \/ r.value > r.upper
      BY <1>5 DEF IsBreached
    <2> QED
      BY <2>2, <2>3 DEF IsFairnessResponse
  <1> QED
    BY <1>2, <1>3, <1>4, <1>5 DEF Kinds

LEMMA EnvelopeMade ==
    ASSUME NEW request, request.kind \in Kinds, NEW r, IsNormalizable(request, r),
           time \in Nat
    PROVE  IsEnvelope(Normalize(request, r), request, r)
  <1> DEFINE item == Normalize(request, r)
             exchange == Exchange(request, r)
  <1>1. /\ item.id = <<request.kind, exchange>> /\ item.producer = request.endpoint
        /\ item.schema = request.kind /\ item.kind = request.kind
        /\ item.family = FamilyOf(request.kind)
        /\ item.correlation = (IF host.isCorrelated THEN "given"
                               ELSE OwnCorrelation(request, exchange))
        /\ item.subject = request.model /\ item.model = request.model
        /\ item.measured = Measured(request.kind, r)
        /\ item.status = (IF Measured(request.kind, r).isFailed THEN "failed" ELSE "passed")
        /\ item.confidence = host.confidence /\ item.artifact = exchange
        /\ item.located = FALSE /\ item.mode = "authenticated-compute-response"
        /\ item.observed = time /\ item.expires = time + Validity
    BY DEF Normalize
  <1> HIDE DEF item
  <1>2. exchange.kind = request.kind
    BY DEF Exchange
  <1>3. request.endpoint = request.kind
    BY DEF IsNormalizable
  <1>4. item.status = "failed" <=> Measured(request.kind, r).isFailed
    BY <1>1
  <1>5. item.status \in {"passed", "failed"}
    BY <1>1
  <1>6. KeepsContract(item)
    BY <1>1, <1>3, <1>4, <1>5, AdapterKeepsContract DEF KeepsContract
  <1>7. ~host.isCorrelated => item.correlation = <<item.model, item.artifact>>
    BY <1>1 DEF OwnCorrelation
  <1>8. item.id = <<item.artifact.kind, item.artifact>> /\ item.producer = item.artifact.kind
    BY <1>1, <1>2, <1>3
  <1>9. IsEnvelope(item, request, r)
    BY <1>1, <1>4, <1>6, <1>7, <1>8 DEF IsEnvelope
  <1> QED
    BY <1>9 DEF item

(* Two exchanges in one cycle are two. *)
LEMMA AdmissionParts ==
    ASSUME EnvelopesKept, ~RepeatsEvidence
    PROVE  ~SharesArtifact
  BY DEF EnvelopesKept, IsEnvelope, RepeatsEvidence, SharesArtifact

LEMMA CorrelationsDiffer ==
    ASSUME HostTyped, EnvelopesKept, ~RepeatsEvidence, OneCorrelation, ~host.isCorrelated
    PROVE  ~(Len(evidence) > 1)
  <1> SUFFICES ASSUME Len(evidence) > 1
               PROVE  FALSE
    OBVIOUS
  <1>1. Len(evidence) \in Nat /\ DOMAIN evidence = 1 .. Len(evidence)
    BY ListFacts DEF HostTyped
  <1>2. 1 \in DOMAIN evidence /\ 2 \in DOMAIN evidence
    BY <1>1
  <1> DEFINE C == {item.correlation : item \in Items}
  <1>3. IsFiniteSet(C)
    <2>1. IsFiniteSet(DOMAIN evidence)
      <3>1. IsFiniteSet(1 .. Len(evidence))
        BY <1>1, FS_Interval
      <3> QED
        BY <1>1, <3>1
    <2> DEFINE f == [i \in DOMAIN evidence |-> evidence[i].correlation]
    <2>2. C = {evidence[i].correlation : i \in DOMAIN evidence}
      BY DEF Items
    <2>3. f \in Surjection(DOMAIN evidence, C)
      BY <2>2 DEF Surjection
    <2> QED
      BY <2>1, <2>3, FS_Surjection
  <1>4. PICK x : C = {x}
    BY <1>3, FS_Singleton DEF OneCorrelation
  <1>5. evidence[1] \in Items /\ evidence[2] \in Items
    BY <1>2 DEF Items
  <1>6. evidence[1].correlation \in C /\ evidence[2].correlation \in C
    BY <1>5
  <1>7. evidence[1].correlation = evidence[2].correlation
    BY <1>4, <1>6
  <1>8. evidence[1].artifact = evidence[2].artifact
    BY <1>2, <1>7 DEF EnvelopesKept, IsEnvelope
  <1> QED
    BY <1>2, <1>8 DEF EnvelopesKept, IsEnvelope, RepeatsEvidence

-----------------------------------------------------------------------------
(* The ports of the pack. *)

(* The classifier makes one constraint of every breach. *)
LEMMA RuntimeConstraintsFacts ==
    ASSUME HostTyped
    PROVE  LET answer == RuntimeConstraints IN
           /\ IsList(answer)
           /\ \A n \in DOMAIN answer : \E i \in DOMAIN evidence :
                  IsBreach(evidence[i]) /\ answer[n] = RuntimeConstraint(evidence[i])
           /\ \A i \in DOMAIN evidence : IsBreach(evidence[i]) =>
                  \E n \in DOMAIN answer : answer[n] = RuntimeConstraint(evidence[i])
           /\ \A n \in DOMAIN answer : Cites(answer[n])
           /\ ~SharesArtifact =>
                  \A n, k \in DOMAIN answer : answer[n].id = answer[k].id => n = k
           /\ answer = <<>> <=> \A i \in DOMAIN evidence : ~IsBreach(evidence[i])
  <1> DEFINE P == {i \in DOMAIN evidence : IsBreach(evidence[i])}
             f == [i \in DOMAIN evidence |-> RuntimeConstraint(evidence[i])]
             answer == RuntimeConstraints
             places == InOrder(P)
  <1>1. Len(evidence) \in Nat /\ DOMAIN evidence = 1 .. Len(evidence)
    BY ListFacts DEF HostTyped
  <1>2. P \in SUBSET DOMAIN evidence
    OBVIOUS
  <1>3. \A n \in DOMAIN places : places[n] \in P
    BY <1>1, <1>2, InOrderFacts
  <1>4. answer = Picked(P, f)
    <2>1. answer = [n \in DOMAIN places |-> RuntimeConstraint(evidence[places[n]])]
      BY DEF RuntimeConstraints, Breaches
    <2>2. \A n \in DOMAIN places : f[places[n]] = RuntimeConstraint(evidence[places[n]])
      BY <1>3
    <2> HIDE DEF f, answer
    <2> QED
      BY <2>1, <2>2 DEF Picked
  <1> HIDE DEF answer, P, f
  <1>5. /\ IsList(answer)
        /\ \A n \in DOMAIN answer : \E i \in P : answer[n] = f[i]
        /\ \A i \in P : \E n \in DOMAIN answer : answer[n] = f[i]
        /\ (\A i, j \in P : f[i].id = f[j].id => i = j) =>
               \A n, k \in DOMAIN answer : answer[n].id = answer[k].id => n = k
        /\ answer = <<>> <=> P = {}
    <2> DEFINE picked == Picked(P, f)
    <2>1. /\ IsList(picked)
          /\ \A n \in DOMAIN picked : \E i \in P : picked[n] = f[i]
          /\ \A i \in P : \E n \in DOMAIN picked : picked[n] = f[i]
          /\ (\A i, j \in P : f[i].id = f[j].id => i = j) =>
                 \A n, k \in DOMAIN picked : picked[n].id = picked[k].id => n = k
          /\ picked = <<>> <=> P = {}
      BY <1>1, <1>2, PickedList, Zenon
    <2> QED
      BY <1>4, <2>1
  <1>6. \A i \in P : i \in DOMAIN evidence /\ f[i] = RuntimeConstraint(evidence[i])
    BY DEF P, f
  <1>7. \A n \in DOMAIN answer : Cites(answer[n])
    <2>1. \A i \in DOMAIN evidence : Cites(RuntimeConstraint(evidence[i]))
      BY DEF Cites, RuntimeConstraint, Known, Items
    <2> QED
      BY <1>5, <1>6, <2>1
  <1>8. ASSUME ~SharesArtifact, NEW i \in P, NEW j \in P, f[i].id = f[j].id
        PROVE  i = j
    <2>1. \A item : RuntimeConstraint(item).id[4] = item.artifact
      BY DEF RuntimeConstraint
    <2>2. /\ f[i].id[4] = evidence[i].artifact /\ f[j].id[4] = evidence[j].artifact
      BY <1>6, <2>1
    <2> QED
      BY <1>6, <1>8, <2>2 DEF SharesArtifact
  <1>9. \A i \in DOMAIN evidence : i \in P <=> IsBreach(evidence[i])
    BY DEF P
  <1>10. P = {} <=> \A i \in DOMAIN evidence : ~IsBreach(evidence[i])
    BY DEF P
  <1> QED
    BY <1>5, <1>6, <1>7, <1>8, <1>9, <1>10 DEF answer

(* The pack judges the evidence that is kept. *)
LEMMA SamePack ==
    ASSUME evidence' = evidence, host' = host
    PROVE  /\ TrustyAiEvidencePolicy' = TrustyAiEvidencePolicy
           /\ RuntimeConstraints' = RuntimeConstraints
  BY DEF TrustyAiEvidencePolicy, RuntimeConstraints, Breaches, Items, Known

(* The evidence of a cycle is what the kernel takes. *)
LEMMA EvidenceAdmitted ==
    ASSUME TrustyInv, gate \in Deciding
    PROVE  IsEvidence(evidence)
  <1>1. HostInv /\ IsFresh /\ ~SharesArtifact
    BY DEF TrustyInv, PortsInv, FreshEvidence, Admitted, HostInv, AdmittedApart, InKernel,
       Deciding
  <1>2. evidence # <<>>
    <2>1. Len(evidence) = Len(host.requests)
      BY <1>1 DEF HostInv, InStep, Deciding
    <2>2. Len(host.requests) # 0
      BY <1>1, RequestsAssumption DEF HostInv, HostTyped
    <2> QED
      BY <1>1, <2>1, <2>2, ListFacts DEF HostInv, HostTyped
  <1>3. \A i \in DOMAIN evidence : IsEnvelope(evidence[i], host.requests[i], fetched[i])
    BY <1>1 DEF HostInv, EnvelopesKept
  <1>4. ASSUME NEW i \in DOMAIN evidence, NEW j \in DOMAIN evidence,
               evidence[i].id = evidence[j].id
        PROVE  i = j
    BY <1>1, <1>3, <1>4 DEF IsEnvelope, SharesArtifact
  <1>5. \A i \in DOMAIN evidence : evidence[i].expires \in Int /\ Now < evidence[i].expires
    BY <1>1, <1>3, TrustyAiAssumption DEF IsEnvelope, IsFresh, Items
  <1> QED
    BY <1>2, <1>4, <1>5 DEF IsEvidence

-----------------------------------------------------------------------------
(* Each step keeps the invariant. *)

LEMMA TrustyInit == TrustyAiInit => TrustyInv
  <1> SUFFICES ASSUME TrustyAiInit
               PROVE  TrustyInv
    OBVIOUS
  <1>1. HostTyped
    BY EmptyList DEF TrustyAiInit, HostTyped
  <1>2. InStep
    <2>1. Len(host.requests) \in Nat \ {0}
      BY RequestsAssumption DEF TrustyAiInit
    <2> QED
      BY <2>1, EmptyList DEF TrustyAiInit, InStep
  <1>3. Unasked
    BY DEF TrustyAiInit, Unasked
  <1>4. GatesInv /\ PortsInv
    BY <1>3, BeforeCycle DEF TrustyAiInit, Preparing
  <1> QED
    BY <1>1, <1>2, <1>3, <1>4, EmptyList
       DEF TrustyAiInit, TrustyInv, HostInv, NotYetAsked, EnvelopesKept, PackAnswers,
           AdmittedApart, OwnCorrelationsNeverMeet, InKernel

(* The host waits, or nothing happens. *)
LEMMA EvidenceKept ==
    ASSUME HostInv, UNCHANGED <<host, fetched, evidence>>
    PROVE  /\ EnvelopesKept' /\ SharesArtifact' = SharesArtifact
           /\ host' \in Hosts /\ IsList(fetched') /\ IsList(evidence')
  BY DEF HostInv, HostTyped, EnvelopesKept, IsEnvelope, SharesArtifact

LEMMA WaitingStep ==
    ASSUME TrustyInv, UNCHANGED <<vars, host, fetched>>, time' \in Nat
    PROVE  TrustyInv'
  <1>1. /\ UNCHANGED <<gate, evidence, policies, round, classified, objective, plan,
                       checks, package>>
        /\ UNCHANGED <<host, fetched>> /\ UNCHANGED vars
    BY DEF vars
  <1>2. GatesInv' /\ PortsInv'
    BY <1>1, Stuttering, PortsStutter DEF TrustyInv
  <1>3. /\ EnvelopesKept' /\ SharesArtifact' = SharesArtifact /\ HostTyped'
        /\ TrustyAiEvidencePolicy' = TrustyAiEvidencePolicy
        /\ RuntimeConstraints' = RuntimeConstraints
    BY <1>1, EvidenceKept, SamePack DEF TrustyInv, HostTyped
  <1> QED
    BY <1>1, <1>2, <1>3
       DEF TrustyInv, HostInv, InStep, NotYetAsked, Unasked, PackAnswers, AdmittedApart,
           OwnCorrelationsNeverMeet, InKernel

LEMMA ReceiveStep ==
    ASSUME TrustyInv, NEW r \in Responses, Receive(r)
    PROVE  TrustyInv'
  <1> DEFINE request == host.requests[Len(fetched')]
             item == Normalize(request, r)
             n == Len(fetched) + 1
  <1>1. /\ gate = "receive" /\ fetched' = Append(fetched, r)
        /\ UNCHANGED <<host, time, policies, round, classified, objective, plan, checks,
                       package>>
    BY DEF Receive, Stay
  <1>2. /\ IsList(fetched') /\ Len(fetched) \in Nat /\ Len(fetched') = n
        /\ DOMAIN fetched = 1 .. Len(fetched) /\ fetched'[n] = r
        /\ \A i \in DOMAIN fetched : fetched'[i] = fetched[i]
    BY <1>1, AppendList DEF TrustyInv, HostInv, HostTyped
  <1>3. /\ IsList(evidence) /\ Len(evidence) = Len(fetched)
        /\ DOMAIN evidence = 1 .. Len(evidence) /\ host \in Hosts /\ time \in Nat
        /\ Len(fetched) < Len(host.requests)
    BY <1>1, ListFacts DEF TrustyInv, HostInv, HostTyped, InStep
  <1>4. request = host.requests[n] /\ request.kind \in Kinds
    BY <1>2, <1>3, RequestsAssumption
  <1>5. Unasked'
    BY <1>1 DEF TrustyInv, HostInv, NotYetAsked, Unasked, Preparing
  <1>6. \A i \in DOMAIN evidence :
            IsEnvelope(evidence[i], host.requests[i], fetched'[i])
    BY <1>2, <1>3 DEF TrustyInv, HostInv, EnvelopesKept
  <1>7. CASE ~IsNormalizable(request, r)
    <2>1. gate' = "refused" /\ evidence' = evidence
      BY <1>7 DEF Receive
    <2>2. EnvelopesKept'
      BY <1>1, <1>6, <2>1 DEF EnvelopesKept, IsEnvelope
    <2>3. GatesInv' /\ PortsInv'
      BY <1>5, <2>1, BeforeCycleNext DEF Preparing
    <2> QED
      BY <1>1, <1>2, <1>3, <1>5, <2>1, <2>2, <2>3
         DEF TrustyInv, HostInv, HostTyped, InStep, NotYetAsked, Unasked, PackAnswers,
             AdmittedApart, InKernel, OwnCorrelationsNeverMeet
  <1>8. CASE IsNormalizable(request, r)
    <2>1. /\ evidence' = Append(evidence, item)
          /\ gate' = IF Len(fetched') < Len(host.requests) THEN "receive" ELSE "run"
      BY <1>8 DEF Receive
    <2>2. IsEnvelope(item, host.requests[n], r)
      BY <1>3, <1>4, <1>8, EnvelopeMade
    <2> HIDE DEF item
    <2>3. /\ IsList(evidence') /\ Len(evidence') = n
          /\ DOMAIN evidence' = 1 .. n
          /\ \A i \in DOMAIN evidence : evidence'[i] = evidence[i]
          /\ evidence'[n] = item
      BY <1>2, <1>3, <2>1, AppendList
    <2>4. EnvelopesKept'
      <3>1. SUFFICES ASSUME NEW i \in DOMAIN evidence'
                     PROVE  IsEnvelope(evidence[i], host.requests[i], fetched[i])'
        BY DEF EnvelopesKept
      <3>2. CASE i \in DOMAIN evidence
        BY <1>1, <1>6, <2>3, <3>2 DEF IsEnvelope
      <3>3. CASE i = n
        BY <1>1, <1>2, <2>2, <2>3, <3>3 DEF IsEnvelope
      <3> QED
        BY <1>2, <1>3, <2>3, <3>2, <3>3
    <2>5. Len(host.requests) \in Nat
      BY <1>3, RequestsAssumption
    <2>6. gate' \in {"receive", "run"} /\ InStep'
      BY <1>1, <1>2, <1>3, <2>1, <2>3, <2>5 DEF InStep
    <2>7. GatesInv' /\ PortsInv'
      BY <1>5, <2>6, BeforeCycleNext DEF Preparing
    <2> QED
      BY <1>1, <1>2, <1>3, <1>5, <2>3, <2>4, <2>6, <2>7
         DEF TrustyInv, HostInv, HostTyped, NotYetAsked, Unasked, PackAnswers,
             AdmittedApart, InKernel, OwnCorrelationsNeverMeet
  <1> QED
    BY <1>7, <1>8

LEMMA ComputeFailsStep == ASSUME TrustyInv, ComputeFails PROVE TrustyInv'
  <1>1. /\ gate = "receive" /\ gate' = "refused"
        /\ UNCHANGED <<evidence, host, time, fetched, policies, round, classified,
                       objective, plan, checks, package>>
    BY DEF ComputeFails, Stay
  <1>2. Unasked'
    BY <1>1 DEF TrustyInv, HostInv, NotYetAsked, Unasked, Preparing
  <1>3. GatesInv' /\ PortsInv'
    BY <1>1, <1>2, BeforeCycleNext DEF Preparing
  <1>4. EnvelopesKept' /\ HostTyped'
    BY <1>1, EvidenceKept DEF TrustyInv, HostInv, HostTyped
  <1> QED
    BY <1>1, <1>2, <1>3, <1>4
       DEF TrustyInv, HostInv, InStep, NotYetAsked, Unasked, PackAnswers, AdmittedApart,
           InKernel, OwnCorrelationsNeverMeet

LEMMA RunStep == ASSUME TrustyInv, Run PROVE TrustyInv'
  <1>1. /\ gate = "run" /\ gate' = Admission
        /\ UNCHANGED <<evidence, host, time, fetched, policies, round, classified,
                       objective, plan, checks, package>>
    BY DEF Run, Stay
  <1>2. Unasked'
    BY <1>1 DEF TrustyInv, HostInv, NotYetAsked, Unasked, Preparing
  <1>3. /\ EnvelopesKept' /\ HostTyped' /\ SharesArtifact' = SharesArtifact
        /\ IsFresh' = IsFresh
    BY <1>1, EvidenceKept, SamePorts DEF TrustyInv, HostInv, HostTyped
  <1>4. InStep'
    BY <1>1 DEF TrustyInv, HostInv, InStep, Admission
  <1>5. CASE gate' = "refused"
    <2>1. GatesInv' /\ PortsInv'
      BY <1>2, <1>5, BeforeCycleNext DEF Preparing
    <2> QED
      BY <1>1, <1>2, <1>3, <1>4, <1>5, <2>1
         DEF TrustyInv, HostInv, NotYetAsked, Unasked, PackAnswers, AdmittedApart,
             InKernel, OwnCorrelationsNeverMeet
  <1>6. CASE gate' # "refused"
    <2>1. OneCorrelation /\ ~RepeatsEvidence
          /\ gate' = IF IsFresh THEN "policy" ELSE "rejected"
      BY <1>1, <1>6 DEF Admission, IsFresh
    <2>2. GatesInv' /\ PortsInv'
      BY <1>2, <1>3, <2>1, BeforeCycleNext
    <2>3. ~SharesArtifact'
      BY <1>3, <2>1, AdmissionParts DEF TrustyInv, HostInv
    <2>4. OwnCorrelationsNeverMeet'
      BY <1>1, <2>1, CorrelationsDiffer DEF TrustyInv, HostInv, OwnCorrelationsNeverMeet
    <2> QED
      BY <1>2, <1>3, <1>4, <2>1, <2>2, <2>3, <2>4
         DEF TrustyInv, HostInv, NotYetAsked, Unasked, PackAnswers, AdmittedApart
  <1> QED
    BY <1>5, <1>6

(* In the kernel only the answers of the ports and the gate change. *)
LEMMA KernelKeepsHost ==
    ASSUME HostInv, gate \notin Preparing, gate' \notin Preparing, PackAnswers',
           UNCHANGED <<host, time, fetched, evidence>>
    PROVE  HostInv'
  <1>1. EnvelopesKept' /\ HostTyped' /\ SharesArtifact' = SharesArtifact
    BY EvidenceKept DEF HostInv, HostTyped
  <1> QED
    BY <1>1 DEF HostInv, InStep, NotYetAsked, AdmittedApart, InKernel,
       OwnCorrelationsNeverMeet, Preparing

LEMMA InCycleStep == ASSUME TrustyInv, InCycle PROVE TrustyInv'
  <1>1. GatesInv /\ PortsInv /\ HostInv /\ UNCHANGED <<host, time, fetched>>
    BY DEF TrustyInv, InCycle
  <1>2. ASSUME evidence' = evidence
        PROVE  /\ TrustyAiEvidencePolicy' = TrustyAiEvidencePolicy
               /\ RuntimeConstraints' = RuntimeConstraints
    BY <1>1, <1>2, SamePack
  <1>3. CASE EvaluatePolicy(TrustyAiEvidencePolicy)
    <2> DEFINE answer == TrustyAiEvidencePolicy
    <2>1. Cites(answer)
      BY DEF TrustyAiEvidencePolicy, Cites
    <2>2. \A i \in DOMAIN policies : policies[i] = answer
      BY <1>1 DEF HostInv, PackAnswers
    <2> HIDE DEF answer
    <2>3. GatesInv' /\ PortsInv' /\ gate \notin Preparing /\ gate' \notin Preparing
      BY <1>1, <1>3, <2>1, PolicyPort, EvaluatePolicyStep, KernelSteps DEF answer
    <2>4. /\ \A i \in DOMAIN policies' : policies'[i] = answer
          /\ UNCHANGED <<evidence, round, classified>>
      BY <1>1, <1>3, <2>2, OneMorePolicy DEF answer
    <2>5. PackAnswers'
      BY <1>1, <1>2, <2>4 DEF HostInv, PackAnswers, answer
    <2> QED
      BY <1>1, <2>3, <2>4, <2>5, KernelKeepsHost DEF TrustyInv
  <1>4. CASE Classify(RuntimeConstraints)
    <2> DEFINE answer == RuntimeConstraints
    <2>1. /\ IsList(answer) /\ \A n \in DOMAIN answer : Cites(answer[n])
          /\ ~SharesArtifact =>
                 \A n, k \in DOMAIN answer : answer[n].id = answer[k].id => n = k
      BY <1>1, RuntimeConstraintsFacts DEF HostInv
    <2>2. Classify(answer) /\ UNCHANGED <<evidence, policies>>
      BY <1>4 DEF Classify
    <2> HIDE DEF answer
    <2>3. GatesInv' /\ PortsInv' /\ classified' = answer
      BY <1>1, <2>1, <2>2, ClassifierPort, ClassifyStep
    <2>4. PackAnswers'
      BY <1>1, <1>2, <2>2, <2>3 DEF HostInv, PackAnswers, answer
    <2>5. gate \notin Preparing /\ gate' \notin Preparing
      BY <2>2, KernelSteps
    <2> QED
      BY <1>1, <2>2, <2>3, <2>4, <2>5, KernelKeepsHost DEF TrustyInv
  <1>5. CASE SharedNext
    <2>1. /\ GatesInv' /\ PortsInv'
          /\ UNCHANGED <<evidence, policies, round, classified>>
      BY <1>1, <1>5, EvidenceAdmitted, SharedSteps DEF TrustyInv, Deciding
    <2>2. PackAnswers'
      BY <1>1, <1>2, <2>1 DEF HostInv, PackAnswers
    <2>3. gate \notin Preparing /\ gate' \notin Preparing
      BY <1>5, KernelSteps
    <2> QED
      BY <1>1, <2>1, <2>2, <2>3, KernelKeepsHost DEF TrustyInv
  <1> QED
    BY <1>3, <1>4, <1>5 DEF InCycle, SharedNext

LEMMA TrustyStep == TrustyInv /\ [TrustyAiNext]_trustyVars => TrustyInv'
  <1> SUFFICES ASSUME TrustyInv, [TrustyAiNext]_trustyVars
               PROVE  TrustyInv'
    OBVIOUS
  <1>1. ASSUME NEW r \in Responses, Receive(r)
        PROVE  TrustyInv'
    BY <1>1, ReceiveStep
  <1>2. CASE ComputeFails
    BY <1>2, ComputeFailsStep
  <1>3. CASE Run
    BY <1>3, RunStep
  <1>4. CASE Tick \/ Refused \/ UNCHANGED trustyVars
    <2>1. time \in Nat
      BY DEF TrustyInv, HostInv, HostTyped
    <2> QED
      BY <1>4, <2>1, WaitingStep DEF Tick, Refused, trustyVars
  <1>5. CASE InCycle
    BY <1>5, InCycleStep
  <1> QED
    BY <1>1, <1>2, <1>3, <1>4, <1>5 DEF TrustyAiNext

(* The invariant of the whole. *)
THEOREM TrustyInvariance == TrustyAiSpec => []TrustyInv
  BY TrustyInit, TrustyStep, PTL DEF TrustyAiSpec

-----------------------------------------------------------------------------
(* The properties. *)

LEMMA CauseOfRejection == TrustyInv => RejectedForCause
  <1> SUFFICES ASSUME TrustyInv, gate = "rejected", policies # <<>>
               PROVE  host.confidence < MinConfidence \/ ~host.isTrusted
    BY DEF RejectedForCause
  <1>1. PICK i \in DOMAIN policies : ~policies[i].allowed
    BY DEF TrustyInv, PortsInv, DenialsDecide
  <1>2. ~TrustyAiEvidencePolicy.allowed
    BY <1>1 DEF TrustyInv, HostInv, PackAnswers
  <1>3. \A item \in Items : KeepsContract(item) /\ item.confidence = host.confidence
    BY DEF TrustyInv, HostInv, EnvelopesKept, IsEnvelope, Items
  <1> QED
    BY <1>2, <1>3 DEF TrustyAiEvidencePolicy, BelowFloor

(* For every response with any numbers and bounds in it, the policy pack    *)
(* reads the verdict the adapter wrote: a cycle is turned down only for     *)
(* what the host set (adapters/trustyai_service.py:146-218,                 *)
(* policy_packs/trustyai_service.py:68-135).                                *)
THEOREM AdapterAndPackAgree == TrustyAiSpec => []RejectedForCause
  BY TrustyInvariance, CauseOfRejection, PTL

(* No two metrics of a source without a correlation id make a cycle         *)
(* (adapters/trustyai_service.py:426-429, kernel.py:226-229).               *)
THEOREM MetricsStayApart == TrustyAiSpec => []OwnCorrelationsNeverMeet
  <1>1. TrustyInv => OwnCorrelationsNeverMeet
    BY DEF TrustyInv, HostInv
  <1> QED
    BY <1>1, TrustyInvariance, PTL

(* Within a cycle no two envelopes carry one digest, and no port raises     *)
(* (kernel.py:230-234, policy_packs/trustyai_service.py:159-190, 241).      *)
THEOREM ExchangesStayDistinct == TrustyAiSpec => []ExchangesDiffer
  <1>1. TrustyInv => ExchangesDiffer
    BY DEF TrustyInv, PortsInv, HostInv, AdmittedApart, RaisesOnlyOnSharedArtifact,
           ExchangesDiffer
  <1> QED
    BY <1>1, TrustyInvariance, PTL

(* What the documentation calls breached is what the classifier picks. *)
LEMMA BreachIsBreached ==
    ASSUME TrustyInv, InKernel, NEW i \in DOMAIN evidence
    PROVE  IsBreach(evidence[i]) <=> IsBreached(i)
  <1> DEFINE request == host.requests[i]
  <1>1. IsEnvelope(evidence[i], request, fetched[i]) /\ host \in Hosts
    BY DEF TrustyInv, HostInv, HostTyped, EnvelopesKept
  <1>2. i \in DOMAIN host.requests
    <2>1. Len(evidence) = Len(host.requests)
      BY DEF TrustyInv, HostInv, InStep, InKernel
    <2>2. DOMAIN evidence = 1 .. Len(evidence)
      BY ListFacts DEF TrustyInv, HostInv, HostTyped
    <2> QED
      BY <1>1, <2>1, <2>2, RequestsAssumption
  <1>3. request.kind \in Kinds /\ LET statistic == request.statistic IN
                                  statistic = <<>> \/ statistic = <<statistic[1]>>
    BY <1>1, <1>2, RequestsAssumption
  <1>4. Measured(request.kind, fetched[i]).isFailed <=> IsBreached(i)
    BY <1>1, <1>3, FailedIsBreached DEF IsEnvelope
  <1> QED
    BY <1>1, <1>3, <1>4 DEF IsEnvelope, IsBreach

LEMMA QuietHold == TrustyInv => QuietMetricsHold
  <1> SUFFICES ASSUME TrustyInv, gate = "no_candidate"
               PROVE  /\ Len(fetched) = Len(host.requests)
                      /\ \A i \in DOMAIN evidence :
                             ~IsBreached(i) /\ evidence[i].observed + Validity > Now
    <2>1. DOMAIN evidence = 1 .. Len(evidence)
      BY ListFacts DEF TrustyInv, HostInv, HostTyped
    <2> QED
      BY <2>1 DEF QuietMetricsHold, Received
  <1>1. HostTyped /\ PortsInv /\ InKernel /\ Len(fetched) = Len(host.requests)
    BY DEF TrustyInv, HostInv, InStep, InKernel
  <1>2. classified = RuntimeConstraints
    BY <1>1 DEF PortsInv, ClassifiedOnce, TrustyInv, HostInv, PackAnswers
  <1>3. classified = <<>>
    <2> SUFFICES ASSUME Governed = {}, NEW i \in DOMAIN evidence, IsBreach(evidence[i])
                 PROVE  FALSE
      BY <1>1, <1>2, RuntimeConstraintsFacts DEF PortsInv, NoneGoverned
    <2>1. RuntimeConstraint(evidence[i]) \in Constraints
      BY <1>1, <1>2, RuntimeConstraintsFacts DEF Constraints
    <2>2. evidence[i] \in Governed
      BY <2>1, PackAssumption DEF Governed, RuntimeConstraint, Items
    <2> QED
      BY <2>2
  <1>4. \A i \in DOMAIN evidence : ~IsBreached(i)
    BY <1>1, <1>2, <1>3, RuntimeConstraintsFacts, BreachIsBreached
  <1>5. ASSUME NEW i \in DOMAIN evidence
        PROVE  evidence[i].observed + Validity > Now
    <2>1. evidence[i].observed \in Int
          /\ evidence[i].expires = evidence[i].observed + Validity
      BY DEF TrustyInv, HostInv, EnvelopesKept, IsEnvelope
    <2>2. Now < evidence[i].expires
      BY <1>1 DEF PortsInv, FreshEvidence, Admitted, IsFresh, Items
    <2> QED
      BY <2>1, <2>2, TrustyAiAssumption
  <1> QED
    BY <1>1, <1>4, <1>5

(* A cycle that asks for nothing has only metrics within their documented   *)
(* bounds, and all of them still valid (adapters/trustyai_service.py:       *)
(* 248-450, policy_packs/trustyai_service.py:193-252).                      *)
THEOREM QuietCyclesHold == TrustyAiSpec => []QuietMetricsHold
  BY TrustyInvariance, QuietHold, PTL

LEMMA BreachesCovered == TrustyInv => BreachesAreReviewed
  <1> SUFFICES ASSUME TrustyInv, gate = "packaged"
               PROVE  BreachesAreReviewed
    BY DEF BreachesAreReviewed
  <1> DEFINE chosen == CHOOSE c \in package.candidates : c.id = package.selected
             ConstraintsOf(i) == {k \in package.constraints : evidence[i].artifact \in k.refs}
  <1>1. HostTyped /\ PortsInv /\ InKernel /\ ~SharesArtifact
    BY DEF TrustyInv, HostInv, AdmittedApart, InKernel
  <1>2. /\ chosen = Review /\ package.constraints = Constraints
        /\ Review.action = "request_review"
    BY <1>1, PackagedReview
  <1>3. classified = RuntimeConstraints
    BY <1>1 DEF PortsInv, ClassifiedOnce, TrustyInv, HostInv, PackAnswers
  <1>4. \A k : k \in Constraints <=>
            \E j \in DOMAIN evidence : IsBreach(evidence[j]) /\ k = RuntimeConstraint(evidence[j])
    BY <1>1, <1>3, RuntimeConstraintsFacts DEF Constraints
  <1>5. \A item : RuntimeConstraint(item).refs = {item.artifact}
                  /\ RuntimeConstraint(item).hard
    BY DEF RuntimeConstraint
  <1> HIDE DEF chosen
  <1>6. ASSUME NEW i \in DOMAIN evidence
        PROVE  /\ Cardinality(ConstraintsOf(i)) = IF IsBreached(i) THEN 1 ELSE 0
               /\ \A k \in ConstraintsOf(i) : k.hard /\ k.id \in chosen.constraints
    <2>1. \A k \in ConstraintsOf(i) :
              /\ k \in Constraints /\ k.hard
              /\ IsBreach(evidence[i]) /\ k = RuntimeConstraint(evidence[i])
      <3> SUFFICES ASSUME NEW k \in ConstraintsOf(i)
                   PROVE  /\ k \in Constraints /\ k.hard
                          /\ IsBreach(evidence[i]) /\ k = RuntimeConstraint(evidence[i])
        OBVIOUS
      <3>1. k \in Constraints /\ evidence[i].artifact \in k.refs
        BY <1>2
      <3>2. PICK j \in DOMAIN evidence :
                IsBreach(evidence[j]) /\ k = RuntimeConstraint(evidence[j])
        BY <1>4, <3>1
      <3>3. i = j
        BY <1>1, <1>5, <3>1, <3>2 DEF SharesArtifact
      <3> QED
        BY <1>5, <3>1, <3>2, <3>3
    <2>2. CASE IsBreach(evidence[i])
      <3>1. RuntimeConstraint(evidence[i]) \in ConstraintsOf(i)
        BY <1>2, <1>4, <1>5, <2>2
      <3>2. ConstraintsOf(i) = {RuntimeConstraint(evidence[i])}
        BY <2>1, <3>1
      <3>3. Cardinality(ConstraintsOf(i)) = 1
        BY <3>2, FS_Singleton
      <3> QED
        BY <1>1, <1>2, <2>1, <2>2, <3>3, BreachIsBreached, ReviewCovers
    <2>3. CASE ~IsBreach(evidence[i])
      <3>1. ConstraintsOf(i) = {}
        BY <2>1, <2>3
      <3>2. Cardinality(ConstraintsOf(i)) = 0
        BY <3>1, FS_EmptySet
      <3> QED
        BY <1>1, <2>3, <3>1, <3>2, BreachIsBreached
    <2> QED
      BY <2>2, <2>3
  <1>7. Received = DOMAIN evidence
    BY <1>1, ListFacts DEF HostTyped, Received
  <1> QED
    BY <1>2, <1>6, <1>7 DEF BreachesAreReviewed, chosen

(* The breached metrics of a packaged cycle, and only they, are its         *)
(* constraints, one each and hard, and the selected review covers them      *)
(* (policy_packs/trustyai_service.py:193-252, builtin.py:257-348).          *)
THEOREM BreachesCauseReview == TrustyAiSpec => []BreachesAreReviewed
  BY TrustyInvariance, BreachesCovered, PTL

=============================================================================
