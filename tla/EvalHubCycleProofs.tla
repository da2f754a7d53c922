-------------------------- MODULE EvalHubCycleProofs --------------------------
(***************************************************************************)
(* From EvalHub jobs to a verdict, for any hubs and hosts: a cycle that    *)
(* asks for nothing had only jobs that completed and passed, every job     *)
(* that did not is covered by the proposed review, and the policy pack     *)
(* turns a cycle down only for what one of its jobs lacks or a URL the     *)
(* host does not trust.  The inductive invariant says that each envelope is what normalize_evalhub_job makes   *)
(* of the job fetched in its place, what the verification has collected    *)
(* for it, and what the ports of the pack have answered; what the gates    *)
(* and the built-in ports establish is in CycleGatesProofs and             *)
(* StandaloneCycleProofs.                                                  *)
(***************************************************************************)
EXTENDS EvalHubCycle, StandaloneCycleProofs

InKernel == gate \notin Preparing

HostTyped ==
    /\ host \in Hosts /\ time \in Nat /\ time <= Now
    /\ IsList(fetched) /\ IsList(evidence) /\ IsList(receipts)

(* One envelope for each job, until all of them are there. *)
InStep ==
    /\ Len(receipts) = Len(evidence)
    /\ gate # "refused" => Len(fetched) = Len(evidence)
    /\ gate = "receive" => Len(fetched) < host.requests
    /\ gate \notin {"receive", "refused"} => Len(fetched) = host.requests
NotYetAsked == gate \in Preparing => Unasked

EnvelopesKept ==
    \A i \in DOMAIN evidence :
        /\ fetched[i] \in Jobs[host.hub]
        /\ IsNormalizable(fetched[i])
        /\ evidence[i] = Normalize(fetched[i], i)

(* Receipts are of artifacts of their envelope and not from the future, and *)
(* no job goes into the cycle with only some of its artifacts verified.     *)
ReceiptsKept ==
    /\ \A i \in DOMAIN receipts : \A r \in receipts[i] :
           r.digest \in PinnedDigests(evidence[i]) /\ r.at \in Nat /\ r.at <= Now
    /\ gate = "receive" => \A i \in DOMAIN receipts : receipts[i] = {}
    /\ InKernel \/ gate = "run" =>
           \A i \in DOMAIN receipts : receipts[i] = {} \/ Unverified(i) = {}

(* What the ports of the pack have answered. *)
PackAnswers ==
    /\ policies # <<>> => ~SharesArtifact
    /\ \A i \in DOMAIN policies : policies[i] = EvalHubEvidencePolicy
    /\ round = 1 => classified = PromotionConstraints

(* Past the kernel's evidence gates the scope of the cycle is that of all. *)
ScopeKept ==
    gate \in Admitted \/ policies # <<>> => \A item \in Items : item.scope = host.cycle

HostInv ==
    /\ HostTyped
    /\ InStep
    /\ NotYetAsked
    /\ EnvelopesKept
    /\ ReceiptsKept
    /\ PackAnswers
    /\ ScopeKept
    /\ OwnCorrelationsNeverMeet

EvalHubInv == GatesInv /\ PortsInv /\ HostInv

-----------------------------------------------------------------------------
(* The adapter. *)

(* The artifacts of a job are the benchmarks that have one. *)
LEMMA OciArtifactsFacts ==
    ASSUME NEW job, IsList(job.benchmarks)
    PROVE  LET artifacts == OciArtifacts(job) IN
           /\ \A n \in DOMAIN artifacts : \E k \in DOMAIN job.benchmarks :
                  IsPinned(job.benchmarks[k]) /\ artifacts[n] = job.benchmarks[k]
           /\ \A k \in DOMAIN job.benchmarks : IsPinned(job.benchmarks[k]) =>
                  \E n \in DOMAIN artifacts : artifacts[n] = job.benchmarks[k]
           /\ artifacts = <<>> <=>
                  \A k \in DOMAIN job.benchmarks : ~IsPinned(job.benchmarks[k])
  <1> DEFINE P == {k \in DOMAIN job.benchmarks : IsPinned(job.benchmarks[k])}
             f == job.benchmarks
             picked == Picked(P, f)
  <1>1. P \in SUBSET DOMAIN job.benchmarks /\ Len(job.benchmarks) \in Nat
        /\ DOMAIN job.benchmarks = 1 .. Len(job.benchmarks)
    BY ListFacts
  <1>2. /\ \A n \in DOMAIN picked : \E k \in P : picked[n] = f[k]
        /\ \A k \in P : \E n \in DOMAIN picked : picked[n] = f[k]
        /\ picked = <<>> <=> P = {}
    <2> HIDE DEF P
    <2> QED
      BY <1>1, PickedList, Zenon
  <1>3. OciArtifacts(job) = picked
    BY DEF OciArtifacts, Picked
  <1>4. \A k : k \in P <=> k \in DOMAIN f /\ IsPinned(f[k])
    OBVIOUS
  <1> HIDE DEF P, picked
  <1> QED
    BY <1>2, <1>3, <1>4

(* What the source is known to have given the host. *)
LEMMA JobTyped ==
    ASSUME HostTyped, EnvelopesKept, NEW i \in DOMAIN evidence
    PROVE  LET job == fetched[i] IN
           /\ job.updated \in Int /\ job.test \in {"none", "pass", "fail"}
           /\ IsList(job.benchmarks) /\ job.state \in Terminal
  BY HostAssumption DEF HostTyped, EnvelopesKept, IsNormalizable, IsList

(* The fields of an envelope. *)
LEMMA EnvelopeFields ==
    ASSUME NEW job, NEW request
    PROVE  LET item == Normalize(job, request)
               complete == HasCompleteOci(job) IN
           /\ item.id = <<JobUrl(request), job.resource>> /\ item.job = job.resource
           /\ item.producer = JobUrl(request) /\ item.schema = JobSchema
           /\ item.revision = ApiRevision /\ item.scope = host.scope
           /\ item.correlation = Correlation(job)
           /\ item.status = MeasuredStatus(job) /\ item.confidence = host.confidence
           /\ item.observed = job.updated /\ item.expires = job.updated + Validity
           /\ item.state = job.state /\ item.kind = ResultKind(job)
           /\ (item.tested <=> job.test # "none")
           /\ item.artifacts = OciArtifacts(job) /\ item.response = ResponseDigest(job)
           /\ item.mode = (IF complete THEN "oci-manifest" ELSE "authenticated-api-response")
           /\ item.artifact = (IF complete THEN OciDigest(OciArtifacts(job))
                               ELSE ResponseDigest(job))
           /\ (item.located <=> complete /\ Len(OciArtifacts(job)) = 1)
  BY DEF Normalize

(* The source asks no URL twice. *)
LEMMA UrlsDiffer ==
    ASSUME host \in Hosts, NEW i \in Nat, NEW j \in Nat, JobUrl(i) = JobUrl(j)
    PROVE  i = j
  <1> DEFINE base == host.source \o JobPath
             names == {"api", "v1", "evaluations", "jobs"}
             S == Range(host.source) \union names
             last == Len(base) + 1
  <1>1. base \in Seq(S)
    <2>1. host.source \in Seq(Range(host.source))
      BY HostAssumption
    <2>2. JobPath \in Seq(names)
      BY DEF JobPath
    <2>3. host.source \in Seq(S) /\ JobPath \in Seq(S)
      BY <2>1, <2>2
    <2> QED
      BY <2>3
  <1> HIDE DEF base, S
  <1>2. base \in Seq(S \union Nat)
    BY <1>1
  <1>3. Append(base, i)[last] = i /\ Append(base, j)[last] = j
    BY <1>2
  <1> QED
    BY <1>3 DEF JobUrl, base

(* Where an envelope comes from, and that it says so, the pack checks       *)
(* against the host alone.                                                  *)
LEMMA SourceChecked ==
    ASSUME HostInv, NEW i \in DOMAIN evidence
    PROVE  LET item == evidence[i] IN
           /\ item.schema = JobSchema /\ item.revision = ApiRevision
           /\ IsTrusted(item) <=> IsPrefix(host.trusted, JobUrl(i))
           /\ item.id = <<item.producer, item.job>>
  <1>1. evidence[i] = Normalize(fetched[i], i)
    BY DEF HostInv, EnvelopesKept
  <1> QED
    BY <1>1, EnvelopeFields DEF IsTrusted

(* What the pack asks of provenance the adapter provides. *)
LEMMA ProvenanceSound ==
    ASSUME HostTyped, EnvelopesKept, NEW i \in DOMAIN evidence
    PROVE  HasSoundProvenance(evidence[i])
  <1> DEFINE job == fetched[i]
             item == evidence[i]
  <1>1. item = Normalize(job, i)
    BY DEF EnvelopesKept
  <1>2. CASE HasCompleteOci(job)
    <2>1. /\ item.mode = "oci-manifest" /\ item.artifacts = OciArtifacts(job)
          /\ item.artifact = OciDigest(OciArtifacts(job))
          /\ item.located <=> Len(OciArtifacts(job)) = 1
      BY <1>1, <1>2, EnvelopeFields
    <2>2. IsList(job.benchmarks)
      BY JobTyped
    <2>3. DOMAIN job.benchmarks # {}
      <3>1. job.benchmarks # <<>>
        BY <1>2 DEF HasCompleteOci
      <3>2. Len(job.benchmarks) \in Nat /\ Len(job.benchmarks) # 0
            /\ DOMAIN job.benchmarks = 1 .. Len(job.benchmarks)
        BY <2>2, <3>1, ListFacts
      <3>3. 1 \in 1 .. Len(job.benchmarks)
        BY <3>2
      <3> QED
        BY <3>2, <3>3
    <2>4. OciArtifacts(job) # <<>>
      BY <1>2, <2>2, <2>3, OciArtifactsFacts DEF HasCompleteOci
    <2> QED
      BY <2>1, <2>4 DEF HasSoundProvenance
  <1>3. CASE ~HasCompleteOci(job)
    BY <1>1, <1>3, EnvelopeFields DEF HasSoundProvenance
  <1> QED
    BY <1>2, <1>3

(* The status of a measurement is the one of its job and its overall test. *)
LEMMA StatusFacts ==
    ASSUME NEW job, job.state \in Terminal, job.test \in {"none", "pass", "fail"}
    PROVE  LET status == MeasuredStatus(job) IN
           /\ status = "failed" <=> \/ job.state = "failed"
                                    \/ job.state = "completed" /\ job.test = "fail"
           /\ status = "warning" <=> job.state \in {"cancelled", "partially_failed"}
           /\ status \in {"failed", "warning"} \/ job.state = "completed"
  BY DEF MeasuredStatus, Terminal

(* One correlation means one job, when each job has its own. *)
LEMMA OneResource ==
    ASSUME HostTyped, EnvelopesKept, ~host.isCorrelated,
           Cardinality({item.correlation : item \in Items}) = 1,
           NEW i \in DOMAIN evidence, NEW j \in DOMAIN evidence
    PROVE  fetched[i].resource = fetched[j].resource
  <1> DEFINE C == {item.correlation : item \in Items}
  <1>1. Len(evidence) \in Nat /\ DOMAIN evidence = 1 .. Len(evidence)
    BY ListFacts DEF HostTyped
  <1>2. IsFiniteSet(C)
    <2>1. IsFiniteSet(DOMAIN evidence)
      <3>1. IsFiniteSet(1 .. Len(evidence))
        BY <1>1, FS_Interval
      <3> QED
        BY <1>1, <3>1
    <2> DEFINE f == [n \in DOMAIN evidence |-> evidence[n].correlation]
    <2>2. f \in Surjection(DOMAIN evidence, C)
      BY DEF Items, Surjection
    <2> QED
      BY <2>1, <2>2, FS_Surjection
  <1>3. PICK x : C = {x}
    BY <1>2, FS_Singleton
  <1>4. evidence[i].correlation \in C /\ evidence[j].correlation \in C
    BY DEF Items
  <1>5. evidence[i].correlation = evidence[j].correlation
    BY <1>3, <1>4
  <1>6. \A n \in DOMAIN evidence : evidence[n].correlation = fetched[n].resource
    BY EnvelopeFields DEF EnvelopesKept, Correlation
  <1> QED
    BY <1>5, <1>6

-----------------------------------------------------------------------------
(* The ports of the pack. *)

(* The classifier makes one constraint of every concern. *)
LEMMA PromotionConstraintsFacts ==
    ASSUME HostTyped
    PROVE  LET answer == PromotionConstraints IN
           /\ IsList(answer)
           /\ \A n \in DOMAIN answer : \E i \in DOMAIN evidence :
                  IsConcerning(evidence[i]) /\ answer[n] = PromotionConstraint(evidence[i])
           /\ \A i \in DOMAIN evidence : IsConcerning(evidence[i]) =>
                  \E n \in DOMAIN answer : answer[n] = PromotionConstraint(evidence[i])
           /\ \A n \in DOMAIN answer : Cites(answer[n])
           /\ ~SharesArtifact =>
                  \A n, k \in DOMAIN answer : answer[n].id = answer[k].id => n = k
           /\ answer = <<>> <=> \A i \in DOMAIN evidence : ~IsConcerning(evidence[i])
  <1> DEFINE P == {i \in DOMAIN evidence : IsConcerning(evidence[i])}
             f == [i \in DOMAIN evidence |-> PromotionConstraint(evidence[i])]
             answer == PromotionConstraints
             places == InOrder(P)
  <1>1. Len(evidence) \in Nat /\ DOMAIN evidence = 1 .. Len(evidence)
    BY ListFacts DEF HostTyped
  <1>2. P \in SUBSET DOMAIN evidence
    OBVIOUS
  <1>3. \A n \in DOMAIN places : places[n] \in P
    BY <1>1, <1>2, InOrderFacts
  <1>4. answer = Picked(P, f)
    <2>1. answer = [n \in DOMAIN places |-> PromotionConstraint(evidence[places[n]])]
      BY DEF PromotionConstraints
    <2>2. \A n \in DOMAIN places : f[places[n]] = PromotionConstraint(evidence[places[n]])
      BY <1>3
    <2> HIDE DEF f, answer
    <2> QED
      BY <2>1, <2>2 DEF Picked
  <1> HIDE DEF answer, P, f
  <1>5. /\ IsList(answer)
        /\ \A n \in DOMAIN answer : \E i \in P : answer[n] = f[i]
        /\ \A i \in P : \E n \in DOMAIN answer : answer[n] = f[i]
        /\ (\A i, j \in P : f[i].id = f[j].id => i = j) =>
               \A n, k \in DOMAIN answer : answer[n].id = answer[k].id => n = k
        /\ answer = <<>> <=> P = {}
    <2> DEFINE picked == Picked(P, f)
    <2>1. /\ IsList(picked)
          /\ \A n \in DOMAIN picked : \E i \in P : picked[n] = f[i]
          /\ \A i \in P : \E n \in DOMAIN picked : picked[n] = f[i]
          /\ (\A i, j \in P : f[i].id = f[j].id => i = j) =>
                 \A n, k \in DOMAIN picked : picked[n].id = picked[k].id => n = k
          /\ picked = <<>> <=> P = {}
      BY <1>1, <1>2, PickedList, Zenon
    <2> QED
      BY <1>4, <2>1
  <1>6. \A i \in P : i \in DOMAIN evidence /\ f[i] = PromotionConstraint(evidence[i])
    BY DEF P, f
  <1>7. \A n \in DOMAIN answer : Cites(answer[n])
    <2>1. \A i \in DOMAIN evidence : Cites(PromotionConstraint(evidence[i]))
      BY DEF Cites, PromotionConstraint, Known, Items
    <2> QED
      BY <1>5, <1>6, <2>1
  <1>8. ASSUME ~SharesArtifact, NEW i \in P, NEW j \in P, f[i].id = f[j].id
        PROVE  i = j
    <2>1. \A item : PromotionConstraint(item).id[5] = item.artifact
      BY DEF PromotionConstraint
    <2>2. /\ f[i].id[5] = evidence[i].artifact /\ f[j].id[5] = evidence[j].artifact
      BY <1>6, <2>1
    <2> QED
      BY <1>6, <1>8, <2>2 DEF SharesArtifact
  <1>9. \A i \in DOMAIN evidence : i \in P <=> IsConcerning(evidence[i])
    BY DEF P
  <1>10. P = {} <=> \A i \in DOMAIN evidence : ~IsConcerning(evidence[i])
    BY DEF P
  <1> QED
    BY <1>5, <1>6, <1>7, <1>8, <1>9, <1>10 DEF answer

(* The pack judges what the host keeps. *)
LEMMA SamePack ==
    ASSUME UNCHANGED <<evidence, host, receipts>>
    PROVE  /\ EvalHubEvidencePolicy' = EvalHubEvidencePolicy
           /\ PromotionConstraints' = PromotionConstraints
           /\ SharesArtifact' = SharesArtifact
  BY DEF EvalHubEvidencePolicy, IsAdmitted, IsTrusted, LacksOci, IsVerified,
         PromotionConstraints,
         Items, Known, SharesArtifact

(* The evidence of a cycle is what the kernel takes. *)
LEMMA EvidenceAdmitted ==
    ASSUME EvalHubInv, gate \in Deciding
    PROVE  IsEvidence(evidence)
  <1>1. HostInv /\ IsFresh
    BY DEF EvalHubInv, PortsInv, FreshEvidence, Admitted
  <1>2. evidence # <<>>
    <2>1. Len(evidence) = host.requests /\ IsList(evidence)
      BY <1>1 DEF HostInv, HostTyped, InStep, Deciding
    <2>2. host.requests # 0
      BY <1>1, HostAssumption DEF HostInv, HostTyped
    <2> QED
      BY <2>1, <2>2, ListFacts
  <1>3. ASSUME NEW i \in DOMAIN evidence
        PROVE  /\ evidence[i].id = <<JobUrl(i), fetched[i].resource>>
               /\ evidence[i].expires = fetched[i].updated + Validity
               /\ fetched[i].updated \in Int
    BY <1>1, EnvelopeFields, JobTyped DEF HostInv, EnvelopesKept
  <1>4. ASSUME NEW i \in DOMAIN evidence, NEW j \in DOMAIN evidence,
               evidence[i].id = evidence[j].id
        PROVE  i = j
    <2>1. JobUrl(i) = JobUrl(j)
      BY <1>3, <1>4
    <2>2. host \in Hosts /\ i \in Nat /\ j \in Nat
      BY <1>1, ListFacts DEF HostInv, HostTyped
    <2> QED
      BY <2>1, <2>2, UrlsDiffer
  <1>5. \A i \in DOMAIN evidence : evidence[i].expires \in Int /\ Now < evidence[i].expires
    BY <1>1, <1>3, HostAssumption DEF IsFresh, Items
  <1> QED
    BY <1>2, <1>4, <1>5 DEF IsEvidence

-----------------------------------------------------------------------------
(* Each step keeps the invariant. *)

LEMMA EvalHubStart == EvalHubInit => EvalHubInv
  <1> SUFFICES ASSUME EvalHubInit
               PROVE  EvalHubInv
    OBVIOUS
  <1>1. HostTyped
    BY EmptyList, HostAssumption DEF EvalHubInit, HostTyped
  <1>2. InStep
    <2>1. host.requests \in Nat \ {0}
      BY HostAssumption DEF EvalHubInit
    <2> QED
      BY <2>1, EmptyList DEF EvalHubInit, InStep
  <1>3. Unasked
    BY DEF EvalHubInit, Unasked
  <1>4. GatesInv /\ PortsInv
    BY <1>3, BeforeCycle DEF EvalHubInit, Preparing
  <1> QED
    BY <1>1, <1>2, <1>3, <1>4, EmptyList
       DEF EvalHubInit, EvalHubInv, HostInv, NotYetAsked, EnvelopesKept, ReceiptsKept,
           PackAnswers, ScopeKept, Admitted, Deciding, OwnCorrelationsNeverMeet, InKernel,
           Preparing

LEMMA EvidenceKept ==
    ASSUME HostTyped, EnvelopesKept, UNCHANGED <<host, fetched, evidence>>
    PROVE  /\ EnvelopesKept' /\ SharesArtifact' = SharesArtifact /\ IsFresh' = IsFresh
           /\ host' \in Hosts /\ IsList(fetched') /\ IsList(evidence')
  BY DEF HostTyped, EnvelopesKept, Normalize, JobUrl, Correlation, SharesArtifact, IsFresh, Items

(* The host waits, or nothing happens. *)
LEMMA WaitingStep ==
    ASSUME EvalHubInv, UNCHANGED <<vars, host, fetched, receipts>>,
           time' \in Nat, time' <= Now
    PROVE  EvalHubInv'
  <1>1. /\ UNCHANGED <<gate, evidence, policies, round, classified, objective, plan,
                       checks, package>>
        /\ UNCHANGED <<host, fetched, receipts>> /\ UNCHANGED vars
    BY DEF vars
  <1>2. GatesInv' /\ PortsInv'
    BY <1>1, Stuttering, PortsStutter DEF EvalHubInv
  <1>3. EnvelopesKept' /\ HostTyped'
    BY <1>1, EvidenceKept DEF EvalHubInv, HostInv, HostTyped
  <1>4. PackAnswers'
    BY <1>1, SamePack DEF EvalHubInv, HostInv, PackAnswers
  <1> QED
    BY <1>1, <1>2, <1>3, <1>4
       DEF EvalHubInv, HostInv, InStep, NotYetAsked, Unasked, ReceiptsKept, Unverified,
           ScopeKept, Items, OwnCorrelationsNeverMeet, InKernel

(* While the host prepares the cycle, no port has answered. *)
LEMMA PreparingStep ==
    ASSUME EvalHubInv, gate \in Preparing, gate' \in Preparing, Stay, HostTyped', InStep',
           EnvelopesKept', ReceiptsKept'
    PROVE  EvalHubInv'
  <1>1. Unasked'
    BY DEF EvalHubInv, HostInv, NotYetAsked, Unasked, Stay
  <1>2. GatesInv' /\ PortsInv'
    BY <1>1, BeforeCycleNext DEF Preparing
  <1>3. PackAnswers'
    BY <1>1 DEF Unasked, PackAnswers
  <1>4. ScopeKept'
    BY <1>1 DEF Unasked, ScopeKept, Admitted, Deciding, Preparing
  <1> QED
    BY <1>1, <1>2, <1>3, <1>4
       DEF EvalHubInv, HostInv, NotYetAsked, OwnCorrelationsNeverMeet, Preparing

LEMMA ReceiveStep ==
    ASSUME EvalHubInv, NEW job \in Jobs[host.hub], Receive(job)
    PROVE  EvalHubInv'
  <1> DEFINE n == Len(fetched) + 1
             item == Normalize(job, n)
  <1>1. /\ gate = "receive" /\ fetched' = Append(fetched, job)
        /\ UNCHANGED <<host, time>> /\ Stay
    BY DEF Receive
  <1>2. /\ IsList(fetched') /\ Len(fetched) \in Nat /\ Len(fetched') = n
        /\ DOMAIN fetched = 1 .. Len(fetched) /\ fetched'[n] = job
        /\ \A i \in DOMAIN fetched : fetched'[i] = fetched[i]
    BY <1>1, AppendList DEF EvalHubInv, HostInv, HostTyped
  <1>3. /\ IsList(evidence) /\ Len(evidence) = Len(fetched)
        /\ IsList(receipts) /\ Len(receipts) = Len(fetched)
        /\ DOMAIN evidence = 1 .. Len(fetched) /\ DOMAIN receipts = 1 .. Len(fetched)
        /\ host \in Hosts /\ time \in Nat /\ time <= Now /\ Len(fetched) < host.requests
    BY <1>1, ListFacts DEF EvalHubInv, HostInv, HostTyped, InStep
  <1>4. \A i \in DOMAIN receipts : receipts[i] = {}
    BY <1>1 DEF EvalHubInv, HostInv, ReceiptsKept
  <1>5. \A i \in DOMAIN evidence :
            /\ fetched'[i] \in Jobs[host.hub] /\ IsNormalizable(fetched'[i])
            /\ evidence[i] = Normalize(fetched'[i], i)
    BY <1>2, <1>3 DEF EvalHubInv, HostInv, EnvelopesKept
  <1>6. \A j, i : Normalize(j, i)' = Normalize(j, i)
    BY <1>1 DEF Normalize, JobUrl, Correlation
  <1>7. CASE ~IsNormalizable(job)
    <2>1. gate' = "refused" /\ UNCHANGED <<evidence, receipts>>
      BY <1>7 DEF Receive
    <2>2. EnvelopesKept'
      BY <1>1, <1>5, <1>6, <2>1 DEF EnvelopesKept
    <2>3. HostTyped' /\ InStep' /\ ReceiptsKept'
      BY <1>1, <1>2, <1>3, <1>4, <2>1
         DEF HostTyped, InStep, ReceiptsKept, InKernel, Preparing
    <2> QED
      BY <1>1, <2>1, <2>2, <2>3, PreparingStep DEF Preparing
  <1>8. CASE IsNormalizable(job)
    <2>1. /\ evidence' = Append(evidence, item) /\ receipts' = Append(receipts, {})
          /\ gate' = IF Len(fetched') < host.requests THEN "receive"
                     ELSE IF host.isVerifying THEN "verify" ELSE "run"
      BY <1>8 DEF Receive
    <2> HIDE DEF item
    <2>2. /\ IsList(evidence') /\ Len(evidence') = n /\ DOMAIN evidence' = 1 .. n
          /\ \A i \in DOMAIN evidence : evidence'[i] = evidence[i]
          /\ evidence'[n] = item
      BY <1>2, <1>3, <2>1, AppendList
    <2>3. /\ IsList(receipts') /\ Len(receipts') = n /\ DOMAIN receipts' = 1 .. n
          /\ \A i \in DOMAIN receipts : receipts'[i] = receipts[i]
          /\ receipts'[n] = {}
      BY <1>2, <1>3, <2>1, AppendList
    <2>4. EnvelopesKept'
      <3> SUFFICES ASSUME NEW i \in DOMAIN evidence'
                   PROVE  /\ fetched'[i] \in Jobs[host.hub] /\ IsNormalizable(fetched'[i])
                          /\ evidence'[i] = Normalize(fetched'[i], i)
        BY <1>1, <1>6 DEF EnvelopesKept
      <3>1. CASE i \in DOMAIN evidence
        BY <1>5, <2>2, <3>1
      <3>2. CASE i = n
        BY <1>2, <1>8, <2>2, <3>2 DEF item
      <3> QED
        BY <1>2, <1>3, <2>2, <3>1, <3>2
    <2>5. \A i \in DOMAIN receipts' : receipts'[i] = {}
      BY <1>2, <1>3, <1>4, <2>3
    <2>6. host.requests \in Nat
      BY <1>3, HostAssumption
    <2>7. gate' \in Preparing /\ InStep' /\ HostTyped'
      BY <1>1, <1>2, <1>3, <2>1, <2>2, <2>3, <2>6 DEF InStep, HostTyped, Preparing
    <2>8. ReceiptsKept'
      BY <2>5 DEF ReceiptsKept
    <2> QED
      BY <1>1, <2>4, <2>7, <2>8, PreparingStep DEF Preparing
  <1> QED
    BY <1>7, <1>8

(* Something raises before the cycle, or everything is verified. *)
LEMMA GateStep ==
    ASSUME EvalHubInv, gate \in Preparing,
           UNCHANGED <<evidence, host, time, fetched, receipts>>, Stay,
           \/ gate' = "refused"
           \/ /\ gate = "verify" /\ gate' = "run"
              /\ \A i \in DOMAIN evidence : Unverified(i) = {}
    PROVE  EvalHubInv'
  <1>1. EnvelopesKept' /\ HostTyped' /\ gate' \in Preparing
    BY EvidenceKept DEF EvalHubInv, HostInv, HostTyped, Preparing
  <1>2. InStep'
    BY DEF EvalHubInv, HostInv, InStep
  <1>3. DOMAIN receipts = DOMAIN evidence
    BY ListFacts DEF EvalHubInv, HostInv, HostTyped, InStep
  <1>4. \A i : Unverified(i)' = Unverified(i)
    BY DEF Unverified
  <1>5. ReceiptsKept'
    BY <1>3, <1>4 DEF EvalHubInv, HostInv, ReceiptsKept, InKernel, Preparing
  <1> QED
    BY <1>1, <1>2, <1>5, PreparingStep

LEMMA VerifyArtifactStep ==
    ASSUME EvalHubInv, NEW i \in DOMAIN evidence, NEW answer \in Receipts,
           VerifyArtifact(i, answer)
    PROVE  EvalHubInv'
  <1>1. /\ gate = "verify" /\ UNCHANGED <<gate, evidence, host, time, fetched>> /\ Stay
    BY DEF VerifyArtifact
  <1> DEFINE receipt(digest) == [digest |-> digest, verifier |-> answer.verifier,
                                 hasContent |-> answer.hasContent, at |-> time]
  <1>2. PICK digest \in Unverified(i) :
            receipts' = [receipts EXCEPT ![i] = @ \union {receipt(digest)}]
    BY DEF VerifyArtifact
  <1>3. /\ IsList(receipts) /\ Len(receipts) = Len(evidence) /\ DOMAIN receipts = DOMAIN evidence
    BY ListFacts DEF EvalHubInv, HostInv, HostTyped, InStep
  <1>4. IsList(receipts') /\ Len(receipts') = Len(receipts) /\ DOMAIN receipts' = DOMAIN receipts
    <2>1. PICK S : receipts \in Seq(S)
      BY <1>3 DEF IsList
    <2> DEFINE T == S \union {receipts[i] \union {receipt(digest)}}
    <2>2. receipts' \in Seq(T) /\ Len(receipts') = Len(receipts)
      BY <1>2, <1>3, <2>1
    <2> HIDE DEF T
    <2>3. DOMAIN receipts' = DOMAIN receipts
      BY <1>2
    <2> QED
      BY <2>2, <2>3 DEF IsList
  <1>5. EnvelopesKept' /\ HostTyped'
    BY <1>1, <1>4, EvidenceKept DEF EvalHubInv, HostInv, HostTyped
  <1>6. InStep'
    BY <1>1, <1>4 DEF EvalHubInv, HostInv, InStep
  <1>7. time \in Nat /\ time <= Now
    BY DEF EvalHubInv, HostInv, HostTyped
  <1>8. digest \in PinnedDigests(evidence[i])
    BY <1>2 DEF Unverified
  <1>9. \A j \in DOMAIN receipts' : \A r \in receipts'[j] :
            r.digest \in PinnedDigests(evidence[j]) /\ r.at \in Nat /\ r.at <= Now
    <2> TAKE j \in DOMAIN receipts'
    <2> TAKE r \in receipts'[j]
    <2>1. r \in receipts[j] \/ (j = i /\ r = receipt(digest))
      BY <1>2, <1>4
    <2>2. CASE r \in receipts[j]
      BY <1>4, <2>2 DEF EvalHubInv, HostInv, ReceiptsKept
    <2>3. CASE j = i /\ r = receipt(digest)
      BY <1>7, <1>8, <2>3
    <2> QED
      BY <2>1, <2>2, <2>3
  <1>10. ReceiptsKept'
    BY <1>1, <1>9 DEF ReceiptsKept, InKernel, Preparing, PinnedDigests
  <1> QED
    BY <1>1, <1>5, <1>6, <1>10, PreparingStep DEF Preparing

LEMMA RunStep == ASSUME EvalHubInv, Run PROVE EvalHubInv'
  <1> DEFINE C == {item.correlation : item \in Items}
  <1>1. /\ gate = "run" /\ UNCHANGED <<evidence, host, time, fetched, receipts>> /\ Stay
        /\ gate' = IF Cardinality(C) # 1 \/ RepeatsEvidence THEN "refused"
                   ELSE IF \A item \in Items : IsTaken(item) THEN "policy" ELSE "rejected"
    BY DEF Run
  <1>2. HostTyped /\ EnvelopesKept /\ gate \in Preparing
    BY <1>1 DEF EvalHubInv, HostInv, Preparing
  <1>3. CASE gate' = "refused"
    BY <1>1, <1>2, <1>3, GateStep
  <1>4. CASE gate' # "refused"
    <2>1. /\ Cardinality(C) = 1 /\ gate' \in {"policy", "rejected"}
          /\ gate' = "policy" => IsFresh /\ \A item \in Items : item.scope = host.cycle
      BY <1>1, <1>4 DEF IsTaken, IsFresh
    <2> HIDE DEF C
    <2>2. Unasked'
      BY <1>1 DEF EvalHubInv, HostInv, NotYetAsked, Unasked, Preparing, Stay
    <2>3. EnvelopesKept' /\ HostTyped' /\ IsFresh' = IsFresh
      BY <1>1, <1>2, EvidenceKept DEF HostTyped
    <2>4. GatesInv' /\ PortsInv'
      BY <2>1, <2>2, <2>3, BeforeCycleNext
    <2>5. InStep'
      BY <1>1, <2>1 DEF EvalHubInv, HostInv, InStep
    <2>6. \A i : Unverified(i)' = Unverified(i)
      BY <1>1 DEF Unverified
    <2>7. ReceiptsKept'
      BY <1>1, <2>1, <2>6 DEF EvalHubInv, HostInv, ReceiptsKept
    <2>8. DOMAIN fetched = DOMAIN evidence
      BY <1>1, <1>2, ListFacts DEF EvalHubInv, HostInv, HostTyped, InStep
    <2>9. OwnCorrelationsNeverMeet'
      BY <1>1, <1>2, <2>1, <2>8, OneResource DEF OwnCorrelationsNeverMeet, C
    <2>10. PackAnswers'
      BY <2>2 DEF Unasked, PackAnswers
    <2>11. ScopeKept'
      BY <1>1, <2>1, <2>2 DEF ScopeKept, Unasked, Admitted, Deciding, Items
    <2> QED
      BY <2>1, <2>2, <2>3, <2>4, <2>5, <2>7, <2>9, <2>10, <2>11
         DEF EvalHubInv, HostInv, NotYetAsked, Preparing
  <1> QED
    BY <1>3, <1>4

(* In the kernel only the answers of the ports and the gate change. *)
LEMMA KernelKeepsHost ==
    ASSUME HostInv, gate \notin Preparing, gate' \notin Preparing, PackAnswers',
           UNCHANGED <<host, time, fetched, receipts, evidence>>,
           gate \in Deciding \/ UNCHANGED <<gate, policies>>
    PROVE  HostInv'
  <1>1. EnvelopesKept' /\ HostTyped'
    BY EvidenceKept DEF HostInv, HostTyped
  <1>2. \A i : Unverified(i)' = Unverified(i)
    BY DEF Unverified
  <1>3. ReceiptsKept'
    BY <1>2 DEF HostInv, ReceiptsKept, InKernel, Preparing
  <1>4. ScopeKept'
    BY DEF HostInv, ScopeKept, Admitted, Items
  <1> QED
    BY <1>1, <1>3, <1>4 DEF HostInv, InStep, NotYetAsked, OwnCorrelationsNeverMeet, Preparing

LEMMA InCycleStep == ASSUME EvalHubInv, InCycle PROVE EvalHubInv'
  <1>1. GatesInv /\ PortsInv /\ HostInv /\ UNCHANGED <<host, time, fetched, receipts>>
    BY DEF EvalHubInv, InCycle
  <1>2. ASSUME evidence' = evidence
        PROVE  /\ EvalHubEvidencePolicy' = EvalHubEvidencePolicy
               /\ PromotionConstraints' = PromotionConstraints
               /\ SharesArtifact' = SharesArtifact
    BY <1>1, <1>2, SamePack
  <1>3. CASE ~SharesArtifact /\ EvaluatePolicy(EvalHubEvidencePolicy)
    <2> DEFINE answer == EvalHubEvidencePolicy
    <2>1. Cites(answer)
      BY DEF EvalHubEvidencePolicy, Cites
    <2>2. \A i \in DOMAIN policies : policies[i] = answer
      BY <1>1 DEF HostInv, PackAnswers
    <2>3. EvaluatePolicy(answer)
      BY <1>3
    <2> HIDE DEF answer
    <2>4. GatesInv' /\ PortsInv' /\ gate \notin Preparing /\ gate' \notin Preparing
      BY <1>1, <2>1, <2>3, PolicyPort, EvaluatePolicyStep, KernelSteps
    <2>7. gate \in Deciding
      BY <2>3 DEF EvaluatePolicy, Deciding
    <2>5. /\ \A i \in DOMAIN policies' : policies'[i] = answer
          /\ UNCHANGED <<evidence, round, classified>>
      BY <1>1, <2>2, <2>3, OneMorePolicy
    <2>6. PackAnswers'
      BY <1>1, <1>2, <1>3, <2>5 DEF HostInv, PackAnswers, answer
    <2> QED
      BY <1>1, <2>4, <2>5, <2>6, <2>7, KernelKeepsHost DEF EvalHubInv
  <1>4. CASE Classify(PromotionConstraints)
    <2> DEFINE answer == PromotionConstraints
    <2>1. /\ IsList(answer) /\ \A n \in DOMAIN answer : Cites(answer[n])
          /\ ~SharesArtifact =>
                 \A n, k \in DOMAIN answer : answer[n].id = answer[k].id => n = k
      BY <1>1, PromotionConstraintsFacts DEF HostInv
    <2>2. Classify(answer) /\ UNCHANGED <<evidence, policies>>
      BY <1>4 DEF Classify
    <2> HIDE DEF answer
    <2>3. GatesInv' /\ PortsInv' /\ classified' = answer
      BY <1>1, <2>1, <2>2, ClassifierPort, ClassifyStep
    <2>4. PackAnswers'
      BY <1>1, <1>2, <2>2, <2>3 DEF HostInv, PackAnswers, answer
    <2>5. gate \notin Preparing /\ gate' \notin Preparing
      BY <2>2, KernelSteps
    <2>6. gate \in Deciding
      BY <2>2 DEF Classify, Deciding
    <2> QED
      BY <1>1, <2>2, <2>3, <2>4, <2>5, <2>6, KernelKeepsHost DEF EvalHubInv
  <1>5. CASE SharedNext
    <2>1. /\ GatesInv' /\ PortsInv'
          /\ UNCHANGED <<evidence, policies, round, classified>>
      BY <1>1, <1>5, EvidenceAdmitted, SharedSteps DEF EvalHubInv, Deciding
    <2>2. PackAnswers'
      BY <1>1, <1>2, <2>1 DEF HostInv, PackAnswers
    <2>3. gate \notin Preparing /\ gate' \notin Preparing
      BY <1>5, KernelSteps
    <2>4. gate \in Deciding \/ UNCHANGED <<gate, policies>>
      BY <1>5, DecidingSteps DEF vars
    <2> QED
      BY <1>1, <2>1, <2>2, <2>3, <2>4, KernelKeepsHost DEF EvalHubInv
  <1> QED
    BY <1>3, <1>4, <1>5 DEF InCycle, SharedNext

LEMMA EvalHubStep == EvalHubInv /\ [EvalHubNext]_evalVars => EvalHubInv'
  <1> SUFFICES ASSUME EvalHubInv, [EvalHubNext]_evalVars
               PROVE  EvalHubInv'
    OBVIOUS
  <1>1. ASSUME NEW job \in Jobs[host.hub], Receive(job)
        PROVE  EvalHubInv'
    BY <1>1, ReceiveStep
  <1>2. CASE FetchFails
    BY <1>2, GateStep DEF FetchFails, Preparing
  <1>3. ASSUME NEW i \in DOMAIN evidence, NEW answer \in Receipts, VerifyArtifact(i, answer)
        PROVE  EvalHubInv'
    BY <1>3, VerifyArtifactStep
  <1>4. CASE Verified
    BY <1>4, GateStep DEF Verified, Preparing
  <1>5. CASE VerificationFails
    BY <1>5, GateStep DEF VerificationFails, Preparing
  <1>6. CASE Run
    BY <1>6, RunStep
  <1>7. CASE Tick \/ Refused \/ UNCHANGED evalVars
    <2>1. time \in Nat /\ time <= Now /\ Now \in Nat
      BY HostAssumption DEF EvalHubInv, HostInv, HostTyped
    <2> QED
      BY <1>7, <2>1, WaitingStep DEF Tick, Refused, evalVars
  <1>8. CASE InCycle
    BY <1>8, InCycleStep
  <1> QED
    BY <1>1, <1>2, <1>3, <1>4, <1>5, <1>6, <1>7, <1>8 DEF EvalHubNext

(* The invariant of the whole. *)
THEOREM EvalHubInvariance == EvalHubSpec => []EvalHubInv
  BY EvalHubStart, EvalHubStep, PTL DEF EvalHubSpec

-----------------------------------------------------------------------------
(* The properties. *)

(* The envelopes of a cycle, by their jobs. *)
LEMMA InCycleFacts ==
    ASSUME EvalHubInv, gate \notin Preparing
    PROVE  /\ DOMAIN fetched = DOMAIN evidence /\ DOMAIN receipts = DOMAIN evidence
           /\ \A i \in DOMAIN evidence :
                  LET job == fetched[i]
                      status == evidence[i].status IN
                  /\ status = "failed" <=> \/ job.state = "failed"
                                           \/ job.state = "completed" /\ job.test = "fail"
                  /\ status = "warning" <=> job.state \in {"cancelled", "partially_failed"}
                  /\ IsConcerning(evidence[i]) \/ job.state = "completed"
                  /\ IsConcerning(evidence[i]) <=> status \in {"failed", "warning"}
  <1>1. HostTyped /\ InStep /\ EnvelopesKept
    BY DEF EvalHubInv, HostInv
  <1>2. DOMAIN fetched = DOMAIN evidence /\ DOMAIN receipts = DOMAIN evidence
    BY <1>1, ListFacts DEF HostTyped, InStep, Preparing
  <1>3. \A i \in DOMAIN evidence : evidence[i].status = MeasuredStatus(fetched[i])
    BY <1>1, EnvelopeFields DEF EnvelopesKept
  <1> QED
    BY <1>1, <1>2, <1>3, StatusFacts, JobTyped DEF IsConcerning

LEMMA JobsPassed == EvalHubInv => UnreviewedJobsPassed
  <1> SUFFICES ASSUME EvalHubInv, gate = "no_candidate", NEW i \in DOMAIN fetched
               PROVE  LET job == fetched[i] IN
                      /\ job.state = "completed" /\ job.test = "pass"
                      /\ job.updated <= Now /\ Now < job.updated + Validity
                      /\ host.scope = host.cycle /\ IsPrefix(host.trusted, JobUrl(i))
                      /\ host.requiresOci =>
                             /\ job.benchmarks # <<>>
                             /\ \A k \in DOMAIN job.benchmarks : job.benchmarks[k].oci # "none"
                      /\ host.requiresVerified =>
                             \A k \in DOMAIN job.benchmarks :
                                 job.benchmarks[k].oci # "none" =>
                                     \E r \in receipts[i] :
                                         /\ r.digest = job.benchmarks[k].oci
                                         /\ r.verifier \in TrustedVerifiers
                                         /\ r.at \in job.updated .. job.updated + Validity
    BY DEF UnreviewedJobsPassed
  <1> DEFINE job == fetched[i]
             item == evidence[i]
  <1>1. gate \notin Preparing /\ HostInv /\ PortsInv /\ HostTyped /\ EnvelopesKept
    BY DEF Preparing, EvalHubInv, HostInv
  <1>2. i \in DOMAIN evidence /\ i \in DOMAIN receipts
    BY <1>1, InCycleFacts
  <1>3. classified = PromotionConstraints
    BY <1>1 DEF PortsInv, ClassifiedOnce, HostInv, PackAnswers
  <1>4. classified = <<>>
    <2> SUFFICES ASSUME Governed = {}, NEW j \in DOMAIN evidence, IsConcerning(evidence[j])
                 PROVE  FALSE
      BY <1>1, <1>3, PromotionConstraintsFacts DEF PortsInv, NoneGoverned
    <2>1. PromotionConstraint(evidence[j]) \in Constraints
      BY <1>1, <1>3, PromotionConstraintsFacts DEF Constraints
    <2>2. evidence[j] \in Governed
      BY <2>1, PackAssumption DEF Governed, PromotionConstraint, Items
    <2> QED
      BY <2>2
  <1>5. ~IsConcerning(item)
    BY <1>1, <1>2, <1>3, <1>4, PromotionConstraintsFacts
  <1>6. IsAdmitted(i)
    <2>1. Len(policies) = 1 /\ \A n \in DOMAIN policies : policies[n].allowed
      BY <1>1, PackAssumption DEF PortsInv, PoliciesPassed
    <2>2. 1 \in DOMAIN policies
      BY <2>1, ListFacts DEF EvalHubInv, GatesInv, AnswersListed
    <2>3. EvalHubEvidencePolicy.allowed
      BY <1>1, <2>1, <2>2 DEF HostInv, PackAnswers
    <2> QED
      BY <1>2, <2>3 DEF EvalHubEvidencePolicy
  <1>7. /\ item.kind = ResultKind(job) /\ item.state = job.state
        /\ item.tested <=> job.test # "none"
        /\ item.observed = job.updated /\ item.expires = job.updated + Validity
        /\ item.artifacts = OciArtifacts(job)
        /\ item.mode = IF HasCompleteOci(job) THEN "oci-manifest"
                       ELSE "authenticated-api-response"
    BY <1>1, <1>2, EnvelopeFields DEF EnvelopesKept
  <1>8. job.updated \in Int /\ job.test \in {"none", "pass", "fail"} /\ IsList(job.benchmarks)
    BY <1>1, <1>2, JobTyped
  <1>9. job.state = "completed" /\ job.test # "fail"
    BY <1>1, <1>2, <1>5, InCycleFacts
  <1>10. item.kind \in {"collection", "job-result"}
    BY <1>7, <1>9 DEF ResultKind
  <1>11. job.test = "pass"
    BY <1>6, <1>7, <1>8, <1>9, <1>10 DEF IsAdmitted, LacksTest
  <1>12. job.updated <= Now /\ Now < job.updated + Validity
    <2>1. item \in Items
      BY <1>2 DEF Items
    <2>2. item.observed <= Now /\ Now < item.expires
      BY <1>1, <2>1 DEF PortsInv, FreshEvidence, Admitted, IsFresh
    <2> QED
      BY <1>7, <2>2
  <1>13. ASSUME host.requiresOci
         PROVE  HasCompleteOci(job)
    BY <1>6, <1>7, <1>10, <1>13 DEF IsAdmitted, LacksOci
  <1>14. ASSUME host.requiresVerified, NEW k \in DOMAIN job.benchmarks,
                job.benchmarks[k].oci # "none"
         PROVE  \E r \in receipts[i] :
                    /\ r.digest = job.benchmarks[k].oci
                    /\ r.verifier \in TrustedVerifiers
                    /\ r.at \in job.updated .. job.updated + Validity
    <2>1. IsVerified(i)
      BY <1>6, <1>14 DEF IsAdmitted
    <2>2. PICK n \in DOMAIN item.artifacts : item.artifacts[n] = job.benchmarks[k]
      BY <1>7, <1>8, <1>14, OciArtifactsFacts DEF IsPinned
    <2>3. job.benchmarks[k].oci \in PinnedDigests(item)
      BY <2>2 DEF PinnedDigests
    <2>4. PICK r \in receipts[i] : r.digest = job.benchmarks[k].oci
      BY <2>1, <2>3 DEF IsVerified
    <2>5. r.verifier \in TrustedVerifiers /\ item.observed <= r.at /\ r.at <= item.expires
      BY <2>1, <2>4 DEF IsVerified, IsInWindow
    <2>6. r.at \in Int
      BY <1>1, <1>2, <2>4 DEF HostInv, ReceiptsKept
    <2>7. Validity \in Int
      BY HostAssumption
    <2> QED
      BY <1>7, <1>8, <2>4, <2>5, <2>6, <2>7
  <1>15. host.scope = host.cycle /\ IsPrefix(host.trusted, JobUrl(i))
    <2>1. item.scope = host.scope
      BY <1>1, <1>2, EnvelopeFields DEF EnvelopesKept
    <2>2. item.scope = host.cycle /\ IsTrusted(item)
      BY <1>6 DEF IsAdmitted
    <2> QED
      BY <1>1, <1>2, <2>1, <2>2, SourceChecked
  <1> QED
    BY <1>9, <1>11, <1>12, <1>13, <1>14, <1>15 DEF HasCompleteOci, IsPinned

(* A cycle that asks for nothing had only jobs that completed and passed,   *)
(* fresh, and with the provenance the host requires                         *)
(* (policy_packs/evalhub.py:180-278, kernel.py:236-276).                    *)
THEOREM QuietJobsPassed == EvalHubSpec => []UnreviewedJobsPassed
  BY EvalHubInvariance, JobsPassed, PTL

LEMMA JobsReviewed == EvalHubInv => ConcerningJobsAreReviewed
  <1> SUFFICES ASSUME EvalHubInv, gate = "packaged"
               PROVE  ConcerningJobsAreReviewed
    BY DEF ConcerningJobsAreReviewed
  <1> DEFINE chosen == CHOOSE c \in package.candidates : c.id = package.selected
             ConstraintsOf(i) == {k \in package.constraints : k.refs = {evidence[i].artifact}}
             isHard(i) == \/ fetched[i].state = "failed"
                          \/ fetched[i].state = "completed" /\ fetched[i].test = "fail"
             isSoft(i) == fetched[i].state \in {"cancelled", "partially_failed"}
  <1>1. HostTyped /\ PortsInv /\ HostInv /\ gate \notin Preparing
    BY DEF EvalHubInv, HostInv, Preparing
  <1>2. /\ chosen = Review /\ package.constraints = Constraints
        /\ Review.action = "request_review"
    BY <1>1, PackagedReview
  <1>3. classified = PromotionConstraints
    BY <1>1 DEF PortsInv, ClassifiedOnce, HostInv, PackAnswers
  <1>4. ~SharesArtifact
    <2>1. Len(policies) = 1
      BY <1>1, PackAssumption DEF PortsInv, PoliciesPassed
    <2>2. policies # <<>>
      BY <2>1, EmptyList
    <2> QED
      BY <1>1, <2>2 DEF HostInv, PackAnswers
  <1>5. \A k : k \in Constraints <=>
            \E j \in DOMAIN evidence :
                IsConcerning(evidence[j]) /\ k = PromotionConstraint(evidence[j])
    BY <1>1, <1>3, PromotionConstraintsFacts DEF Constraints
  <1>6. \A item : /\ PromotionConstraint(item).refs = {item.artifact}
                  /\ PromotionConstraint(item).hard <=> item.status = "failed"
                  /\ PromotionConstraint(item).hard \in BOOLEAN
    BY DEF PromotionConstraint, IsHard
  <1> HIDE DEF chosen
  <1>7. ASSUME NEW i \in DOMAIN evidence
        PROVE  /\ {k.hard : k \in ConstraintsOf(i)} =
                      {h \in BOOLEAN : IF h THEN isHard(i) ELSE isSoft(i)}
               /\ \A k \in ConstraintsOf(i) : k.id \in chosen.constraints
    <2> DEFINE constraint == PromotionConstraint(evidence[i])
    <2>1. \A k \in ConstraintsOf(i) :
              k \in Constraints /\ IsConcerning(evidence[i]) /\ k = constraint
      <3> SUFFICES ASSUME NEW k \in ConstraintsOf(i)
                   PROVE  k \in Constraints /\ IsConcerning(evidence[i]) /\ k = constraint
        OBVIOUS
      <3>1. k \in Constraints /\ k.refs = {evidence[i].artifact}
        BY <1>2
      <3>2. PICK j \in DOMAIN evidence :
                IsConcerning(evidence[j]) /\ k = PromotionConstraint(evidence[j])
        BY <1>5, <3>1
      <3>3. evidence[i].artifact = evidence[j].artifact
        BY <1>6, <3>1, <3>2
      <3>4. i = j
        BY <1>4, <3>3 DEF SharesArtifact
      <3> QED
        BY <3>1, <3>2, <3>4
    <2>2. IsConcerning(evidence[i]) => ConstraintsOf(i) = {constraint}
      <3>1. IsConcerning(evidence[i]) => constraint \in ConstraintsOf(i)
        BY <1>2, <1>5, <1>6
      <3> QED
        BY <2>1, <3>1
    <2>3. ~IsConcerning(evidence[i]) => ConstraintsOf(i) = {}
      BY <2>1
    <2>4. /\ evidence[i].status = "failed" <=> isHard(i)
          /\ evidence[i].status = "warning" <=> isSoft(i)
          /\ IsConcerning(evidence[i]) <=> evidence[i].status \in {"failed", "warning"}
      BY <1>1, InCycleFacts
    <2>5. constraint.hard \in BOOLEAN /\ (constraint.hard <=> isHard(i))
      BY <1>6, <2>4
    <2>6. ~(isHard(i) /\ isSoft(i))
      BY <2>4
    <2> HIDE DEF ConstraintsOf, constraint, isHard, isSoft
    <2>7. {k.hard : k \in ConstraintsOf(i)} =
              {h \in BOOLEAN : IF h THEN isHard(i) ELSE isSoft(i)}
      <3>1. CASE IsConcerning(evidence[i])
        <4>1. {k.hard : k \in ConstraintsOf(i)} = {constraint.hard}
          BY <2>2, <3>1
        <4>2. CASE isHard(i)
          <5>1. constraint.hard = TRUE
            BY <2>5, <4>2
          <5>2. {h \in BOOLEAN : IF h THEN isHard(i) ELSE isSoft(i)} = {TRUE}
            BY <2>6, <4>2
          <5> QED
            BY <4>1, <5>1, <5>2
        <4>3. CASE isSoft(i)
          <5>1. constraint.hard = FALSE
            BY <2>5, <2>6, <4>3
          <5>2. {h \in BOOLEAN : IF h THEN isHard(i) ELSE isSoft(i)} = {FALSE}
            BY <2>6, <4>3
          <5> QED
            BY <4>1, <5>1, <5>2
        <4> QED
          BY <2>4, <3>1, <4>2, <4>3
      <3>2. CASE ~IsConcerning(evidence[i])
        <4>1. ~isHard(i) /\ ~isSoft(i)
          BY <2>4, <3>2
        <4>2. {h \in BOOLEAN : IF h THEN isHard(i) ELSE isSoft(i)} = {}
          BY <4>1
        <4>3. {k.hard : k \in ConstraintsOf(i)} = {}
          BY <2>3, <3>2
        <4> QED
          BY <4>2, <4>3
      <3> QED
        BY <3>1, <3>2
    <2> QED
      BY <1>2, <2>1, <2>7, ReviewCovers
  <1>8. DOMAIN fetched = DOMAIN evidence
    BY <1>1, InCycleFacts
  <1> QED
    BY <1>2, <1>7, <1>8 DEF ConcerningJobsAreReviewed, chosen

(* The jobs of a packaged cycle that failed, were cancelled or failed in    *)
(* part, and only they, are its constraints, hard and soft, and the         *)
(* selected review covers them (policy_packs/evalhub.py:281-350,            *)
(* adapters/evalhub.py:322-353, builtin.py:257-348).                        *)
THEOREM ConcernsAreReviewed == EvalHubSpec => []ConcerningJobsAreReviewed
  BY EvalHubInvariance, JobsReviewed, PTL

LEMMA CauseOfRejection == EvalHubInv => RejectedForCause
  <1> SUFFICES ASSUME EvalHubInv, gate = "rejected", policies # <<>>
               PROVE  RejectedForCause
    BY DEF RejectedForCause
  <1>1. gate \notin Preparing /\ HostInv /\ PortsInv /\ HostTyped /\ EnvelopesKept
    BY DEF Preparing, EvalHubInv, HostInv
  <1>2. PICK n \in DOMAIN policies : ~policies[n].allowed
    BY <1>1 DEF PortsInv, DenialsDecide
  <1>3. ~EvalHubEvidencePolicy.allowed
    BY <1>1, <1>2 DEF HostInv, PackAnswers
  <1>4. PICK i \in DOMAIN evidence : ~IsAdmitted(i)
    BY <1>3 DEF EvalHubEvidencePolicy
  <1> DEFINE job == fetched[i]
             item == evidence[i]
  <1>5. i \in DOMAIN fetched /\ i \in DOMAIN receipts
    BY <1>1, InCycleFacts
  <1>6. /\ item.kind = ResultKind(job) /\ item.state = job.state
        /\ item.tested <=> job.test # "none"
        /\ item.observed = job.updated /\ item.expires = job.updated + Validity
        /\ item.artifacts = OciArtifacts(job) /\ item.confidence = host.confidence
        /\ item.mode = IF HasCompleteOci(job) THEN "oci-manifest"
                       ELSE "authenticated-api-response"
    BY <1>1, EnvelopeFields DEF EnvelopesKept
  <1>7. job.updated \in Int /\ job.state \in Terminal
    BY <1>1, JobTyped
  <1>8. /\ item.state \in Terminal
        /\ item.kind \in {"collection", "job-result", "job-execution"}
        /\ item.kind = "job-execution" <=> item.state \in {"failed", "cancelled"}
        /\ item.kind \in {"collection", "job-result"} <=>
               item.state \in {"completed", "partially_failed"}
    BY <1>6, <1>7 DEF ResultKind, Terminal
  <1>14. /\ item.schema = JobSchema /\ item.revision = ApiRevision
         /\ IsTrusted(item) <=> IsPrefix(host.trusted, JobUrl(i))
         /\ item.id = <<item.producer, item.job>>
    BY <1>1, SourceChecked
  <1>15. item.scope = host.cycle
    BY <1>1 DEF HostInv, ScopeKept, Items
  <1>9. \/ ~IsPrefix(host.trusted, JobUrl(i))
        \/ LacksTest(item) \/ LacksOci(item)
        \/ host.requiresVerified /\ ~IsVerified(i)
        \/ BelowFloor(item)
    BY <1>1, <1>4, <1>8, <1>14, <1>15, ProvenanceSound DEF IsAdmitted
  <1>16. CASE ~IsPrefix(host.trusted, JobUrl(i))
    BY <1>5, <1>16 DEF RejectedForCause
  <1>10. CASE LacksTest(item)
    BY <1>5, <1>6, <1>10 DEF LacksTest, RejectedForCause
  <1>11. CASE LacksOci(item)
    <2>1. host.requiresOci /\ job.state \in {"completed", "partially_failed"}
          /\ ~HasCompleteOci(job)
      BY <1>6, <1>7, <1>8, <1>11 DEF LacksOci, Terminal
    <2> QED
      BY <1>5, <2>1 DEF HasCompleteOci, IsPinned, RejectedForCause
  <1>12. CASE host.requiresVerified /\ ~IsVerified(i)
    <2> SUFFICES ASSUME receipts[i] # {}
                 PROVE  \E r \in receipts[i] : \/ r.verifier \notin TrustedVerifiers
                                               \/ ~r.hasContent
                                               \/ r.at < job.updated
      BY <1>5, <1>12 DEF RejectedForCause
    <2>1. \A r \in receipts[i] :
              r.digest \in PinnedDigests(item) /\ r.at \in Nat /\ r.at <= Now
      BY <1>1, <1>5 DEF HostInv, ReceiptsKept
    <2>2. Unverified(i) = {}
      BY <1>1, <1>5 DEF HostInv, ReceiptsKept, InKernel
    <2>3. {r.digest : r \in receipts[i]} = PinnedDigests(item)
      BY <2>1, <2>2 DEF Unverified
    <2>4. item.artifacts # <<>>
      BY <2>1, EmptyList DEF PinnedDigests
    <2>5. PICK r \in receipts[i] : ~(r.verifier \in TrustedVerifiers /\ r.hasContent
                                     /\ IsInWindow(item, r))
      BY <1>12, <2>3, <2>4 DEF IsVerified
    <2>6. item \in Items
      BY DEF Items
    <2>7. Now < item.expires
      BY <1>1, <2>6 DEF PortsInv, FreshEvidence, IsFresh
    <2>8. r.at <= item.expires
      BY <1>6, <1>7, <2>1, <2>7, HostAssumption
    <2>9. ~IsInWindow(item, r) => r.at < job.updated
      BY <1>6, <1>7, <2>1, <2>8 DEF IsInWindow
    <2> QED
      BY <2>5, <2>9
  <1>13. CASE BelowFloor(item)
    BY <1>5, <1>6, <1>13 DEF BelowFloor, RejectedForCause
  <1> QED
    BY <1>9, <1>10, <1>11, <1>12, <1>13, <1>16

(* For every job, what the adapter writes the policy pack reads: a cycle is *)
(* turned down only for what one of its jobs lacks or because it comes from *)
(* outside the trusted URL (adapters/evalhub.py:235-406, 474-479,           *)
(* policy_packs/evalhub.py:49-278).                                         *)
THEOREM PackReadsAdapter == EvalHubSpec => []RejectedForCause
  BY EvalHubInvariance, CauseOfRejection, PTL

(* Jobs without a correlation id of the host never meet in a cycle, unless  *)
(* they are one job (adapters/evalhub.py:383, kernel.py:226-229).           *)
THEOREM JobsStayApart == EvalHubSpec => []OwnCorrelationsNeverMeet
  <1>1. EvalHubInv => OwnCorrelationsNeverMeet
    BY DEF EvalHubInv, HostInv
  <1> QED
    BY <1>1, EvalHubInvariance, PTL

(* With the pack of EvalHub as well, only a repeated artifact digest makes  *)
(* a port raise (policy_packs/evalhub.py:180-350, builtin.py:182-348).      *)
THEOREM PackNeverRaises == EvalHubSpec => []RaisesOnlyOnSharedArtifact
  <1>1. EvalHubInv => RaisesOnlyOnSharedArtifact
    BY DEF EvalHubInv, PortsInv
  <1> QED
    BY <1>1, EvalHubInvariance, PTL


=============================================================================
