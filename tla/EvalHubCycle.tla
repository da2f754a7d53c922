------------------------------ MODULE EvalHubCycle ------------------------------
(***************************************************************************)
(* From EvalHub jobs to a verdict: EvalHubEvidenceSource fetches the       *)
(* requested jobs and normalises each (adapters/evalhub.py), the host has  *)
(* their OCI artifacts verified (adapters/evalhub_oci.py), and the kernel  *)
(* runs a cycle with the EvalHub policy pack (policy_packs/evalhub.py) and *)
(* the built-in objective, planner and check, as in cli.py.  Time passes   *)
(* while jobs are fetched and artifacts verified, and the hub and the host *)
(* need not agree on it.                                                   *)
(*                                                                         *)
(* Digests are sequences of strings: what they are digests of.  A URL is   *)
(* the sequence of its origin and the segments of its path.                *)
(***************************************************************************)
EXTENDS StandaloneCycle, SequencesExt

CONSTANTS
    Hosts,             \* how hosts are set up: the number of jobs they request,
                       \* of which hub and from which base URL, the scope of the
                       \* source and that of the cycle, whether they give all jobs
                       \* one correlation id, the confidence of the contract mapping
                       \* in hundredths, whether they have OCI artifacts verified,
                       \* and what their policy requires
    Jobs,              \* what each hub may answer
    Validity,          \* validity of an envelope
    Receipts,          \* verifier and content of the receipts of the verifier
    TrustedVerifiers   \* trusted_artifact_verifiers

ASSUME HostAssumption ==
    /\ Validity \in Nat \ {0} /\ Now \in Nat
    /\ \A h \in Hosts :
           /\ h.requests \in Nat \ {0} /\ h.hub \in DOMAIN Jobs
           /\ h.source \in Seq(Range(h.source))
           /\ \A job \in Jobs[h.hub] :
                  /\ job.updated \in Int /\ job.test \in {"none", "pass", "fail"}
                  /\ job.benchmarks \in Seq(Range(job.benchmarks))
           /\ h.requiresVerified => TrustedVerifiers # {}
(* The kernel of cli.py has the policy and the planner of the pack. *)
ASSUME PackAssumption == Policies = 1 /\ "promotion-review-required" \in GovernedNames

VARIABLES
    host,      \* a member of Hosts
    time,      \* the clock of the host
    fetched,   \* the jobs the hub answered with, in order
    receipts   \* of each envelope, the receipts its verification has got so far

evalVars == <<vars, host, time, fetched, receipts>>

-----------------------------------------------------------------------------
(* normalize_evalhub_job.  A job that is not terminal, lacks required       *)
(* fields, has another tenant or an OCI reference that does not match its   *)
(* digest is refused.                                                       *)

Terminal == {"completed", "failed", "cancelled", "partially_failed"}
IsPinned(benchmark) == benchmark.oci # "none"
OciArtifacts(job) ==
    LET pinned == InOrder({k \in DOMAIN job.benchmarks : IsPinned(job.benchmarks[k])}) IN
    [n \in DOMAIN pinned |-> job.benchmarks[pinned[n]]]

HasCompleteOci(job) ==
    /\ job.benchmarks # <<>>
    /\ \A k \in DOMAIN job.benchmarks : IsPinned(job.benchmarks[k])

IsNormalizable(job) ==
    /\ job.state \in Terminal
    /\ job.wellFormed
    /\ job.inTenant
    /\ job.state \in {"completed", "partially_failed"} => job.hasResults
    /\ \A i \in DOMAIN job.benchmarks : job.benchmarks[i].oci # "invalid"

ResponseDigest(job) == <<"response">> \o job.raw
OciDigest(artifacts) ==
    IF Len(artifacts) = 1 THEN <<"artifact", artifacts[1].oci>>
    ELSE <<"manifest">>
             \o FlattenSeq([i \in DOMAIN artifacts |-> <<artifacts[i].id, artifacts[i].oci>>])

(* Mutant: the score of a partially failed job counts. *)
PartialScore(job) ==
    IF job.state = "failed" THEN "failed"
    ELSE IF job.state = "cancelled" THEN "warning"
    ELSE IF job.test = "none" THEN "unknown"
    ELSE IF job.test = "pass" THEN "passed" ELSE "failed"
MeasuredStatus(job) ==
    IF job.state = "failed" THEN "failed"
    ELSE IF job.state \in {"cancelled", "partially_failed"} THEN "warning"
    ELSE IF job.test = "none" THEN "unknown"
    ELSE IF job.test = "pass" THEN "passed" ELSE "failed"

FailedOnly(job) ==   \* mutant
    IF job.state = "failed" THEN "job-execution"
    ELSE IF job.collection THEN "collection" ELSE "job-result"
ResultKind(job) ==
    IF job.state \in {"failed", "cancelled"} THEN "job-execution"
    ELSE IF job.collection THEN "collection" ELSE "job-result"

(* The ids a host asks for are numbers: the source takes none twice. *)
JobPath == <<"api", "v1", "evaluations", "jobs">>
JobUrl(request) == Append(host.source \o JobPath, request)
JobSchema == "EvaluationJobResource"
ApiRevision == "v1"

PerTenant(job) == IF host.isCorrelated THEN "cycle" ELSE "tenant"   \* mutant
Correlation(job) == IF host.isCorrelated THEN "cycle" ELSE job.resource

(* The id of an envelope is the pair of its producer and its evidence id. *)
Normalize(job, request) ==
    LET complete == HasCompleteOci(job) IN
    [id |-> <<JobUrl(request), job.resource>>, producer |-> JobUrl(request),
     schema |-> JobSchema, revision |-> ApiRevision, scope |-> host.scope,
     job |-> job.resource, correlation |-> Correlation(job),
     subject |-> "model", status |-> MeasuredStatus(job), confidence |-> host.confidence,
     observed |-> job.updated, expires |-> job.updated + Validity,
     state |-> job.state, kind |-> ResultKind(job), tested |-> job.test # "none",
     artifacts |-> OciArtifacts(job), response |-> ResponseDigest(job),
     mode |-> IF complete THEN "oci-manifest" ELSE "authenticated-api-response",
     artifact |-> IF complete THEN OciDigest(OciArtifacts(job)) ELSE ResponseDigest(job),
     located |-> complete /\ Len(OciArtifacts(job)) = 1]

-----------------------------------------------------------------------------
(* The policy pack. *)

PinnedDigests(item) == {item.artifacts[i].oci : i \in DOMAIN item.artifacts}

(* _provenance_problem finds none. *)
HasSoundProvenance(item) ==
    \/ /\ item.mode = "authenticated-api-response"
       /\ item.artifact = item.response /\ ~item.located
    \/ /\ item.mode = "oci-manifest"
       /\ item.artifacts # <<>>
       /\ item.artifact = OciDigest(item.artifacts)
       /\ item.located <=> Len(item.artifacts) = 1

AnyTime(item, receipt) == TRUE   \* mutant
IsInWindow(item, receipt) == item.observed <= receipt.at /\ receipt.at <= item.expires

(* _verification_problem finds none: the receipts are complete, trusted,    *)
(* not empty, and of the time the evidence is valid.                        *)
IsVerified(i) ==
    /\ evidence[i].artifacts # <<>>
    /\ {r.digest : r \in receipts[i]} = PinnedDigests(evidence[i])
    /\ \A r \in receipts[i] :
           r.verifier \in TrustedVerifiers /\ r.hasContent /\ IsInWindow(evidence[i], r)

(* _url_is_at_or_below the prefix of the policy, segment by segment. *)
IsTrusted(item) == IsPrefix(host.trusted, item.producer)
LacksTest(item) ==
    /\ item.kind \in {"collection", "job-result"}
    /\ item.state \in {"completed", "partially_failed"}
    /\ ~item.tested
LacksOci(item) ==
    host.requiresOci /\ item.kind # "job-execution" /\ item.mode # "oci-manifest"

IsAdmitted(i) ==
    LET item == evidence[i] IN
    /\ item.schema = JobSchema /\ item.revision = ApiRevision
    /\ IsTrusted(item)
    /\ item.scope = host.cycle
    /\ item.state \in Terminal
    /\ item.kind \in {"collection", "job-result", "job-execution"}
    /\ item.id = <<item.producer, item.job>>
    /\ item.kind = "job-execution" <=> item.state \in {"failed", "cancelled"}
    /\ ~LacksTest(item)
    /\ HasSoundProvenance(item)
    /\ ~LacksOci(item)
    /\ host.requiresVerified => IsVerified(i)
    /\ ~BelowFloor(item)

EvalHubEvidencePolicy ==
    [check |-> "evalhub-evidence-v1alpha1",
     allowed |-> \A i \in DOMAIN evidence : IsAdmitted(i), refs |-> Known]

HardIfExecution(item) == item.state = "failed"   \* mutant
IsHard(item) == item.status = "failed"
PromotionConstraint(item) ==
    [id |-> <<item.job, item.state, item.kind, item.status, item.artifact>>,
     name |-> "promotion-review-required", hard |-> IsHard(item),
     refs |-> {item.artifact}]
PromotionConstraints ==
    LET concerning == InOrder({i \in DOMAIN evidence : IsConcerning(evidence[i])}) IN
    [n \in DOMAIN concerning |-> PromotionConstraint(evidence[concerning[n]])]

-----------------------------------------------------------------------------
(* The host: receive, verify_evalhub_oci_artifacts, and run.  An error      *)
(* before the cycle leaves the gate at "refused".                           *)

Stay == UNCHANGED <<policies, round, classified, objective, plan, checks, package>>

Receive(job) ==
    /\ gate = "receive"
    /\ fetched' = Append(fetched, job)
    /\ IF ~IsNormalizable(job)
       THEN gate' = "refused" /\ UNCHANGED <<evidence, receipts>>
       ELSE /\ evidence' = Append(evidence, Normalize(job, Len(fetched) + 1))
            /\ receipts' = Append(receipts, {})
            /\ gate' = IF Len(fetched') < host.requests THEN "receive"
                       ELSE IF host.isVerifying THEN "verify" ELSE "run"
    /\ UNCHANGED <<host, time>> /\ Stay

(* get_job raises: the hub or the transport fails, or what arrives is no    *)
(* JSON object within the limits.                                           *)
FetchFails ==
    /\ gate = "receive"
    /\ gate' = "refused"
    /\ UNCHANGED <<evidence, host, time, fetched, receipts>> /\ Stay

(* The artifacts that have no receipt yet.  One receipt serves every        *)
(* benchmark of the job with the same reference.                            *)
Unverified(i) == PinnedDigests(evidence[i]) \ {r.digest : r \in receipts[i]}

VerifyArtifact(i, answer) ==
    /\ gate = "verify"
    /\ \A j \in 1 .. i - 1 : evidence[j].mode = "oci-manifest" /\ Unverified(j) = {}
    /\ evidence[i].mode = "oci-manifest"
    /\ \E digest \in Unverified(i) :
           receipts' = [receipts EXCEPT ![i] = @ \union
               {[digest |-> digest, verifier |-> answer.verifier,
                 hasContent |-> answer.hasContent, at |-> time]}]
    /\ UNCHANGED <<gate, evidence, host, time, fetched>> /\ Stay

Verified ==
    /\ gate = "verify"
    /\ \A i \in DOMAIN evidence : evidence[i].mode = "oci-manifest" /\ Unverified(i) = {}
    /\ gate' = "run"
    /\ UNCHANGED <<evidence, host, time, fetched, receipts>> /\ Stay

(* No complete OCI manifest, or the verifier raises. *)
VerificationFails ==
    /\ gate = "verify"
    /\ \E i \in DOMAIN evidence : evidence[i].mode # "oci-manifest" \/ Unverified(i) # {}
    /\ gate' = "refused"
    /\ UNCHANGED <<evidence, host, time, fetched, receipts>> /\ Stay

(* The evidence gates of the kernel. *)
RepeatsEvidence ==
    \E i, j \in DOMAIN evidence : i # j /\ evidence[i].id = evidence[j].id
IsTaken(item) ==
    /\ item.scope = host.cycle
    /\ item.observed <= Now /\ Now < item.expires
Run ==
    /\ gate = "run"
    /\ time = Now
    /\ gate' = IF \/ Cardinality({item.correlation : item \in Items}) # 1
                  \/ RepeatsEvidence
               THEN "refused"
               ELSE IF \A item \in Items : IsTaken(item) THEN "policy" ELSE "rejected"
    /\ UNCHANGED <<evidence, host, time, fetched, receipts>> /\ Stay

Tick ==
    /\ gate \in {"receive", "verify", "run"}
    /\ time < Now
    /\ time' = time + 1
    /\ UNCHANGED <<vars, host, fetched, receipts>>

Refused == gate = "refused" /\ UNCHANGED evalVars

InCycle ==
    /\ \/ ~SharesArtifact /\ EvaluatePolicy(EvalHubEvidencePolicy)
       \/ Classify(PromotionConstraints)
       \/ StandaloneObjective \/ StandalonePlan \/ StandaloneCheck
       \/ CitationRepeats \/ Gates
    /\ UNCHANGED <<host, time, fetched, receipts>>

EvalHubInit ==
    /\ gate = "receive" /\ evidence = <<>> /\ policies = <<>> /\ round = 0
    /\ classified = <<>> /\ objective = Absent /\ plan = Absent /\ checks = <<>>
    /\ package = Absent
    /\ host \in Hosts /\ time = 0 /\ fetched = <<>> /\ receipts = <<>>

EvalHubNext ==
    \/ \E job \in Jobs[host.hub] : Receive(job)
    \/ FetchFails
    \/ \E i \in DOMAIN evidence, answer \in Receipts : VerifyArtifact(i, answer)
    \/ Verified \/ VerificationFails \/ Run \/ Tick \/ Refused
    \/ InCycle

EvalHubSpec == EvalHubInit /\ [][EvalHubNext]_evalVars

-----------------------------------------------------------------------------
(* Properties. *)

(* Without a correlation id from its host every job has one of its own, so  *)
(* the source's jobs make a cycle only one at a time; a host that gives one *)
(* gets them all into one cycle (adapters/evalhub.py:383, 538-568;          *)
(* kernel.py:226-229).                                                      *)
OwnCorrelationsNeverMeet ==
    ~host.isCorrelated /\ gate \notin {"receive", "verify", "run", "refused"} =>
        \A i, j \in DOMAIN fetched : fetched[i].resource = fetched[j].resource

(* A cycle ends without a constraint, and so without a proposal, only when  *)
(* every job completed and passed its overall test, on evidence that is     *)
(* fresh, of the scope of the cycle and from below the trusted URL, and     *)
(* carries what the policy was told to require: every benchmark pinned, and *)
(* every pinned artifact verified by a trusted verifier while the evidence  *)
(* was valid (docs/evalhub-integration.md, state semantics).                *)
UnreviewedJobsPassed ==
    gate = "no_candidate" =>
        \A i \in DOMAIN fetched :
            LET job == fetched[i] IN
            /\ job.state = "completed" /\ job.test = "pass"
            /\ job.updated <= Now /\ Now < job.updated + Validity
            /\ host.scope = host.cycle /\ IsPrefix(host.trusted, JobUrl(i))
            /\ host.requiresOci =>
                   /\ job.benchmarks # <<>>
                   /\ \A k \in DOMAIN job.benchmarks : job.benchmarks[k].oci # "none"
            /\ host.requiresVerified =>
                   \A k \in DOMAIN job.benchmarks :
                       job.benchmarks[k].oci # "none" =>
                           \E r \in receipts[i] :
                               /\ r.digest = job.benchmarks[k].oci
                               /\ r.verifier \in TrustedVerifiers
                               /\ r.at \in job.updated .. job.updated + Validity

(* In a packaged cycle each job that failed or failed its test is a hard    *)
(* constraint, each cancelled or partially failed one a soft one, a passing *)
(* one none, and the selected review covers them all.                       *)
ConcerningJobsAreReviewed ==
    gate = "packaged" =>
        LET chosen == CHOOSE c \in package.candidates : c.id = package.selected
            ConstraintsOf(i) ==
                {k \in package.constraints : k.refs = {evidence[i].artifact}}
        IN  /\ chosen.action = "request_review"
            /\ \A i \in DOMAIN fetched :
                   LET job == fetched[i]
                       isHard == \/ job.state = "failed"
                                 \/ job.state = "completed" /\ job.test = "fail"
                       isSoft == job.state \in {"cancelled", "partially_failed"}
                   IN  /\ {k.hard : k \in ConstraintsOf(i)} =
                              {h \in BOOLEAN : IF h THEN isHard ELSE isSoft}
                       /\ \A k \in ConstraintsOf(i) : k.id \in chosen.constraints

(* The adapter's evidence always fits the pack that admits it: the policy   *)
(* turns a cycle down only for what a job lacks (its test, complete OCI     *)
(* provenance, verified content, confidence) or because the host fetches it *)
(* from a URL it does not trust, never because the two disagree on schemas, *)
(* scopes, revisions, identities, kinds, states or digests                  *)
(* (adapters/evalhub.py:306-406, policy_packs/evalhub.py:49-112, 214-262).  *)
RejectedForCause ==
    gate = "rejected" /\ policies # <<>> =>
        \E i \in DOMAIN fetched :
            LET job == fetched[i] IN
            \/ ~IsPrefix(host.trusted, JobUrl(i))
            \/ host.confidence < MinConfidence
            \/ job.test = "none" /\ job.state \in {"completed", "partially_failed"}
            \/ /\ host.requiresOci /\ job.state \in {"completed", "partially_failed"}
               /\ \/ job.benchmarks = <<>>
                  \/ \E k \in DOMAIN job.benchmarks : job.benchmarks[k].oci = "none"
            \/ host.requiresVerified /\ (receipts[i] = {} \/ \E r \in receipts[i] :
                   \/ r.verifier \notin TrustedVerifiers
                   \/ ~r.hasContent
                   \/ r.at < job.updated)

=============================================================================
