# Formal model of GCL OSS

TLA+ modules, TLC configurations and TLAPS proofs for the governance kernel in
`src/gcl_oss` and the components around it. Paths below are relative to the
repository, whose package is `src/gcl_oss`.

GCL OSS turns machine-generated evidence into signed, expiring *proposals*. It
executes nothing; a separate authority decides. What must not go wrong is
therefore: a proposal that the evidence does not support, one that is delivered
twice, one whose derivation was not recorded first, and one that claims a
delivery that did not happen.

## 1. Inventory

| Component | State it keeps | Operations | Talks to |
|---|---|---|---|
| **Governance kernel** `kernel.py` | replay cache, run lock per event loop; the locals of each `_run_once` across its awaits | `run` (lock, lookup, cycle), `_record`, `_reject` | every port; proof recorders; proposal sink; host |
| **Decision contracts** `contracts.py`, `ports.py` (`Plan`) | none (immutable values) | validators, above all `DecisionPackage.coherent_package`; `SignedDecisionPackage.from_signature/verify` | built by ports and kernel, read by the consumer |
| **Action registry** `registry.py` | registered definitions, filled before the kernel runs | `register`, `get`, `validate` | kernel's plan gate |
| **Built-in ports** `builtin.py` | recorder and sink lists | confidence policy, freshness check, failed-measurement classifier, risk objective, review planner, standalone registry | kernel |
| **OCI verifier** `adapters/oci.py` | bearer-token cache shared by worker threads | `verify`: manifest, descriptors, 401 token exchange, size limits | registry and token service over HTTP |
| **EvalHub adapter** `adapters/evalhub.py`, `evalhub_oci.py` | none | fetch, `normalize_evalhub_job`, `verify_evalhub_oci_artifacts` | EvalHub API, artifact verifier |
| **EvalHub policy pack** `policy_packs/evalhub.py` | none | evidence policy, promotion classifier | kernel |
| **TrustyAI adapter and pack** `adapters/trustyai_service.py`, `policy_packs/trustyai_service.py` | none | six metric contracts, response models with their verdicts, `normalize_trustyai_metric`, the evidence source; evidence policy, runtime-review classifier | TrustyAI service, kernel |
| **Consumer** (host code; `SignedDecisionPackage.verify` in `contracts.py`) | none here | verifies a package at an instant against what it expects | kernel's results, replayed or delivered |
| **Command line** `cli.py` | none | builds one kernel, runs one cycle | all of the above |
| **Schemas, deployment** | none | generation, manifests | - |

How they interact: the host passes a batch of envelopes to `run`. Under the run
lock the kernel looks the cycle key up in the replay cache; on a miss it takes
the batch through evidence gates, policies, classifiers, objective, planner and
falsification checks, recording each outcome in every proof recorder before it
goes on, then signs and hands the package to the sink, caches the result and
records it. Each of these is an `await` at which other tasks run, ports may
raise and the host may cancel.

Hard behaviours, and what makes each component correct:

- **Kernel.** Concurrent exact retries; a recorder that fails after others have
  stored the entry; a sink that times out although the package arrives;
  cancellation at any await; one reading of the clock used through a long cycle;
  a rejection that is recorded before it is cached. Correct means: at most one
  offer per cycle key unless a call was cancelled mid-propose; one final verdict;
  nothing offered before its derivation is in every recorder; `proposed` only
  for a package the consumer has; packages inside their evidence's windows; the
  lock always released.
- **Kernels in several places.** The lock belongs to one event loop and the default
  cache to one process; a host may run several of each, share a cache between them
  and restart. Correct means: each loop still proposes a key once, a loop with a
  cache of its own keeps the whole promise, and what a consumer accepts is current
  however old the cached result is.
- **Contracts, gates, registry.** Five independent ports answer; each answer is
  checked where it arrives and everything again in the package. Correct means
  that the gates are at least as strict as the package (no cycle fails after its
  checks are recorded) and that nothing unregistered is packaged.
- **Built-in ports.** Written separately from the gates that judge them. Correct
  means that they fit: the verdict is the one the evidence calls for and no
  admitted evidence makes them raise, with one exception the model isolates.
- **OCI verifier.** Threads share a token cache without a lock. Correct means that
  a receipt certifies every pinned byte within all limits, no token leaves its
  repository, no thread fails on another's stale token, and retries end.
- **EvalHub.** Adapter, binding and pack each derive kind, status, digest and
  time. Correct means that no job that failed, was cut short or lacks what
  was required passes without review, and that a rejection always has a cause.
- **TrustyAI.** A verdict is derived three times, by the service, the response model
  and the policy pack, against bounds it may equal; metrics are computed one after
  the other and dated by the host. Correct means that the three agree, that no
  breached metric ends quietly and none is reviewed for another's breach.

The full list of hazards with their lines is in `PROJECT.json`.

## 2. Modules

| Module | Models | Size of its state |
|---|---|---|
| `GovernanceKernel` | `run` and `_run_once`: one action per stretch of code between two awaits | all calls, lock, queue, cache, recorders, sink, consumer, clock |
| `ProposalLedger` | abstract: what the kernel promises per cycle key | phase and offers of each key |
| `GovernanceKernelProofs` | proofs about the two: lock, cache, offers | |
| `KernelRecordProofs` | proofs about the first: journals, receipts, packages, answers | |
| `KernelHosts` | kernels of several event loops and processes, caches of their own or shared, restarts, and the consumer's `verify` | stage of each loop, caches, packages sent |
| `KernelHostsProofs` | proofs about it and the ledger | |
| `CycleGates` | what the kernel checks of each answer, and `coherent_package` | one cycle and its answers |
| `CycleGatesProofs` | proofs about it | |
| `StandaloneCycle` | the built-in ports, extending `CycleGates` | same |
| `StandaloneCycleProofs` | proofs about it, and what the two service cycles share with it | |
| `EvalHubCycle` | adapter, OCI binding, policy pack, extending `StandaloneCycle` | plus host set-up, jobs, receipts, host clock |
| `EvalHubCycleProofs` | proofs about it | |
| `TrustyAiCycle` | metric contracts, response models, adapter, source, policy pack, extending `StandaloneCycle` | plus host set-up, responses, host clock |
| `TrustyAiCycleProofs` | proofs about it | |
| `OciVerifier` | `OCIRegistryVerifier` with its threads | phase, part, token of each thread, token cache |
| `OciVerifierProofs` | proofs about it | |
| `MC*` | values and bounds for TLC | |

`GovernanceKernel` and `CycleGates` split `_run_once` between them: the first
has control, concurrency and failure and leaves the answers open (a port allows,
denies, produces some constraints, selects an action, raises); the second has
one cycle and the contents of the answers. Every gate that refuses an answer in
`CycleGates` is the action `PortRaises` of `GovernanceKernel`: in the code both
end the call by an exception with nothing cached.

### GovernanceKernel

`pc[c]` is the await at which call `c` is suspended, `frame[c]` its locals: `now`,
the loop index `i`, how many constraints there are, whether something vetoed,
the action, the entry being recorded and the recorder whose turn it is, and the
receipts so far. A *batch* stands for the arguments of `run`. The cycle key is
a digest of exactly these and does not depend on their order, so a batch is its
own key (`_evidence_sort_key`, `_cycle_key`). `lock` and `queue` are the
asyncio lock with its first-in-first-out waiters. `cache` is
`InMemoryReplayCache`. `offered[b]` are the packages passed to `propose`;
`inbox[b]` those that have reached the consumer, at any time after the offer, also
after `propose` has timed out, or never. `abandoned` is a history variable: the
propose calls the host cancelled.

`_record` is the actions `Store` (one recorder), `RecorderRaises` (with or without
the entry stored) and the `Recorded...` action that continues the code that
awaited it. `FailClosed`, `LeaveUnrecorded` and `ReportUnproved` are the three
ways the code treats a recorder's exception: before delivery, after an uncertain
one and after an acknowledged one. `CancelInside` stands for `CancelledError` at
any await inside the lock: no `except Exception` of the cycle catches it and
only `async with` runs. `Refuse` is every exception between the lookup and the first
record: the batches that `run` refuses and, where `ClockMayFail`, a clock that raises or
tells a time without a zone.

Lines of the cycle with no await between them are one action; for example the
expiry, the package, the signature's answer and the call of `propose` are
`SignAndPropose`.

### CycleGates

Each port has one action with an answer from a constant set. The contracts that
every answer type enforces by itself (`Plan`, `ObjectiveSpec`, distinct ids) are
`ASSUME`d of these sets, since the code cannot construct other values. Lists that
a contract requires to hold no duplicates are sets. Objective weights are integers
that sum to `Unit`; the sums the code compares are then exact, so rounding
of `objective_cost` and the tolerance `1e-9` on the sum of weights are outside the
model. `IsCoherent` translates the clauses of `coherent_package` one by one and
`BuildPackage` raises when one fails.

### KernelHosts

Of a cycle only what touches the cache or the sink is kept: the lookup, the one
reading of the clock, the refusal, the offer, and the two writes of the result
(`Settle`, `Finish`), each a step of one event loop. Steps of other loops come
between any two of them, since the lock (`kernel.py:150`) is of one loop. `host`
says which loops a process has, which cache each process was given, and which
caches are durable. `Restart` ends the cycles of all loops of a process and wipes
its cache unless that is durable. `sent` are the packages that have left a
kernel, to a sink or, replayed, to a caller; what a consumer does with one is the
predicate `IsVerified`, which translates `SignedDecisionPackage.verify`. There is no
clock variable: a reading is any instant, later or earlier than the one before, as
of wall clocks.

### StandaloneCycle, EvalHubCycle, TrustyAiCycle

The same variables and gates, with the port answers computed from the evidence by
the code of `builtin.py` or of a policy pack and not chosen. The built-in
policies and checks cite the artifact digest of *every* envelope; `PolicyResult`
refuses a repeated citation, so `CitationRepeats` is a port that raises. A loop that
skips some envelopes (`continue`) visits the others in their order: `InOrder` is the
list of the positions that are left, defined by their ranks and without recursion, so
that the proofs can use it.

`EvalHubCycle` adds `Receive` (a job with any state, tests and artifacts is refused or
normalised), `FetchFails`, `VerifyArtifact` (a receipt stamped with the host's clock),
`Verified`/`VerificationFails`, and `Run`, the kernel's evidence gates; then the
cycle goes on as in `StandaloneCycle`. The constant `Hosts` holds the set-ups a
host may have (number of jobs, a common correlation id or none, verification,
requirements, the URL it fetches from and the one it trusts, the scope of its source
and that of its cycle) and `host` is the one of this behaviour. A URL is the sequence of
its origin and path segments, so `_url_is_at_or_below` is `IsPrefix`. `IsAdmitted` has
every denial of the pack, those too that no envelope of this adapter meets: the schema,
the API revision, the identity, and the scope, which the kernel compares before any
policy runs. That they are not met is part of what `RejectedForCause` says.

`TrustyAiCycle` has the same shape. `Receive` is one exchange: the response model of
the metric (`IsPValueResponse`, `IsThresholdResponse`, `IsJensenShannonResponse`,
`IsFairnessResponse`), the match of response and request, and the envelope. The pack
derives the verdict again from the envelope alone (`KeepsContract`). Floating-point
values are integers: the code only compares them.

In both, digests are represented by what they are digests of, so two digests are
equal only if their inputs are.

### OciVerifier

One thread per verification (`asyncio.to_thread`). The manifest is part 0, its
descriptors follow. `Send` reads the shared token cache, `Challenged`, `Granted`,
`Store`, `Resend` are the 401 path of `_get`, with the token in the thread's hands
between the exchange and the write to the cache. The registry may answer each
request with any body, challenge or error.

## 3. What the runs check

| Run | Instance | Shows |
|---|---|---|
| `KernelRetries` | 3 callers x 2 calls of one batch, 2 recorders, no cancellation | `OfferedAtMostOnce`, `AnswersAgree`, `DeliveryProvedOrReported`, `VerdictIsFinal` |
| `KernelCancellation` | 2 callers x 2 calls, 2 recorders, cancellation at any await | `TypeOK`, `OffersAccounted`, `ProposedIsDelivered`, `ProofPrecedesOffer`, `ReceiptsAreStored` |
| `KernelTime` | 2 callers over 5 kinds of batches, clock to 2, cancellation, fairness | `PackageWithinEvidence`, refinement `ImplementsLedger`, liveness `EveryCallReturns` |
| `KernelCancelRedelivers` | 2 callers x 2 calls, cancellation | violated: first finding below |
| `KernelInvalidRaises` | 1 caller, every kind of batch | violated: second finding below |
| `KernelHosts` | 3 loops in 2 processes, 3 set-ups of caches, 1 restart, 1 cancelled proposal per loop | `TypeOK`, `OncePerLoop`, `VerifiedIsCurrent`, `LoneLoopsKeepLedgers` (steps of the abstract ledger) |
| `GatesCoherence` | 2 policies, 2 classifiers, plans of one and two out of 11 candidates, and one answer that each gate refuses | `GatesImplyCoherence`, `PackageIsGoverned` |
| `StandaloneVerdicts` | all cycles of up to 3 envelopes over 3 artifacts, confidence at and below the floor, all statuses | `RaisesOnlyOnSharedArtifact`, `VerdictFollowsEvidence`, `ConcernsAreGoverned` |
| `StandaloneUngoverned` | the same; the planner governs another constraint name | `PlannerKeepsToItsNames` |
| `OciVerification` | 2 threads, 2 repositories, manifests at, over and beside each limit, refused tokens, fairness | `ReceiptIsSound`, `TokensKeepScope`, `RefusedTokenIsFresh`, liveness `VerificationEnds` |
| `EvalHubJobs` | 16 host set-ups: 2 jobs of any state, test and pinning, with and without a correlation id; 1 job verified while the clock moves; trusted URLs of another origin and above, at, below and beside the jobs; a cycle of another scope | `UnreviewedJobsPassed`, `ConcerningJobsAreReviewed`, `RejectedForCause`, `OwnCorrelationsNeverMeet`, `RaisesOnlyOnSharedArtifact` |
| `TrustyAiMetrics` | each of the six kinds alone and three pairs, with every shape of response and the clock moving | `QuietMetricsHold`, `BreachesAreReviewed`, `RejectedForCause`, `OwnCorrelationsNeverMeet`, `ExchangesDiffer` |

Each property of a passing run has a mutation of the model, a plausible bug in
the code it models, that makes TLC report the property violated
(`PROJECT.json`, "mutants"; the mutated operators stand beside the originals and
are marked).

**Bounds, and why they are enough.** `MaxCalls` and the callers: a cycle key
distinguishes only a call that finds the key open from one that finds it decided, and
the lock admits one at a time; with three callers of two calls there is a first, a
concurrent second and a later retry, in every order. `Recorders = 2` is the smallest
number with a recorder that succeeds before one that fails. `MaxConstraints = 1`,
`Policies = 1` and `Classifiers = 1` in the kernel runs: their loops keep only a flag
and a count, and `CycleGates` has two of each, for duplicates among them. `MaxTime =
2` with envelopes expiring at 2, 3 and 4 and `Ttl = 2` lets each of them be the
earliest expiry, and evidence become fresh or stale before and during a call. Batches
*good*, *late*, *foreign*, *twice* and *empty* reach each way out before the policies.
In `GatesCoherence` the sets of answers hold a valid answer and, for each gate, one
that only this gate refuses. In `KernelHosts` two loops share a process and the third
has one of its own, with a cache of its own (durable or not) or the one durable cache
of all: every way two loops can and cannot share. One key suffices, since keys meet in
no variable; instants 0 to 3 with `Ttl = 2` and windows 0..3 and 1..4 let the ttl and
each window be the earliest expiry. In `OciVerification` both requests may use one
repository or two, with and without an identity token, and sizes are one below, at and
one above each limit. In `EvalHubJobs` a job that is verified is updated at 0..3 while
the host lives from 0 to 2, so receipts fall before, into, on the edges of and after
the window; the trusted URLs include one that is a textual prefix of the
producer's and no prefix of its segments, and one job's own URL in a cycle of two.
In `TrustyAiMetrics` every number lies below, at and above the bound it is
compared with, with the verdict that fits and the one that does not; the pairs are two
families, one metric twice, and two metrics of one shape.

**Symmetry** of the callers is used only in `KernelCancellation`, which checks
invariants only.

**Deadlock** is checked in every run; the actions `Rest`, `Over` and `Refused`
are the states in which the program may really stop.

**Fairness.** `FairSpec` of the kernel is weak fairness of `Proceed(c)`, all steps of
one call: the event loop runs ready tasks, the asyncio lock wakes its waiters in
order, and every port, recorder and sink eventually answers or raises. The last is an
assumption about the host's ports: the kernel sets no timeout of its own. Nothing is
assumed of the host's cancellations and restarts, of the clock or of delivery to the
consumer. `FairSpec` of the verifier is weak fairness of each thread: every request of
`urllib` carries a timeout, so it is answered or fails. Weak fairness suffices because
a waiter at the head of a free lock, and a thread with a step to take, stay able to
take it.

## 4. Findings

`KernelCancelRedelivers` violates `OfferedAtMostOnce`. `docs/architecture.md:103`
says that an exact retry "returns the cached result and does not deliver the
proposal again", and `docs/diagrams/failure-workflows.md:56` that exact retries
"never redeliver automatically". The handler around `propose` (`kernel.py:480`)
is `except Exception`, which does not catch `asyncio.CancelledError`. A host that
cancels `run` (for example by `asyncio.wait_for`) while `propose` is in flight
leaves nothing in the cache although the consumer may already hold the package; the
next exact retry runs the cycle again and offers a second package of the same key.
`OffersAccounted`, checked and proved with cancellation, says that this is the only
way to a second offer.

`KernelInvalidRaises` violates `InvalidIsRejected`.
`docs/diagrams/failure-workflows.md:12-15` asks whether scope, identity, freshness,
correlation and uniqueness are valid and, if not, shows "Record evidence.rejected then
decision.rejected" and "Cache rejected result". The code does so for scope and
freshness only. A batch with several correlation ids, or with one producer and
evidence id twice, raises at `kernel.py:226-234` before anything is recorded or
cached: no proof recorder learns of it and an exact retry starts over.

The exception in `RaisesOnlyOnSharedArtifact` is not a divergence from a document,
and therefore a property and not a finding: two envelopes with one artifact digest
are admitted by the kernel but make the built-in policies build a `PolicyResult`
that its validator refuses, and the cycle raises.

## 5. What is proved

TLAPS proves the following for all values of the constants allowed by the named
assumptions: any number of callers, calls, batches, recorders, policies,
classifiers, loops, processes, caches, threads, manifests and metrics.

| Theorem | Says |
|---|---|
| `GovernanceKernelProofs!TypeCorrect` | `Spec => []TypeOK` |
| `OffersAreAccounted` | `Spec => []OffersAccounted`: each offer is in flight, cached or cancelled by the host |
| `RetriesNeverRedeliver` | without cancellation, `[]OfferedAtMostOnce` |
| `VerdictsAreFinal` | `Spec => VerdictIsFinal`: no step changes a cached verdict |
| `KernelImplementsLedger` | `Spec => ImplementsLedger`, the refinement |
| `KernelRecordProofs!ProofsPrecedeOffers` | `Spec => []ProofPrecedesOffer` |
| `PackagesWithinEvidence` | `Spec => []PackageWithinEvidence` |
| `ReceiptsAreAlwaysStored` | `Spec => []ReceiptsAreStored` |
| `ProposalsAreDelivered` | `Spec => []ProposedIsDelivered` |
| `AnswersAlwaysAgree` | `Spec => []AnswersAgree` |
| `DeliveriesProvedOrReported` | without cancellation, `[]DeliveryProvedOrReported` |
| `KernelHostsProofs!KernelHostsTypeOK` | `Spec => []TypeOK` |
| `LoopsProposeOnce` | `Spec => []OncePerLoop` |
| `VerifiedPackagesAreCurrent` | `Spec => []VerifiedIsCurrent` |
| `LoneLoopsImplementLedgers` | `Spec => LoneLoopsKeepLedgers`: the steps of a loop with its own cache are steps of `ProposalLedger` |
| `CycleGatesProofs!PackagesAreCoherent` | `Spec => []GatesImplyCoherence` |
| `PackagesAreGoverned` | `Spec => []PackageIsGoverned` |
| `OciVerifierProofs!TokensStayInScope` | `Spec => []TokensKeepScope` |
| `RefusalsAreOwn` | `Spec => []RefusedTokenIsFresh` |
| `ReceiptsAreSound` | `Spec => []ReceiptIsSound`: complete, and within the limit on the sum |
| `StandaloneCycleProofs!PortsNeverRaise` | `StandaloneSpec => []RaisesOnlyOnSharedArtifact` |
| `VerdictsFollowEvidence` | `StandaloneSpec => []VerdictFollowsEvidence` |
| `DeclinesOtherNames` | `StandaloneSpec => []PlannerKeepsToItsNames` |
| `ConcernsCauseReview` | `StandaloneSpec => []ConcernsAreGoverned` |
| `EvalHubCycleProofs!QuietJobsPassed` | `EvalHubSpec => []UnreviewedJobsPassed` |
| `ConcernsAreReviewed` | `EvalHubSpec => []ConcerningJobsAreReviewed` |
| `PackReadsAdapter` | `EvalHubSpec => []RejectedForCause` |
| `JobsStayApart` | `EvalHubSpec => []OwnCorrelationsNeverMeet` |
| `PackNeverRaises` | `EvalHubSpec => []RaisesOnlyOnSharedArtifact` |
| `TrustyAiCycleProofs!AdapterAndPackAgree` | `TrustyAiSpec => []RejectedForCause` |
| `MetricsStayApart` | `TrustyAiSpec => []OwnCorrelationsNeverMeet` |
| `ExchangesStayDistinct` | `TrustyAiSpec => []ExchangesDiffer` |
| `QuietCyclesHold` | `TrustyAiSpec => []QuietMetricsHold` |
| `BreachesCauseReview` | `TrustyAiSpec => []BreachesAreReviewed` |

Every invariant, action property and refinement that a passing run checks is therefore
proved for all values of the constants; TLC alone checks the two liveness properties.
Each proof module also states its inductive invariant as a theorem (`Invariance`,
`RecordInvariance`, `KernelHostsIInv`, `GatesInvariance`, `VerifierInvariance`,
`StandaloneInvariance`, `EvalHubInvariance`, `TrustyInvariance`).

*Assumptions of the kernel proofs*: no caller is `NoCaller` and no action
`NoAction`; there is a batch; the sizes are naturals, with at least one classifier
and a positive ttl; evidence windows are not empty; each registered action requires
at least one check (`contracts.py`, `registry.py` enforce the last two).

*Argument for lock, cache and offers.* `OffersAccounted` alone is not inductive: a
call that offers must know that the key is undecided, and that no other call is
offering. The inductive invariant `IInv` adds `LockHeld` (the call in the body of a
cycle is exactly the lock's holder), `OpenWhileRunning` (past the lookup the key
stays undecided until this call settles it) and `SettledWhileRecording` (during the
last record the cache holds this call's delivery, with receipts the call also
holds). The thirty-odd actions are first sorted into nine kinds by what they do to
the lock, the cache and the offers (`StepKind`); the invariant, the finality of
verdicts and the refinement are then shown of each kind. Typing needs each action
and has a lemma of its own.

*Argument for the records.* `RecordInv` follows one call (`CallInv`): at each point of
its cycle, everything the point has behind it is in the journal of every recorder
(`EvidenceProved` to `ChecksProved`), all of it was admitted at the call's `now`, and
the recorders before the current one hold the entry that is being recorded
(`StoredSoFar`). Journals only grow (`JournalsGrow`), so what has been stored stays, and a
step of one call leaves the others' locals alone (`CallsAlone`); one lemma per action
shows its own call's part. At the offer `CallInv` gives `OffersSound`, from which
`ProofPrecedesOffer` and `PackageWithinEvidence` follow. `CacheWrites` lists what the five
actions that write to the cache put there, from which `ReceiptsAreStored` and
`ProposedIsDelivered` follow; `AnswersCached` (an answered verdict is the cached one)
with the finality of verdicts gives `AnswersAgree`. `DeliveryProvedOrReported` needs
besides that the last event names the verdict it is recorded for
(`SettlesAsRecorded`), that an unreserved delivery in the cache is proved or just being
proved (`CachedIsProved`), and that nothing is cancelled in between.

*Argument for several hosts* (assumptions: caches of two processes are shared only if
durable; there is a key; windows and bounds are naturals, the ttl positive). The
invariant states for each loop how its history of offers stands to the cache it uses
at each stage: undecided at most as many offers as cancelled ones, decided at most one
more. A result that another loop puts or that is put again never makes a decided key
undecided, which is all that a loop relies on. A lone loop moreover is the only writer
of its cache, so its writes are the ledger's. For `VerifiedIsCurrent` the
invariant traces every package a result or a cache holds to one that was sent
(`Traced`), and keeps of those what `create` gave them (`Faithful`): an expiry within
the ttl and within every evidence window.

*Argument for the gates.* `GatesInv` states for each gate what the answers kept so
far are known to satisfy (`PoliciesAgree`, `ConstraintsDiffer`, `ObjectiveCovers`,
`PlanPassed`, `ChecksInOrder`, `ChecksSurvived`); the lemma `Coherence` derives every
clause of `coherent_package` from it, and `PlanPassed` the registration of what is
selected.

*Argument for the verifier* (assumptions: the limits are positive and a manifest's is
within the total; the registries are among the authorization hosts; a manifest is a
non-empty sequence of descriptors and larger than what it embeds; an admissible
request names a repository of the token cache). Each thread has an invariant of its
own: the token it holds was issued for its repository, a token it took from the cache
was put there for the same scope, and every part before the current one has been
received and matched. Threads meet only in the token cache, for which one clause
suffices: an entry of a scope is a token of that scope.

The limit on the sum needs in addition that `total`, the number the code counts up, is the
sum of the sizes accepted so far (`TotalsInv`). `SumFunction`, in the property, adds the
sizes of a list in an order the library leaves open; `AnyOrder` shows that any
order gives the same, and `PartialSums` that a sum grows by one element at a time. Both go
by induction on the number of elements, as a least counterexample, which exists because
the naturals are well founded (`NatLessThanWellFounded` and `WFMin`, which take a relation
and a set and no operator).

*Argument for the three cycles.* `StandaloneCycle`, `EvalHubCycle` and `TrustyAiCycle`
are the same gates with ports whose answers are computed. Their inductive invariants
have the parts in common that do not depend on which evidence policy and which
classifier answer, `GatesInv` and `PortsInv`: evidence past the gates is fresh, a
denial decides the cycle, constraints tell the envelopes apart, the objective and the
plan are the built-in ones for these constraints, every check survives, the package is
the one these make, a cycle without a candidate has nothing governed, and nothing has
raised unless two envelopes share an artifact. `StandaloneCycleProofs` proves once,
for each gate, that the built-in answer passes it (`PolicyPort` to `PackagePort`);
that a plan of `Review` and `Hold` selects `Review` (`ReviewPreferred`, from
`CostOfTwo`: the cost of a candidate is the sum of its two weighted values) is where
the weights of the objective matter. What is asked of a classifier is stated in a
lemma (`ClassifierPort`): a list of constraints that cite what is known, with ids that
differ unless envelopes share an artifact. `PickedList` gives this, and that each
envelope that calls for a constraint has one, for every list made with `InOrder`, from
`InOrderFacts`: the positions in ascending order are each named once, by a count of
the elements below. Assumptions: those of `CycleGates`; the registry is the built-in
one and its check configured; evidence is a list of envelopes observed no later than
now, with one of the four statuses.

*Argument for EvalHub* (assumptions: the windows and `Now` are natural and the
validity positive; a host asks for at least one job, of a known hub; the benchmarks of
a job are a list; a job's test is absent, passed or failed; a host that requires
verification trusts somebody; the source's URL is a sequence; the policy and the planner are those of
the command line). `HostInv` adds that each envelope is the normalisation of the job that was
fetched for it, that a receipt is of an artifact its envelope pins and not from the
future, that no job enters the cycle with only some of its artifacts verified, and
that the answers so far are the pack's. A rejection has a cause because the pack,
reading such an envelope, finds nothing but what the job itself lacks or a URL the host
does not trust, and the kernel has already compared the scopes; a quiet cycle
had passing jobs because whatever else a job was is either a denial or a constraint.

*Argument for TrustyAI* (assumptions: `One` and `Validity` positive, a host asks for
at least one metric and only for known kinds, at most one statistic is named, and the
policy and the planner are those of the command line). `HostInv` says of every
envelope that it is the normalisation of an answer to its request (`IsEnvelope`); case
by case of the three shapes, the verdict of the response model is then the one the
pack derives from the envelope, equality with a bound included. For the correlations:
without one from the host an envelope's correlation contains its exchange, so two
equal ones are the same exchange, which the kernel refuses as a repetition
(`AdmittedApart`); for the same reason no port raises. A quiet cycle has no breached
metric because each breach is a constraint, and each constraint is governed and
reviewed.

*What the proofs changed in the model.* `MeasuredStatus` of `EvalHubCycle` had been a
`CASE` with overlapping guards, and TLA+ leaves open which of two that hold is taken:
of a failed job without a test result it said nothing definite, although TLC takes the
first and found nothing wrong. It is now the chain of `IF`s that the code is
(`adapters/evalhub.py:322-352`). The filtered lists of the classifiers use `InOrder`
in place of `SelectSeq`, and what was true of every host the code can build but
assumed nowhere is now in the named assumptions, which TLC evaluates in the runs.

**Only model-checked.** Liveness (`EveryCallReturns`, `VerificationEnds`): the
prover does not reason about fairness and `ENABLED`. The library's induction theorems
with an operator parameter cannot be instantiated by the installed provers either; where
the proofs need induction, over numbers of elements, they take the least counterexample
instead. No module that is proved about uses a `RECURSIVE` operator of its own.

## 6. What is not modelled

- Signing, canonical JSON and digests: a digest is its input; a signature is ideal
  (only the seed that made it verifies it).
- HTTP details: headers, redirects, TLS, content types, size limits of JSON bodies and
  credential files appear as the outcomes "answered", "failed" and "refused".
- Field formats (patterns, lengths, time zones) of the contracts: values that break
  them cannot be built, so they reach no component. This includes the limit on
  `PolicyResult.reason` (`contracts.py:142`): a pack that denies very many envelopes of
  one cycle may exceed it, and then that policy raises (the action `PortRaises` of the
  kernel) where `EvalHubCycle` and `TrustyAiCycle` have a denial.
- Registration of actions: it precedes the kernel and is an assumption on the constants.
- Rounding of floating-point numbers: TrustyAI's values are only compared; objective
  weights and costs are sums the model keeps exact.
- The contents of a durable cache across versions of the library, and concurrent puts of
  unequal results to one shared cache as a defect: the documents exclude several writers
  (`docs/architecture.md`); `KernelHosts` has the behaviour and promises only what holds.
- Argument parsing, files, schema generation and deployment: no behaviour of the
  library. The order of the live commands of `cli.py` is that of `EvalHubCycle` and
  `TrustyAiCycle`.
- Telemetry: the hooks exist as a protocol and the kernel does not call them.

## 7. State of the plan

Done: kernel, ledger, gates, built-in ports, verifier, EvalHub, TrustyAI, several hosts,
the consumer's check, and the proofs of section 5, which now state every safety property
of the runs.

Left, in order of worth: a refinement from one loop of `KernelHosts` to
`GovernanceKernel`, in place of the two refinements of the common ledger; one from the
`CycleGates` of a cycle to the answers that `GovernanceKernel` leaves open, so that what the
two say of one call is one statement; type invariants of `CycleGates` and `OciVerifier` as
properties of their own, which so far are conjuncts of the inductive invariants.
