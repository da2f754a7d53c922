--------------------------- MODULE GovernanceKernel ---------------------------
(***************************************************************************)
(* The standalone governance kernel (src/gcl_oss/kernel.py): concurrent    *)
(* calls of GovernanceKernel.run on one asyncio event loop, serialised by  *)
(* the run lock around the replay cache, and the body of a governance      *)
(* cycle, _run_once, with one step per stretch of code between two awaits. *)
(*                                                                         *)
(* A batch stands for the arguments of run: the evidence, already sorted   *)
(* by _evidence_sort_key, and the scope.  The cycle key is a digest of     *)
(* exactly these, insensitive to the order of submission, so a batch is    *)
(* its own cycle key.  What the ports answer is nondeterministic: the      *)
(* kernel checks little of it, and what it does check is in CycleGates.    *)
(***************************************************************************)
EXTENDS Integers, Sequences

CONSTANTS
    Callers,          \* host tasks that call run
    NoCaller,
    Batches,          \* cycle keys
    Evidence,         \* the sorted evidence of each batch
    Policies,         \* number of policy checks configured
    Classifiers,      \* number of constraint classifiers configured
    MaxConstraints,   \* bound: constraints one classifier returns
    Actions,          \* registered actions a plan can select
    NoAction,
    RequiredChecks,   \* falsification checks the registry requires of each action
    ConfiguredChecks, \* falsification checks given to the kernel
    Recorders,        \* number of proof recorders configured
    Ttl,              \* decision_ttl
    Cancellable,      \* whether the host may cancel a call of run
    ClockMayFail,     \* whether the injected clock may raise or tell no zone
    MaxCalls,         \* bound: calls of run per caller
    MaxTime           \* bound: the last instant of the clock

Item == [id : Nat, correlation : Nat, inScope : BOOLEAN,
         observed : Nat, expires : Nat]

ASSUME CallersAssumption == NoCaller \notin Callers
ASSUME BatchesAssumption == Batches # {}
ASSUME ActionsAssumption == NoAction \notin Actions
ASSUME SizesAssumption ==
    /\ Policies \in Nat
    /\ Classifiers \in Nat \ {0}
    /\ MaxConstraints \in Nat
    /\ Recorders \in Nat
    /\ Ttl \in Nat \ {0}
    /\ Cancellable \in BOOLEAN /\ ClockMayFail \in BOOLEAN
    /\ MaxCalls \in Nat
    /\ MaxTime \in Nat

(* An envelope whose window is empty does not validate (contracts.py). *)
ASSUME EvidenceAssumption ==
    \A b \in Batches :
        /\ Evidence[b] \in Seq(Item)
        /\ \A i \in 1 .. Len(Evidence[b]) :
               Evidence[b][i].observed < Evidence[b][i].expires

(* An action without falsification checks does not register (registry.py). *)
ASSUME ChecksAssumption ==
    \A a \in Actions :
        RequiredChecks[a] \in Seq(STRING) /\ RequiredChecks[a] # <<>>

VARIABLES
    pc,        \* where each call of run is suspended
    key,       \* the batch of each call
    frame,     \* the other locals of each _run_once
    lock,      \* the caller inside the run lock, or NoCaller
    queue,     \* waiters of the run lock, first in first out
    cache,     \* the replay cache
    clock,     \* what the injected clock reads
    journal,   \* what each proof recorder has stored
    offered,   \* packages passed to ProposalSink.propose, per key, in order
    inbox,     \* positions in offered that have reached the consumer
    answer,    \* what the last call of each caller ended with
    calls,     \* calls made by each caller
    abandoned  \* history: propose calls cancelled while in flight, per key

kernelVars == <<lock, queue, cache>>
worldVars  == <<clock, journal, offered, inbox>>
hostVars   == <<answer, calls, abandoned>>
vars == <<pc, key, frame, kernelVars, worldVars, hostVars>>

-----------------------------------------------------------------------------
(* Data. *)

EventTypes == {"evidence.accepted", "evidence.rejected", "policy.evaluated",
               "constraint.classified", "objective.interpreted",
               "falsification.completed", "decision.rejected",
               "decision.delivery_unknown", "decision.proposed"}
Entries == [key : Batches, type : EventTypes, subject : Nat]
Receipts == (1 .. Recorders) \X Entries

Packages  == [created : Nat, expires : Nat, action : Actions \union {NoAction}]
NoPackage == [created |-> 0, expires |-> 0, action |-> NoAction]

Statuses == {"proposed", "delivery_unknown", "rejected", "no_candidate"}
Results  == [status : Statuses, package : Packages,
             receipt : {"none", "matching", "mismatched"},
             unproved : BOOLEAN, receipts : SUBSET Receipts]
NoResult == [status |-> "none", package |-> NoPackage, receipt |-> "none",
             unproved |-> FALSE, receipts |-> {}]

Frames == [now : Nat, i : Nat, constraints : Nat, veto : BOOLEAN,
           action : Actions \union {NoAction}, type : EventTypes,
           recorder : Nat, receipts : SUBSET Receipts,
           verdict : {"rejected", "no_candidate"}]
FreshFrame(t) ==
    [now |-> t, i |-> 1, constraints |-> 0, veto |-> FALSE,
     action |-> NoAction, type |-> "evidence.accepted", recorder |-> 1,
     receipts |-> {}, verdict |-> "rejected"]

(* Awaits of a call before and while it holds the lock. *)
Stages == {"start", "evidence", "policy", "classify", "constraint",
           "objective", "plan", "check", "sign", "propose", "record"}
Awaits == {"queued", "policy", "classify", "objective", "plan", "check",
           "sign", "propose", "record"}

IsCachedOnlyIfProposed(b) == cache[b].status = "proposed"   \* mutant
IsCached(b) == cache[b] # NoResult

IsFresh(item, t) == item.observed <= t /\ t < item.expires

(* More than one correlation id, or one producer and id twice. *)
IsMalformed(b) ==
    \E i, j \in 1 .. Len(Evidence[b]) :
        \/ Evidence[b][i].correlation # Evidence[b][j].correlation
        \/ i # j /\ Evidence[b][i].id = Evidence[b][j].id

TtlOnly(b, t) == {t + Ttl}   \* mutant
Expiries(b, t) ==
    {t + Ttl} \union {Evidence[b][i].expires : i \in 1 .. Len(Evidence[b])}

Checks(c) == RequiredChecks[frame[c].action]
LastOffer(b) == Len(offered[b])

(* The entry that call c is recording. *)
EntryOf(c) == [key |-> key[c], type |-> frame[c].type, subject |-> frame[c].i]
ReceiptsOf(c) ==
    frame[c].receipts \union {<<r, EntryOf(c)>> : r \in 1 .. Recorders}

-----------------------------------------------------------------------------
(* How a step of a call ends: at the next await, in a record, or out of run. *)

Goto(c, stage) == pc' = [pc EXCEPT ![c] = stage]
SetFrame(c, f) == frame' = [frame EXCEPT ![c] = f]

StartRecord(c, type) ==
    /\ Goto(c, "record")
    /\ SetFrame(c, [frame[c] EXCEPT !.type = type, !.recorder = 1])

(* _reject records first and caches the result only after. *)
Reject(c, verdict) ==
    /\ Goto(c, "record")
    /\ SetFrame(c, [frame[c] EXCEPT !.type = "decision.rejected", !.i = 0,
                                    !.recorder = 1, !.verdict = verdict])

(* Mutant: an exception does not release the lock. *)
LeaveKeepingLock(c, kind, result, replayed) ==
    /\ Goto(c, "returned")
    /\ answer' = [answer EXCEPT ![c] =
                     [kind |-> kind, result |-> result, replayed |-> replayed]]
    /\ SetFrame(c, FreshFrame(0))
    /\ lock' = IF kind = "raised" THEN lock ELSE NoCaller

Leave(c, kind, result, replayed) ==
    /\ Goto(c, "returned")
    /\ answer' = [answer EXCEPT ![c] =
                     [kind |-> kind, result |-> result, replayed |-> replayed]]
    /\ SetFrame(c, FreshFrame(0))
    /\ lock' = NoCaller

Raise(c) == Leave(c, "raised", NoResult, FALSE)

(* Mutant: an uncertain delivery is not kept. *)
PutKnownOnly(b, result) ==
    cache' = IF result.status = "delivery_unknown" THEN cache
             ELSE [cache EXCEPT ![b] = result]
Put(b, result) == cache' = [cache EXCEPT ![b] = result]

-----------------------------------------------------------------------------
(* Calling run and entering the lock. *)

Submit(c, b) ==
    /\ pc[c] \in {"idle", "returned"}
    /\ calls[c] < MaxCalls
    /\ Goto(c, "queued")
    /\ key' = [key EXCEPT ![c] = b]
    /\ queue' = Append(queue, c)
    /\ calls' = [calls EXCEPT ![c] = @ + 1]
    /\ answer' = [answer EXCEPT ![c] =
                     [kind |-> "none", result |-> NoResult, replayed |-> FALSE]]
    /\ UNCHANGED <<frame, lock, cache, worldVars, abandoned>>

Acquire(c) ==
    /\ pc[c] = "queued"
    /\ lock = NoCaller
    /\ queue # <<>>
    /\ Head(queue) = c
    /\ lock' = c
    /\ queue' = Tail(queue)
    /\ Goto(c, "start")
    /\ UNCHANGED <<key, frame, cache, worldVars, hostVars>>

(* No evidence is an error before the cache is read; the clock and the     *)
(* identity checks come after it.                                          *)
Refuse(c) ==
    /\ pc[c] = "start"
    /\ \/ Evidence[key[c]] = <<>>
       \/ ~IsCached(key[c]) /\ ClockMayFail
       \/ ~IsCached(key[c]) /\ IsMalformed(key[c])
    /\ Raise(c)
    /\ UNCHANGED <<key, queue, cache, worldVars, calls, abandoned>>

Replay(c) ==
    /\ pc[c] = "start"
    /\ Evidence[key[c]] # <<>>
    /\ IsCached(key[c])
    /\ Leave(c, "result", cache[key[c]], TRUE)
    /\ UNCHANGED <<key, queue, cache, worldVars, calls, abandoned>>

(* The clock is read once: now serves every later check of this cycle. *)
Begin(c) ==
    /\ pc[c] = "start"
    /\ Evidence[key[c]] # <<>>
    /\ ~IsCached(key[c])
    /\ ~IsMalformed(key[c])
    /\ Goto(c, "evidence")
    /\ SetFrame(c, FreshFrame(clock))
    /\ UNCHANGED <<key, kernelVars, worldVars, hostVars>>

-----------------------------------------------------------------------------
(* The gates of a cycle. *)

AcceptEvidence(c) ==
    /\ pc[c] = "evidence"
    /\ frame[c].i <= Len(Evidence[key[c]])
    /\ LET item == Evidence[key[c]][frame[c].i] IN
           item.inScope /\ IsFresh(item, frame[c].now)
    /\ StartRecord(c, "evidence.accepted")
    /\ UNCHANGED <<key, kernelVars, worldVars, hostVars>>

RejectEvidence(c) ==
    /\ pc[c] = "evidence"
    /\ frame[c].i <= Len(Evidence[key[c]])
    /\ LET item == Evidence[key[c]][frame[c].i] IN
           ~(item.inScope /\ IsFresh(item, frame[c].now))
    /\ StartRecord(c, "evidence.rejected")
    /\ UNCHANGED <<key, kernelVars, worldVars, hostVars>>

EvidenceDone(c) ==
    /\ pc[c] = "evidence"
    /\ frame[c].i > Len(Evidence[key[c]])
    /\ Goto(c, "policy")
    /\ SetFrame(c, [frame[c] EXCEPT !.i = 1])
    /\ UNCHANGED <<key, kernelVars, worldVars, hostVars>>

(* Every policy is evaluated and recorded, also after one that denied. *)
EvaluatePolicy(c, allowed) ==
    /\ pc[c] = "policy"
    /\ frame[c].i <= Policies
    /\ Goto(c, "record")
    /\ SetFrame(c, [frame[c] EXCEPT !.type = "policy.evaluated",
                                    !.recorder = 1, !.veto = frame[c].veto \/ ~allowed])
    /\ UNCHANGED <<key, kernelVars, worldVars, hostVars>>

PoliciesDone(c) ==
    /\ pc[c] = "policy"
    /\ frame[c].i > Policies
    /\ \/ /\ frame[c].veto
          /\ Reject(c, "rejected")
       \/ /\ ~frame[c].veto
          /\ Goto(c, "classify")
          /\ SetFrame(c, [frame[c] EXCEPT !.i = 1])
    /\ UNCHANGED <<key, kernelVars, worldVars, hostVars>>

Classify(c, produced) ==
    /\ pc[c] = "classify"
    /\ frame[c].i <= Classifiers
    /\ SetFrame(c, [frame[c] EXCEPT !.i = frame[c].i + 1,
                                    !.constraints = frame[c].constraints + produced])
    /\ UNCHANGED <<pc, key, kernelVars, worldVars, hostVars>>

ClassifiersDone(c) ==
    /\ pc[c] = "classify"
    /\ frame[c].i > Classifiers
    /\ \/ /\ frame[c].constraints = 0
          /\ Reject(c, "no_candidate")
       \/ /\ frame[c].constraints > 0
          /\ Goto(c, "constraint")
          /\ SetFrame(c, [frame[c] EXCEPT !.i = 1])
    /\ UNCHANGED <<key, kernelVars, worldVars, hostVars>>

RecordConstraint(c) ==
    /\ pc[c] = "constraint"
    /\ \/ /\ frame[c].i <= frame[c].constraints
          /\ StartRecord(c, "constraint.classified")
       \/ /\ frame[c].i > frame[c].constraints
          /\ Goto(c, "objective")
          /\ SetFrame(c, [frame[c] EXCEPT !.i = 1])
    /\ UNCHANGED <<key, kernelVars, worldVars, hostVars>>

InterpretObjective(c) ==
    /\ pc[c] = "objective"
    /\ StartRecord(c, "objective.interpreted")
    /\ UNCHANGED <<key, kernelVars, worldVars, hostVars>>

NoPlan(c) ==
    /\ pc[c] = "plan"
    /\ Reject(c, "no_candidate")
    /\ UNCHANGED <<key, kernelVars, worldVars, hostVars>>

(* The plan passed the gates, and every check its action requires exists. *)
SelectAction(c, a) ==
    /\ pc[c] = "plan"
    /\ \A i \in 1 .. Len(RequiredChecks[a]) :
           RequiredChecks[a][i] \in ConfiguredChecks
    /\ Goto(c, "check")
    /\ SetFrame(c, [frame[c] EXCEPT !.action = a, !.i = 1])
    /\ UNCHANGED <<key, kernelVars, worldVars, hostVars>>

Challenge(c, survives) ==
    /\ pc[c] = "check"
    /\ frame[c].i <= Len(Checks(c))
    /\ Goto(c, "record")
    /\ SetFrame(c, [frame[c] EXCEPT !.type = "falsification.completed",
                                    !.recorder = 1, !.veto = frame[c].veto \/ ~survives])
    /\ UNCHANGED <<key, kernelVars, worldVars, hostVars>>

ChecksDone(c) ==
    /\ pc[c] = "check"
    /\ frame[c].i > Len(Checks(c))
    /\ \/ /\ frame[c].veto
          /\ Reject(c, "rejected")
       \/ /\ ~frame[c].veto
          /\ Goto(c, "sign")
          /\ UNCHANGED frame
    /\ UNCHANGED <<key, kernelVars, worldVars, hostVars>>

(* A port that raises, or an answer a gate refuses, ends the call before   *)
(* anything is cached: the next exact retry starts over.                   *)
PortRaises(c) ==
    /\ pc[c] \in {"policy", "classify", "objective", "plan", "check", "sign"}
    /\ Raise(c)
    /\ UNCHANGED <<key, queue, cache, worldVars, calls, abandoned>>

-----------------------------------------------------------------------------
(* Signing and the proposal. *)

PackageOf(c, e) ==
    [created |-> frame[c].now, expires |-> e, action |-> frame[c].action]

(* The signer answers, the package is bound to the earliest expiry and     *)
(* handed to the sink; nothing is awaited in between.                      *)
SignAndPropose(c) ==
    /\ pc[c] = "sign"
    /\ \E e \in Expiries(key[c], frame[c].now) :
           /\ \A f \in Expiries(key[c], frame[c].now) : e <= f
           /\ offered' = [offered EXCEPT ![key[c]] = Append(@, PackageOf(c, e))]
    /\ Goto(c, "propose")
    /\ UNCHANGED <<key, frame, kernelVars, clock, journal, inbox, hostVars>>

(* An offered package reaches the consumer at any later time, or never. *)
Land(b, k) ==
    /\ k \in 1 .. LastOffer(b)
    /\ k \notin inbox[b]
    /\ inbox' = [inbox EXCEPT ![b] = @ \union {k}]
    /\ UNCHANGED <<pc, key, frame, kernelVars, clock, journal, offered, hostVars>>

(* Mutant: the digest of the receipt is not compared. *)
SettledByAnyReceipt(c, status, receipt) ==
    [status |-> IF receipt = "none" THEN status ELSE "proposed",
     package |-> offered[key[c]][LastOffer(key[c])],
     receipt |-> receipt, unproved |-> FALSE, receipts |-> frame[c].receipts]
Settled(c, status, receipt) ==
    [status |-> status, package |-> offered[key[c]][LastOffer(key[c])],
     receipt |-> receipt, unproved |-> FALSE, receipts |-> frame[c].receipts]

SinkAcknowledges(c) ==
    /\ pc[c] = "propose"
    /\ LastOffer(key[c]) \in inbox[key[c]]
    /\ Put(key[c], Settled(c, "proposed", "matching"))
    /\ Goto(c, "record")
    /\ SetFrame(c, [frame[c] EXCEPT !.type = "decision.proposed", !.i = 0,
                                    !.recorder = 1])
    /\ UNCHANGED <<key, lock, queue, worldVars, hostVars>>

(* propose raised, or answered with the receipt of another package. *)
SinkUncertain(c, receipt) ==
    /\ pc[c] = "propose"
    /\ Put(key[c], Settled(c, "delivery_unknown", receipt))
    /\ Goto(c, "record")
    /\ SetFrame(c, [frame[c] EXCEPT !.type = "decision.delivery_unknown",
                                    !.i = 0, !.recorder = 1])
    /\ UNCHANGED <<key, lock, queue, worldVars, hostVars>>

-----------------------------------------------------------------------------
(* _record: every recorder in turn, then the code that awaited it. *)

Store(c) ==
    /\ pc[c] = "record"
    /\ frame[c].recorder <= Recorders
    /\ journal' = [journal EXCEPT ![frame[c].recorder] = @ \union {EntryOf(c)}]
    /\ SetFrame(c, [frame[c] EXCEPT !.recorder = frame[c].recorder + 1])
    /\ UNCHANGED <<pc, key, kernelVars, clock, offered, inbox, hostVars>>

(* Where the cycle goes on after it has recorded an event of each type. *)
Resume == [type \in EventTypes |->
    CASE type = "evidence.accepted"       -> "evidence"
      [] type = "policy.evaluated"        -> "policy"
      [] type = "constraint.classified"   -> "constraint"
      [] type = "objective.interpreted"   -> "plan"
      [] type = "falsification.completed" -> "check"
      [] OTHER                            -> "none"]

SkipLastRecorder(c) ==   \* mutant
    pc[c] = "record" /\ frame[c].recorder >= Recorders
RecordDone(c) == pc[c] = "record" /\ frame[c].recorder > Recorders

Recorded(c) ==
    /\ RecordDone(c)
    /\ Resume[frame[c].type] # "none"
    /\ Goto(c, Resume[frame[c].type])
    /\ SetFrame(c, [frame[c] EXCEPT !.receipts = ReceiptsOf(c),
                                    !.i = frame[c].i + 1])
    /\ UNCHANGED <<key, kernelVars, worldVars, hostVars>>

RecordedEvidenceRejection(c) ==
    /\ RecordDone(c)
    /\ frame[c].type = "evidence.rejected"
    /\ SetFrame(c, [frame[c] EXCEPT !.type = "decision.rejected", !.i = 0,
                                    !.recorder = 1, !.verdict = "rejected",
                                    !.receipts = ReceiptsOf(c)])
    /\ UNCHANGED <<pc, key, kernelVars, worldVars, hostVars>>

RecordedRejection(c) ==
    /\ RecordDone(c)
    /\ frame[c].type = "decision.rejected"
    /\ LET result == [NoResult EXCEPT !.status = frame[c].verdict,
                                      !.receipts = ReceiptsOf(c)] IN
           /\ Put(key[c], result)
           /\ Leave(c, "result", result, FALSE)
    /\ UNCHANGED <<key, queue, worldVars, calls, abandoned>>

RecordedDelivery(c) ==
    /\ RecordDone(c)
    /\ frame[c].type \in {"decision.proposed", "decision.delivery_unknown"}
    /\ LET result == [cache[key[c]] EXCEPT !.receipts = ReceiptsOf(c)] IN
           /\ Put(key[c], result)
           /\ Leave(c, "result", result, FALSE)
    /\ UNCHANGED <<key, queue, worldVars, calls, abandoned>>

(* A recorder raises, whether or not it stored the entry; the receipts of   *)
(* this event are lost with it.                                             *)
RecorderRaises(c) ==
    /\ pc[c] = "record"
    /\ frame[c].recorder <= Recorders
    /\ \/ UNCHANGED journal
       \/ journal' = [journal EXCEPT ![frame[c].recorder] = @ \union {EntryOf(c)}]

(* Before the delivery that ends the call with nothing cached. *)
FailClosed(c) ==
    /\ RecorderRaises(c)
    /\ frame[c].type \notin {"decision.proposed", "decision.delivery_unknown"}
    /\ Raise(c)
    /\ UNCHANGED <<key, queue, cache, clock, offered, inbox, calls, abandoned>>

(* An uncertain delivery is recorded at best effort. *)
LeaveUnrecorded(c) ==
    /\ RecorderRaises(c)
    /\ frame[c].type = "decision.delivery_unknown"
    /\ Leave(c, "result", cache[key[c]], FALSE)
    /\ UNCHANGED <<key, queue, cache, clock, offered, inbox, calls, abandoned>>

ForgetFailure(result) == result   \* mutant
WithFailure(result) == [result EXCEPT !.unproved = TRUE]

(* An acknowledged delivery stands, with the failure as its reason. *)
ReportUnproved(c) ==
    /\ RecorderRaises(c)
    /\ frame[c].type = "decision.proposed"
    /\ LET result == WithFailure(cache[key[c]]) IN
           /\ Put(key[c], result)
           /\ Leave(c, "result", result, FALSE)
    /\ UNCHANGED <<key, queue, clock, offered, inbox, calls, abandoned>>

-----------------------------------------------------------------------------
(* The host: cancellation (asyncio.wait_for, shutdown), time, and rest. *)

(* CancelledError is no Exception: no handler of _run_once catches it, only *)
(* the lock is released on the way out.                                    *)
CancelInside(c) ==
    /\ Cancellable
    /\ pc[c] \in Awaits \ {"queued"}
    /\ Leave(c, "cancelled", NoResult, FALSE)
    /\ abandoned' = IF pc[c] = "propose"
                    THEN [abandoned EXCEPT ![key[c]] = @ + 1] ELSE abandoned
    /\ UNCHANGED <<key, queue, cache, worldVars, calls>>

CancelWaiting(c) ==
    /\ Cancellable
    /\ pc[c] = "queued"
    /\ \E i \in 1 .. Len(queue) :
           /\ queue[i] = c
           /\ queue' = SubSeq(queue, 1, i - 1) \o SubSeq(queue, i + 1, Len(queue))
    /\ Goto(c, "returned")
    /\ answer' = [answer EXCEPT ![c] =
           [kind |-> "cancelled", result |-> NoResult, replayed |-> FALSE]]
    /\ UNCHANGED <<key, frame, lock, cache, worldVars, calls, abandoned>>

Tick ==
    /\ clock < MaxTime
    /\ clock' = clock + 1
    /\ UNCHANGED <<pc, key, frame, kernelVars, journal, offered, inbox, hostVars>>

(* Every call has returned and the host makes no more. *)
Rest ==
    /\ \A c \in Callers : pc[c] \in {"idle", "returned"} /\ calls[c] = MaxCalls
    /\ UNCHANGED vars

-----------------------------------------------------------------------------

Init ==
    /\ pc = [c \in Callers |-> "idle"]
    /\ key = [c \in Callers |-> CHOOSE b \in Batches : TRUE]
    /\ frame = [c \in Callers |-> FreshFrame(0)]
    /\ lock = NoCaller
    /\ queue = <<>>
    /\ cache = [b \in Batches |-> NoResult]
    /\ clock = 0
    /\ journal = [r \in 1 .. Recorders |-> {}]
    /\ offered = [b \in Batches |-> <<>>]
    /\ inbox = [b \in Batches |-> {}]
    /\ answer = [c \in Callers |->
                    [kind |-> "none", result |-> NoResult, replayed |-> FALSE]]
    /\ calls = [c \in Callers |-> 0]
    /\ abandoned = [b \in Batches |-> 0]

(* What a call of run does by itself once it is submitted. *)
Proceed(c) ==
    \/ Acquire(c) \/ Refuse(c) \/ Replay(c) \/ Begin(c)
    \/ AcceptEvidence(c) \/ RejectEvidence(c) \/ EvidenceDone(c)
    \/ \E allowed \in BOOLEAN : EvaluatePolicy(c, allowed)
    \/ PoliciesDone(c)
    \/ \E produced \in 0 .. MaxConstraints : Classify(c, produced)
    \/ ClassifiersDone(c) \/ RecordConstraint(c) \/ InterpretObjective(c)
    \/ NoPlan(c)
    \/ \E a \in Actions : SelectAction(c, a)
    \/ \E survives \in BOOLEAN : Challenge(c, survives)
    \/ ChecksDone(c) \/ PortRaises(c) \/ SignAndPropose(c)
    \/ SinkAcknowledges(c)
    \/ \E receipt \in {"none", "mismatched"} : SinkUncertain(c, receipt)
    \/ Store(c) \/ Recorded(c) \/ RecordedEvidenceRejection(c)
    \/ RecordedRejection(c) \/ RecordedDelivery(c)
    \/ FailClosed(c) \/ LeaveUnrecorded(c) \/ ReportUnproved(c)

Next ==
    \/ \E c \in Callers :
           \/ \E b \in Batches : Submit(c, b)
           \/ Proceed(c)
           \/ CancelInside(c)
           \/ CancelWaiting(c)
    \/ \E b \in Batches : \E k \in 1 .. LastOffer(b) : Land(b, k)
    \/ Tick
    \/ Rest

Spec == Init /\ [][Next]_vars

(* The event loop runs every ready task, and every port answers or raises. *)
FairSpec == Spec /\ \A c \in Callers : WF_vars(Proceed(c))

-----------------------------------------------------------------------------
(* Properties. *)

Answers == [kind : {"none", "raised", "cancelled", "result"},
            result : Results \union {NoResult}, replayed : BOOLEAN]

(* The values every variable ranges over. *)
TypeOK ==
    /\ pc \in [Callers -> Stages \union {"idle", "queued", "returned"}]
    /\ key \in [Callers -> Batches]
    /\ frame \in [Callers -> Frames]
    /\ lock \in Callers \union {NoCaller}
    /\ queue \in Seq(Callers)
    /\ cache \in [Batches -> Results \union {NoResult}]
    /\ clock \in Nat
    /\ journal \in [1 .. Recorders -> SUBSET Entries]
    /\ offered \in [Batches -> Seq(Packages)]
    /\ inbox \in [Batches -> SUBSET Nat]
    /\ answer \in [Callers -> Answers]
    /\ calls \in [Callers -> Nat]
    /\ abandoned \in [Batches -> Nat]

IsOffering(b) == \E c \in Callers : pc[c] = "propose" /\ key[c] = b
IsDelivery(result) == result.status \in {"proposed", "delivery_unknown"}

(* Every package ever handed to the sink is accounted for: by the one       *)
(* cached delivery result of its key, by the one propose call in flight, or *)
(* by a propose call the host cancelled.  No interleaving of exact retries, *)
(* recorder failures and raising ports offers a key again on its own, and a *)
(* key with a cached verdict is never being offered (kernel.py:201-219,     *)
(* 478-568).                                                                *)
OffersAccounted ==
    \A b \in Batches :
        /\ LastOffer(b) = abandoned[b] + (IF IsDelivery(cache[b]) THEN 1 ELSE 0)
                                       + (IF IsOffering(b) THEN 1 ELSE 0)
        /\ IsOffering(b) => ~IsCached(b)

(* "An exact retry returns the cached result and does not deliver the       *)
(* proposal again" (docs/architecture.md): one offer per cycle key.         *)
OfferedAtMostOnce == \A b \in Batches : LastOffer(b) <= 1

(* Evidence that is not valid by scope, identity, freshness, correlation or *)
(* uniqueness is rejected, recorded and cached                              *)
(* (docs/diagrams/failure-workflows.md:12-15): no call of run for it raises.*)
InvalidIsRejected ==
    \A c \in Callers :
        answer[c].kind = "raised" => Evidence[key[c]] = <<>> \/ ~IsMalformed(key[c])

(* A cached "proposed" means the consumer has exactly the package the       *)
(* result carries; a mismatched receipt or an exception never reads so.     *)
ProposedIsDelivered ==
    \A b \in Batches : cache[b].status = "proposed" =>
        \E k \in inbox[b] : cache[b].package = offered[b][k]

(* Nothing reaches the sink before the whole chain of evidence, policies,   *)
(* constraints, objective and the selected action's falsification checks is *)
(* in the journal of every recorder (the kernel fails closed on a recorder  *)
(* error before delivery: docs/integrations.md, kernel.py:236-428).         *)
ProofPrecedesOffer ==
    \A b \in Batches : \A k \in 1 .. LastOffer(b) : \A r \in 1 .. Recorders :
        LET Has(type, subject) ==
                [key |-> b, type |-> type, subject |-> subject] \in journal[r]
        IN  /\ \A i \in 1 .. Len(Evidence[b]) : Has("evidence.accepted", i)
            /\ \A i \in 1 .. Policies : Has("policy.evaluated", i)
            /\ Has("constraint.classified", 1)
            /\ Has("objective.interpreted", 1)
            /\ \A i \in 1 .. Len(RequiredChecks[offered[b][k].action]) :
                   Has("falsification.completed", i)

(* The receipts of a cached result name entries the recorders really hold,  *)
(* also after a recorder failed half way, and a refusal is cached only      *)
(* after every recorder holds it (kernel.py:152-189).                       *)
ReceiptsAreStored ==
    \A b \in Batches :
        /\ \A receipt \in cache[b].receipts :
               receipt[1] \in 1 .. Recorders /\ receipt[2] \in journal[receipt[1]]
        /\ cache[b].status \in {"rejected", "no_candidate"} =>
               \A r \in 1 .. Recorders :
                   <<r, [key |-> b, type |-> "decision.rejected", subject |-> 0]>>
                       \in cache[b].receipts

(* A package never outlives its evidence or the decision TTL, has a window  *)
(* that is not empty, and was created while all its evidence was fresh and  *)
(* in scope, however long the ports took in between (kernel.py:236-276,     *)
(* 445-452).                                                                *)
PackageWithinEvidence ==
    \A b \in Batches : \A k \in 1 .. LastOffer(b) :
        LET package == offered[b][k] IN
        /\ package.created < package.expires
        /\ package.expires <= package.created + Ttl
        /\ \A i \in 1 .. Len(Evidence[b]) :
               /\ Evidence[b][i].inScope
               /\ IsFresh(Evidence[b][i], package.created)
               /\ package.expires <= Evidence[b][i].expires

(* Two callers that got results for one key got the same verdict and        *)
(* package, whichever of them ran the cycle and whichever replayed it.      *)
AnswersAgree ==
    \A c, d \in Callers :
        /\ answer[c].kind = "result"
        /\ answer[d].kind = "result"
        /\ key[c] = key[d]
        => /\ answer[c].result.status = answer[d].result.status
           /\ answer[c].result.package = answer[d].result.package

(* A verdict is final: once a key is cached no step changes its status,     *)
(* package or receipt, and later writes only add to what is proved.         *)
VerdictIsFinal ==
    [][\A b \in Batches : cache[b] # NoResult =>
          /\ cache'[b].status = cache[b].status
          /\ cache'[b].package = cache[b].package
          /\ cache'[b].receipt = cache[b].receipt
          /\ cache[b].receipts \subseteq cache'[b].receipts]_vars

(* A delivery the caller is told of without reservation has its final       *)
(* entry in every recorder, when the host cancels nothing                   *)
(* (kernel.py:541-568).                                                     *)
DeliveryProvedOrReported ==
    \A c \in Callers :
        answer[c].result.status = "proposed" /\ ~answer[c].result.unproved =>
            \A r \in 1 .. Recorders :
                [key |-> key[c], type |-> "decision.proposed", subject |-> 0]
                    \in journal[r]

(* Every call of run returns: the lock is released on every way out, by     *)
(* return, exception or cancellation, and its waiters are served in turn.   *)
EveryCallReturns ==
    \A c \in Callers : pc[c] = "queued" ~> pc[c] = "returned"

(* The kernel as a ledger of keys: every step of the cycles, the recorders  *)
(* and the host closes, offers, settles or abandons one key or leaves the   *)
(* ledger alone.                                                            *)
PhaseOf(b) == IF cache[b] # NoResult THEN cache[b].status
              ELSE IF IsOffering(b) THEN "offered" ELSE "open"

Ledger == INSTANCE ProposalLedger WITH
    Keys <- Batches, MayAbandon <- Cancellable,
    phase <- [b \in Batches |-> PhaseOf(b)],
    offers <- [b \in Batches |-> LastOffer(b)]

ImplementsLedger == Ledger!LedgerSpec

=============================================================================
