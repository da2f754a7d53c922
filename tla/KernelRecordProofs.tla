-------------------------- MODULE KernelRecordProofs --------------------------
(***************************************************************************)
(* What the kernel's records prove, for every number of callers, recorders, *)
(* policies and classifiers and any evidence: nothing is offered before its *)
(* derivation is in every recorder, cached receipts name stored entries,    *)
(* packages lie within their evidence, and a cached or answered verdict is  *)
(* what the consumer has.  The invariant follows one call through its cycle *)
(* (CallInv): at each point, what has passed is fresh, in scope and         *)
(* recorded.                                                                *)
(***************************************************************************)
EXTENDS GovernanceKernelProofs

(* The point of its cycle a call is at, also while it records there. *)
PointOf == [type \in EventTypes |->
    CASE type = "evidence.accepted"       -> "evidence"
      [] type = "policy.evaluated"        -> "policy"
      [] type = "constraint.classified"   -> "constraint"
      [] type = "objective.interpreted"   -> "objective"
      [] type = "falsification.completed" -> "check"
      [] OTHER                            -> "last"]
Point(c) == IF pc[c] = "record" THEN PointOf[frame[c].type] ELSE pc[c]

AfterChecks == {"sign"}
AfterObjective == {"plan", "check"} \union AfterChecks
AfterConstraints == {"objective"} \union AfterObjective
AfterPolicies == {"classify", "constraint"} \union AfterConstraints
AfterEvidence == {"policy"} \union AfterPolicies

(* An entry is in the journal of every recorder. *)
Has(b, type, subject) ==
    \A r \in 1 .. Recorders : [key |-> b, type |-> type, subject |-> subject] \in journal[r]

Admitted(c, j) ==
    LET item == Evidence[key[c]][j] IN item.inScope /\ IsFresh(item, frame[c].now)

(* While an event is recorded, the recorders before the current one have it. *)
StoredSoFar(c) ==
    pc[c] = "record" =>
        \A r \in 1 .. Recorders :
            r < frame[c].recorder =>
                [key |-> key[c], type |-> frame[c].type, subject |-> frame[c].i] \in journal[r]

ReceiptsHeld(c) ==
    \A receipt \in frame[c].receipts :
        receipt[1] \in 1 .. Recorders /\ receipt[2] \in journal[receipt[1]]

EvidenceProved(c) ==
    /\ Point(c) = "evidence" =>
           /\ \A j \in 1 .. Len(Evidence[key[c]]) :
                  j < frame[c].i => Admitted(c, j) /\ Has(key[c], "evidence.accepted", j)
           /\ pc[c] = "record" => Admitted(c, frame[c].i)
    /\ Point(c) \in AfterEvidence =>
           \A j \in 1 .. Len(Evidence[key[c]]) :
               Admitted(c, j) /\ Has(key[c], "evidence.accepted", j)

PoliciesProved(c) ==
    /\ Point(c) = "policy" =>
           \A j \in 1 .. Policies : j < frame[c].i => Has(key[c], "policy.evaluated", j)
    /\ Point(c) \in AfterPolicies =>
           \A j \in 1 .. Policies : Has(key[c], "policy.evaluated", j)

ConstraintsProved(c) ==
    /\ Point(c) = "constraint" =>
           /\ frame[c].constraints > 0 /\ frame[c].i > 0
           /\ frame[c].i > 1 => Has(key[c], "constraint.classified", 1)
    /\ Point(c) \in AfterConstraints => Has(key[c], "constraint.classified", 1)

ObjectiveProved(c) ==
    /\ Point(c) = "objective" => frame[c].i = 1
    /\ Point(c) \in AfterObjective => Has(key[c], "objective.interpreted", 1)

ChecksProved(c) ==
    /\ Point(c) = "check" =>
           \A j \in 1 .. Len(Checks(c)) :
               j < frame[c].i => Has(key[c], "falsification.completed", j)
    /\ Point(c) \in AfterChecks =>
           \A j \in 1 .. Len(Checks(c)) : Has(key[c], "falsification.completed", j)

(* The last event of a cycle has no subject of its own. *)
LastIsWhole(c) ==
    pc[c] = "record" /\ frame[c].type \in {"decision.rejected", "decision.proposed",
                                           "decision.delivery_unknown"}
        => frame[c].i = 0

CallInv(c) ==
    /\ StoredSoFar(c)
    /\ ReceiptsHeld(c)
    /\ EvidenceProved(c)
    /\ PoliciesProved(c)
    /\ ConstraintsProved(c)
    /\ ObjectiveProved(c)
    /\ ChecksProved(c)
    /\ LastIsWhole(c)

(* What the offer of a package has to have behind it. *)
Derived(b, package) ==
    /\ \A j \in 1 .. Len(Evidence[b]) : Has(b, "evidence.accepted", j)
    /\ \A j \in 1 .. Policies : Has(b, "policy.evaluated", j)
    /\ Has(b, "constraint.classified", 1)
    /\ Has(b, "objective.interpreted", 1)
    /\ \A j \in 1 .. Len(RequiredChecks[package.action]) :
           Has(b, "falsification.completed", j)

Within(b, package) ==
    /\ package.created < package.expires
    /\ package.expires <= package.created + Ttl
    /\ \A i \in 1 .. Len(Evidence[b]) :
           /\ Evidence[b][i].inScope
           /\ IsFresh(Evidence[b][i], package.created)
           /\ package.expires <= Evidence[b][i].expires

OffersSound ==
    \A b \in Batches : \A k \in 1 .. LastOffer(b) :
        Derived(b, offered[b][k]) /\ Within(b, offered[b][k])

InboxOffered == \A b \in Batches : inbox[b] \subseteq 1 .. LastOffer(b)

AnswersCached ==
    \A c \in Callers : answer[c].kind = "result" =>
        /\ IsCached(key[c])
        /\ answer[c].result.status = cache[key[c]].status
        /\ answer[c].result.package = cache[key[c]].package

RecordInv ==
    /\ \A c \in Callers : CallInv(c)
    /\ InboxOffered
    /\ AnswersCached
    /\ OffersSound
    /\ ReceiptsAreStored
    /\ ProposedIsDelivered

-----------------------------------------------------------------------------
(* Journals only grow, and what is in them stays. *)

Grows == \A r \in 1 .. Recorders : journal[r] \subseteq journal'[r]

LEMMA JournalsGrow ==
    ASSUME TypeOK, [Next]_vars
    PROVE  Grows
  <1>1. CASE UNCHANGED journal
    BY <1>1 DEF Grows
  <1>2. ASSUME NEW c \in Callers,
               journal' = [journal EXCEPT ![frame[c].recorder] = @ \union {EntryOf(c)}]
        PROVE  Grows
    BY <1>2 DEF Grows, TypeOK
  <1>3. ASSUME NEW c \in Callers,
               Store(c) \/ FailClosed(c) \/ LeaveUnrecorded(c) \/ ReportUnproved(c)
        PROVE  Grows
    BY <1>1, <1>2, <1>3
       DEF Store, FailClosed, LeaveUnrecorded, ReportUnproved, RecorderRaises
  <1>4. ASSUME NEW c \in Callers, Proceed(c),
               ~(Store(c) \/ FailClosed(c) \/ LeaveUnrecorded(c) \/ ReportUnproved(c))
        PROVE  UNCHANGED journal
    BY <1>4 DEF Proceed, worldVars, Acquire, Refuse, Replay, Begin, AcceptEvidence,
       RejectEvidence, EvidenceDone, EvaluatePolicy, PoliciesDone, Classify,
       ClassifiersDone, RecordConstraint, InterpretObjective, NoPlan, SelectAction,
       Challenge, ChecksDone, PortRaises, SignAndPropose, SinkAcknowledges,
       SinkUncertain, Recorded, RecordedEvidenceRejection, RecordedRejection,
       RecordedDelivery
  <1>5. ASSUME NEW c \in Callers, NEW b \in Batches,
               Submit(c, b) \/ CancelInside(c) \/ CancelWaiting(c)
        PROVE  UNCHANGED journal
    BY <1>5 DEF Submit, CancelInside, CancelWaiting, worldVars
  <1>6. ASSUME NEW b \in Batches, NEW k \in 1 .. LastOffer(b), Land(b, k)
        PROVE  UNCHANGED journal
    BY <1>6 DEF Land
  <1>7. CASE Tick \/ Rest \/ UNCHANGED vars
    BY <1>1, <1>7 DEF Tick, Rest, vars, worldVars
  <1> QED
    BY <1>1, <1>3, <1>4, <1>5, <1>6, <1>7, BatchesAssumption DEF Next

LEMMA HasStays ==
    ASSUME Grows
    PROVE  \A b, type, subject : Has(b, type, subject) => Has(b, type, subject)'
  BY DEF Grows, Has

LEMMA ReceiptsStayHeld ==
    ASSUME Grows, NEW c \in Callers, ReceiptsHeld(c),
           frame'[c].receipts = frame[c].receipts \/ frame'[c].receipts = {}
    PROVE  ReceiptsHeld(c)'
  BY DEF Grows, ReceiptsHeld

LEMMA PointFacts ==
    /\ PointOf["evidence.accepted"] = "evidence"
    /\ PointOf["evidence.rejected"] = "last"
    /\ PointOf["policy.evaluated"] = "policy"
    /\ PointOf["constraint.classified"] = "constraint"
    /\ PointOf["objective.interpreted"] = "objective"
    /\ PointOf["falsification.completed"] = "check"
    /\ PointOf["decision.rejected"] = "last"
    /\ PointOf["decision.delivery_unknown"] = "last"
    /\ PointOf["decision.proposed"] = "last"
  BY DEF PointOf, EventTypes

-----------------------------------------------------------------------------
(* How a step of a call keeps what is known of it. *)

(* Of a call that does not move. *)
LEMMA StillCall ==
    ASSUME Grows, NEW c \in Callers, CallInv(c),
           pc'[c] = pc[c], key'[c] = key[c], frame'[c] = frame[c]
    PROVE  CallInv(c)'
  <1>1. \A b, type, subject : Has(b, type, subject) => Has(b, type, subject)'
    BY HasStays
  <1>2. Point(c)' = Point(c)
    BY DEF Point
  <1>3. StoredSoFar(c)'
    BY DEF CallInv, StoredSoFar, Grows
  <1>4. ReceiptsHeld(c)'
    BY ReceiptsStayHeld DEF CallInv
  <1>5. EvidenceProved(c)'
    BY <1>1, <1>2 DEF CallInv, EvidenceProved, Admitted
  <1>6. PoliciesProved(c)'
    BY <1>1, <1>2 DEF CallInv, PoliciesProved
  <1>7. ConstraintsProved(c)'
    BY <1>1, <1>2 DEF CallInv, ConstraintsProved
  <1>8. ObjectiveProved(c)'
    BY <1>1, <1>2 DEF CallInv, ObjectiveProved
  <1>9. ChecksProved(c)'
    BY <1>1, <1>2 DEF CallInv, ChecksProved, Checks
  <1>10. LastIsWhole(c)'
    BY DEF CallInv, LastIsWhole
  <1> QED
    BY <1>3, <1>4, <1>5, <1>6, <1>7, <1>8, <1>9, <1>10 DEF CallInv

(* Of a call that has nothing left to prove: outside of a cycle, at its end *)
(* or with its package handed over.                                         *)
LEMMA NothingToProve ==
    ASSUME NEW c \in Callers, StoredSoFar(c)', ReceiptsHeld(c)', LastIsWhole(c)',
           Point(c)' \in {"idle", "queued", "start", "returned", "propose", "last"}
    PROVE  CallInv(c)'
  <1>1. EvidenceProved(c)' /\ PoliciesProved(c)' /\ ConstraintsProved(c)'
    BY DEF EvidenceProved, PoliciesProved, ConstraintsProved, AfterEvidence, AfterPolicies,
       AfterConstraints, AfterObjective, AfterChecks
  <1>2. ObjectiveProved(c)' /\ ChecksProved(c)'
    BY DEF ObjectiveProved, ChecksProved, AfterObjective, AfterChecks
  <1> QED
    BY <1>1, <1>2 DEF CallInv

LEMMA OutsideCall ==
    ASSUME Grows, NEW c \in Callers, CallInv(c),
           pc'[c] \in {"idle", "queued", "start", "returned"},
           frame'[c] = frame[c] \/ frame'[c].receipts = {}
    PROVE  CallInv(c)'
  <1>1. ReceiptsHeld(c)'
    BY ReceiptsStayHeld DEF CallInv
  <1>2. StoredSoFar(c)' /\ LastIsWhole(c)'
    BY DEF StoredSoFar, LastIsWhole
  <1>3. Point(c)' = pc'[c]
    BY DEF Point
  <1> QED
    BY <1>1, <1>2, <1>3, NothingToProve

LEMMA LeavingCall ==
    ASSUME TypeOK, Grows, NEW c \in Callers, CallInv(c), NEW k, NEW r, NEW x,
           Leave(c, k, r, x)
    PROVE  CallInv(c)'
  <1>1. pc'[c] = "returned" /\ frame'[c] = FreshFrame(0)
    BY DEF Leave, Goto, SetFrame, TypeOK
  <1>2. frame'[c].receipts = {}
    BY <1>1 DEF FreshFrame
  <1> QED
    BY <1>1, <1>2, OutsideCall

(* Of a call that starts a record at the point where it is. *)
LEMMA RecordingCall ==
    ASSUME TypeOK, Grows, NEW c \in Callers, CallInv(c), UNCHANGED key,
           pc'[c] = "record", frame'[c].recorder = 1,
           pc[c] # "record", PointOf[frame'[c].type] = pc[c],
           frame'[c].i = frame[c].i, frame'[c].now = frame[c].now,
           frame'[c].constraints = frame[c].constraints,
           frame'[c].action = frame[c].action,
           frame'[c].receipts = frame[c].receipts,
           pc[c] = "evidence" => Admitted(c, frame[c].i),
           frame'[c].type \notin {"decision.rejected", "decision.proposed",
                                 "decision.delivery_unknown"}
    PROVE  CallInv(c)'
  <1>1. \A b, type, subject : Has(b, type, subject) => Has(b, type, subject)'
    BY HasStays
  <1>2. Point(c)' = Point(c) /\ Point(c) = pc[c]
    BY DEF Point
  <1>3. StoredSoFar(c)' /\ LastIsWhole(c)'
    BY DEF StoredSoFar, LastIsWhole
  <1>4. ReceiptsHeld(c)'
    BY ReceiptsStayHeld DEF CallInv
  <1>5. EvidenceProved(c)'
    BY <1>1, <1>2 DEF CallInv, EvidenceProved, Admitted
  <1>6. PoliciesProved(c)'
    BY <1>1, <1>2 DEF CallInv, PoliciesProved
  <1>7. ConstraintsProved(c)'
    BY <1>1, <1>2 DEF CallInv, ConstraintsProved
  <1>8. ObjectiveProved(c)'
    BY <1>1, <1>2 DEF CallInv, ObjectiveProved
  <1>9. ChecksProved(c)'
    BY <1>1, <1>2 DEF CallInv, ChecksProved, Checks
  <1> QED
    BY <1>3, <1>4, <1>5, <1>6, <1>7, <1>8, <1>9 DEF CallInv

(* Of a call that starts the last record of its cycle, or the one before. *)
LEMMA LastCall ==
    ASSUME Grows, NEW c \in Callers, CallInv(c),
           pc'[c] = "record", frame'[c].recorder = 1,
           \/ frame'[c].type = "evidence.rejected"
           \/ /\ frame'[c].type \in {"decision.rejected", "decision.proposed",
                                     "decision.delivery_unknown"}
              /\ frame'[c].i = 0,
           ReceiptsHeld(c)'
    PROVE  CallInv(c)'
  <1>1. Point(c)' = "last"
    BY PointFacts DEF Point
  <1>2. StoredSoFar(c)' /\ LastIsWhole(c)'
    BY DEF StoredSoFar, LastIsWhole
  <1> QED
    BY <1>1, <1>2, NothingToProve

LEMMA RejectingCall ==
    ASSUME TypeOK, Grows, NEW c \in Callers, CallInv(c), NEW v, Reject(c, v)
    PROVE  CallInv(c)'
  <1>1. /\ pc'[c] = "record" /\ frame'[c].recorder = 1 /\ frame'[c].i = 0
        /\ frame'[c].type = "decision.rejected"
        /\ frame'[c].receipts = frame[c].receipts
    BY DEF Reject, Goto, SetFrame, TypeOK, Frames
  <1>2. ReceiptsHeld(c)'
    BY <1>1, ReceiptsStayHeld DEF CallInv
  <1> QED
    BY <1>1, <1>2, LastCall

-----------------------------------------------------------------------------
(* The steps from one point of a cycle to the next. *)

(* Reaching a point with nothing of its own passed yet. *)
LEMMA ArrivingCall ==
    ASSUME Grows, NEW c \in Callers, CallInv(c), UNCHANGED key,
           pc'[c] \notin {"record"},
           ReceiptsHeld(c)', EvidenceProved(c)', PoliciesProved(c)',
           ConstraintsProved(c)', ObjectiveProved(c)', ChecksProved(c)'
    PROVE  CallInv(c)'
  <1>1. StoredSoFar(c)' /\ LastIsWhole(c)'
    BY DEF StoredSoFar, LastIsWhole
  <1> QED
    BY <1>1 DEF CallInv

LEMMA BeginCall ==
    ASSUME TypeOK, Grows, NEW c \in Callers, CallInv(c), Begin(c)
    PROVE  CallInv(c)'
  <1>1. /\ pc'[c] = "evidence" /\ UNCHANGED key /\ frame'[c].receipts = {}
        /\ frame'[c].i = 1
    BY DEF Begin, Goto, SetFrame, TypeOK, FreshFrame
  <1>2. Point(c)' = "evidence"
    BY <1>1 DEF Point
  <1>3. ReceiptsHeld(c)'
    BY <1>1, ReceiptsStayHeld DEF CallInv
  <1>4. EvidenceProved(c)'
    BY <1>1, <1>2 DEF EvidenceProved, AfterEvidence, AfterPolicies, AfterConstraints,
       AfterObjective, AfterChecks
  <1>5. PoliciesProved(c)' /\ ConstraintsProved(c)' /\ ObjectiveProved(c)' /\ ChecksProved(c)'
    BY <1>2 DEF PoliciesProved, ConstraintsProved, ObjectiveProved, ChecksProved,
       AfterPolicies, AfterConstraints, AfterObjective, AfterChecks
  <1> QED
    BY <1>1, <1>3, <1>4, <1>5, ArrivingCall

(* A point left for the next with the loop over its subjects done. *)
LEMMA NextPoint ==
    ASSUME TypeOK, Grows, NEW c \in Callers, CallInv(c), UNCHANGED key,
           pc[c] \in AfterEvidence, pc'[c] \in AfterEvidence,
           frame'[c].now = frame[c].now, frame'[c].receipts = frame[c].receipts,
           frame'[c].action = frame[c].action \/ pc'[c] = "check",
           pc'[c] \in AfterPolicies =>
               \/ pc[c] \in AfterPolicies
               \/ pc[c] = "policy" /\ frame[c].i > Policies,
           pc'[c] = "policy" => pc[c] = "policy" /\ frame'[c].i = frame[c].i,
           pc'[c] = "constraint" => frame'[c].constraints > 0 /\ frame'[c].i = 1,
           pc'[c] \in AfterConstraints =>
               \/ pc[c] \in AfterConstraints
               \/ pc[c] = "constraint" /\ frame[c].i > 1,
           pc'[c] = "objective" => frame'[c].i = 1,
           pc'[c] \in AfterObjective => pc[c] \in AfterObjective,
           pc'[c] = "check" => frame'[c].i = 1,
           pc'[c] \in AfterChecks =>
               pc[c] = "check" /\ frame[c].i > Len(Checks(c))
    PROVE  CallInv(c)'
  <1>1. \A b, type, subject : Has(b, type, subject) => Has(b, type, subject)'
    BY HasStays
  <1>2. pc[c] # "record" /\ pc'[c] # "record"
    BY DEF AfterEvidence, AfterPolicies, AfterConstraints, AfterObjective, AfterChecks
  <1>3. Point(c) = pc[c] /\ Point(c)' = pc'[c]
    BY <1>2 DEF Point
  <1>4. ReceiptsHeld(c)'
    BY ReceiptsStayHeld DEF CallInv
  <1>5. EvidenceProved(c)'
    <2>1. pc'[c] # "evidence"
      BY DEF AfterEvidence, AfterPolicies, AfterConstraints, AfterObjective, AfterChecks
    <2> QED
      BY <1>1, <1>3, <2>1 DEF CallInv, EvidenceProved, Admitted
  <1>6. PoliciesProved(c)'
    <2>1. pc[c] = "policy" /\ frame[c].i > Policies =>
              \A j \in 1 .. Policies : Has(key[c], "policy.evaluated", j)
      <3>1. frame[c].i \in Nat
        BY FrameFields DEF TypeOK
      <3> QED
        BY <1>3, <3>1, SizesAssumption DEF CallInv, PoliciesProved
    <2> QED
      BY <1>1, <1>3, <2>1 DEF CallInv, PoliciesProved
  <1>7. ConstraintsProved(c)'
    BY <1>1, <1>3 DEF CallInv, ConstraintsProved
  <1>8. ObjectiveProved(c)'
    BY <1>1, <1>3 DEF CallInv, ObjectiveProved
  <1>9. ChecksProved(c)'
    <2>1. CASE pc'[c] = "check"
      BY <1>3, <2>1 DEF ChecksProved, AfterChecks
    <2>2. CASE pc'[c] \in AfterChecks
      <3>1. /\ pc[c] = "check" /\ frame[c].i > Len(Checks(c))
            /\ frame'[c].action = frame[c].action
        BY <2>2 DEF AfterChecks
      <3>2. \A j \in 1 .. Len(Checks(c)) : Has(key[c], "falsification.completed", j)
        <4>1. frame[c].i \in Nat
          BY FrameFields DEF TypeOK
        <4>2. ASSUME NEW j \in 1 .. Len(Checks(c))
              PROVE  Has(key[c], "falsification.completed", j)
          BY <1>3, <3>1, <4>1, <4>2 DEF CallInv, ChecksProved
        <4> QED
          BY <4>2
      <3> QED
        BY <1>1, <1>3, <2>2, <3>1, <3>2 DEF ChecksProved, Checks, AfterChecks
    <2>3. CASE pc'[c] \notin {"check"} \union AfterChecks
      BY <1>3, <2>3 DEF ChecksProved
    <2> QED
      BY <2>1, <2>2, <2>3
  <1> QED
    BY <1>2, <1>4, <1>5, <1>6, <1>7, <1>8, <1>9, ArrivingCall

LEMMA EvidenceDoneCall ==
    ASSUME TypeOK, Grows, NEW c \in Callers, CallInv(c), EvidenceDone(c)
    PROVE  CallInv(c)'
  <1>1. /\ pc[c] = "evidence" /\ frame[c].i > Len(Evidence[key[c]])
        /\ pc'[c] = "policy" /\ UNCHANGED key
        /\ frame'[c].i = 1 /\ frame'[c].now = frame[c].now
        /\ frame'[c].receipts = frame[c].receipts
    BY DEF EvidenceDone, Goto, SetFrame, TypeOK, Frames
  <1>2. Point(c) = "evidence" /\ Point(c)' = "policy"
    BY <1>1 DEF Point
  <1>3. ReceiptsHeld(c)'
    BY <1>1, ReceiptsStayHeld DEF CallInv
  <1>4. EvidenceProved(c)'
    <2>1. frame[c].i \in Nat
      BY FrameFields DEF TypeOK
    <2>2. ASSUME NEW j \in 1 .. Len(Evidence[key[c]])
          PROVE  Admitted(c, j) /\ Has(key[c], "evidence.accepted", j)
      <3>1. Len(Evidence[key[c]]) \in Nat
        BY EvidenceAssumption DEF TypeOK
      <3>2. j < frame[c].i
        BY <1>1, <2>1, <3>1
      <3> QED
        BY <1>2, <3>2 DEF CallInv, EvidenceProved
    <2> QED
      BY <1>1, <1>2, <2>2, HasStays DEF EvidenceProved, Admitted
  <1>5. PoliciesProved(c)'
    BY <1>1, <1>2 DEF PoliciesProved, AfterPolicies, AfterConstraints, AfterObjective, AfterChecks
  <1>6. ConstraintsProved(c)' /\ ObjectiveProved(c)' /\ ChecksProved(c)'
    BY <1>2 DEF ConstraintsProved, ObjectiveProved, ChecksProved, AfterConstraints,
       AfterObjective, AfterChecks
  <1> QED
    BY <1>1, <1>3, <1>4, <1>5, <1>6, ArrivingCall

LEMMA PoliciesDoneCall ==
    ASSUME TypeOK, Grows, NEW c \in Callers, CallInv(c), PoliciesDone(c)
    PROVE  CallInv(c)'
  <1>1. CASE Reject(c, "rejected")
    BY <1>1, RejectingCall
  <1>2. CASE ~Reject(c, "rejected")
    <2>1. /\ pc[c] = "policy" /\ frame[c].i > Policies /\ pc'[c] = "classify" /\ UNCHANGED key
          /\ frame'[c].now = frame[c].now /\ frame'[c].receipts = frame[c].receipts
          /\ frame'[c].action = frame[c].action
      BY <1>2 DEF PoliciesDone, Goto, SetFrame, TypeOK, Frames
    <2> QED
      BY <2>1, NextPoint
         DEF AfterEvidence, AfterPolicies, AfterConstraints, AfterObjective, AfterChecks
  <1> QED
    BY <1>1, <1>2

LEMMA ClassifyCall ==
    ASSUME TypeOK, Grows, NEW c \in Callers, CallInv(c), NEW n \in 0 .. MaxConstraints,
           Classify(c, n)
    PROVE  CallInv(c)'
  <1>1. /\ pc[c] = "classify" /\ pc'[c] = "classify" /\ UNCHANGED key
        /\ frame'[c].now = frame[c].now /\ frame'[c].receipts = frame[c].receipts
        /\ frame'[c].action = frame[c].action
    BY DEF Classify, SetFrame, TypeOK, Frames
  <1> QED
    BY <1>1, NextPoint
         DEF AfterEvidence, AfterPolicies, AfterConstraints, AfterObjective, AfterChecks

LEMMA ClassifiersDoneCall ==
    ASSUME TypeOK, Grows, NEW c \in Callers, CallInv(c), ClassifiersDone(c)
    PROVE  CallInv(c)'
  <1>1. CASE Reject(c, "no_candidate")
    BY <1>1, RejectingCall
  <1>2. CASE ~Reject(c, "no_candidate")
    <2>1. /\ pc[c] = "classify" /\ pc'[c] = "constraint" /\ UNCHANGED key
          /\ frame[c].constraints > 0 /\ frame'[c].constraints = frame[c].constraints
          /\ frame'[c].i = 1
          /\ frame'[c].now = frame[c].now /\ frame'[c].receipts = frame[c].receipts
          /\ frame'[c].action = frame[c].action
      BY <1>2 DEF ClassifiersDone, Goto, SetFrame, TypeOK, Frames
    <2> QED
      BY <2>1, NextPoint
         DEF AfterEvidence, AfterPolicies, AfterConstraints, AfterObjective, AfterChecks
  <1> QED
    BY <1>1, <1>2

LEMMA RecordConstraintCall ==
    ASSUME TypeOK, Grows, NEW c \in Callers, CallInv(c), RecordConstraint(c)
    PROVE  CallInv(c)'
  <1>1. CASE StartRecord(c, "constraint.classified")
    <2>1. /\ pc[c] = "constraint" /\ pc'[c] = "record" /\ UNCHANGED key
          /\ frame'[c].type = "constraint.classified" /\ frame'[c].recorder = 1
          /\ frame'[c].i = frame[c].i /\ frame'[c].constraints = frame[c].constraints
          /\ frame'[c].now = frame[c].now /\ frame'[c].receipts = frame[c].receipts
          /\ frame'[c].action = frame[c].action
      BY <1>1 DEF RecordConstraint, StartRecord, Goto, SetFrame, TypeOK, Frames
    <2> QED
      BY <2>1, PointFacts, RecordingCall
  <1>2. CASE ~StartRecord(c, "constraint.classified")
    <2>1. /\ pc[c] = "constraint" /\ pc'[c] = "objective" /\ UNCHANGED key
          /\ frame[c].i > frame[c].constraints
          /\ frame'[c].i = 1
          /\ frame'[c].now = frame[c].now /\ frame'[c].receipts = frame[c].receipts
          /\ frame'[c].action = frame[c].action
      BY <1>2 DEF RecordConstraint, Goto, SetFrame, TypeOK, Frames
    <2>2. frame[c].i > 1
      <3>1. frame[c].constraints > 0
        BY <2>1 DEF CallInv, ConstraintsProved, Point
      <3>2. frame[c].constraints \in Nat /\ frame[c].i \in Nat
        BY FrameFields DEF TypeOK
      <3> QED
        BY <2>1, <3>1, <3>2
    <2> QED
      BY <2>1, <2>2, NextPoint
         DEF AfterEvidence, AfterPolicies, AfterConstraints, AfterObjective, AfterChecks
  <1> QED
    BY <1>1, <1>2

LEMMA SelectActionCall ==
    ASSUME TypeOK, Grows, NEW c \in Callers, CallInv(c), NEW a \in Actions, SelectAction(c, a)
    PROVE  CallInv(c)'
  <1>1. /\ pc[c] = "plan" /\ pc'[c] = "check" /\ UNCHANGED key /\ frame'[c].i = 1
        /\ frame'[c].now = frame[c].now /\ frame'[c].receipts = frame[c].receipts
    BY DEF SelectAction, Goto, SetFrame, TypeOK, Frames
  <1> QED
    BY <1>1, NextPoint
         DEF AfterEvidence, AfterPolicies, AfterConstraints, AfterObjective, AfterChecks

LEMMA ChecksDoneCall ==
    ASSUME TypeOK, Grows, NEW c \in Callers, CallInv(c), ChecksDone(c)
    PROVE  CallInv(c)'
  <1>1. CASE Reject(c, "rejected")
    BY <1>1, RejectingCall
  <1>2. CASE ~Reject(c, "rejected")
    <2>1. /\ pc[c] = "check" /\ frame[c].i > Len(Checks(c))
          /\ pc'[c] = "sign" /\ UNCHANGED key /\ frame'[c] = frame[c]
      BY <1>2 DEF ChecksDone, Goto, TypeOK
    <2> QED
      BY <2>1, NextPoint
         DEF AfterEvidence, AfterPolicies, AfterConstraints, AfterObjective, AfterChecks
  <1> QED
    BY <1>1, <1>2

-----------------------------------------------------------------------------
(* The steps of a record. *)

LEMMA StoreCall ==
    ASSUME TypeOK, Grows, NEW c \in Callers, CallInv(c), Store(c)
    PROVE  CallInv(c)'
  <1>1. /\ pc[c] = "record" /\ pc'[c] = "record" /\ UNCHANGED key
        /\ frame[c].recorder \in 1 .. Recorders \/ frame[c].recorder = 0
        /\ frame'[c].recorder = frame[c].recorder + 1
        /\ frame'[c].type = frame[c].type /\ frame'[c].i = frame[c].i
        /\ frame'[c].now = frame[c].now /\ frame'[c].receipts = frame[c].receipts
        /\ frame'[c].constraints = frame[c].constraints
        /\ frame'[c].action = frame[c].action
    <2>1. frame[c].recorder \in Nat /\ frame[c].recorder <= Recorders
      BY FrameFields DEF TypeOK, Store
    <2> QED
      BY <2>1, SizesAssumption DEF Store, SetFrame, TypeOK, Frames
  <1>2. \A b, type, subject : Has(b, type, subject) => Has(b, type, subject)'
    BY HasStays
  <1>3. Point(c)' = Point(c)
    BY <1>1 DEF Point
  <1>4. StoredSoFar(c)'
    <2> DEFINE e == [key |-> key[c], type |-> frame[c].type, subject |-> frame[c].i]
    <2>1. \A r \in 1 .. Recorders : r < frame[c].recorder => e \in journal[r]
      BY <1>1 DEF CallInv, StoredSoFar
    <2>2. frame[c].recorder \in 1 .. Recorders => e \in journal'[frame[c].recorder]
      BY DEF Store, EntryOf, TypeOK
    <2>3. ASSUME NEW r \in 1 .. Recorders, r < frame'[c].recorder
          PROVE  e \in journal'[r]
      <3>1. frame[c].recorder \in Nat
        BY FrameFields DEF TypeOK
      <3>2. r < frame[c].recorder \/ r = frame[c].recorder
        BY <1>1, <2>3, <3>1, SizesAssumption
      <3> QED
        BY <2>1, <2>2, <2>3, <3>2 DEF Grows
    <2> QED
      BY <1>1, <2>3 DEF StoredSoFar
  <1>5. ReceiptsHeld(c)'
    BY <1>1, ReceiptsStayHeld DEF CallInv
  <1>6. EvidenceProved(c)'
    BY <1>1, <1>2, <1>3 DEF CallInv, EvidenceProved, Admitted
  <1>7. PoliciesProved(c)'
    BY <1>1, <1>2, <1>3 DEF CallInv, PoliciesProved
  <1>8. ConstraintsProved(c)'
    BY <1>1, <1>2, <1>3 DEF CallInv, ConstraintsProved
  <1>9. ObjectiveProved(c)'
    BY <1>1, <1>2, <1>3 DEF CallInv, ObjectiveProved
  <1>10. ChecksProved(c)'
    BY <1>1, <1>2, <1>3 DEF CallInv, ChecksProved, Checks
  <1>11. LastIsWhole(c)'
    BY <1>1 DEF CallInv, LastIsWhole
  <1> QED
    BY <1>4, <1>5, <1>6, <1>7, <1>8, <1>9, <1>10, <1>11 DEF CallInv

(* When the record is done every recorder holds the entry. *)
LEMMA DoneIsStored ==
    ASSUME TypeOK, NEW c \in Callers, CallInv(c), RecordDone(c)
    PROVE  /\ Has(key[c], frame[c].type, frame[c].i)
           /\ \A receipt \in ReceiptsOf(c) :
                  receipt[1] \in 1 .. Recorders /\ receipt[2] \in journal[receipt[1]]
           /\ \A r \in 1 .. Recorders : <<r, EntryOf(c)>> \in ReceiptsOf(c)
  <1>1. Has(key[c], frame[c].type, frame[c].i)
    <2>1. frame[c].recorder \in Nat
      BY FrameFields DEF TypeOK
    <2>2. \A r \in 1 .. Recorders : r < frame[c].recorder
      BY <2>1, SizesAssumption DEF RecordDone
    <2> QED
      BY <2>2 DEF CallInv, StoredSoFar, RecordDone, Has
  <1>2. \A r \in 1 .. Recorders : EntryOf(c) \in journal[r]
    BY <1>1 DEF Has, EntryOf
  <1>3. ASSUME NEW receipt \in ReceiptsOf(c)
        PROVE  receipt[1] \in 1 .. Recorders /\ receipt[2] \in journal[receipt[1]]
    <2>1. CASE receipt \in frame[c].receipts
      BY <2>1 DEF CallInv, ReceiptsHeld
    <2>2. CASE receipt \in {<<r, EntryOf(c)>> : r \in 1 .. Recorders}
      BY <1>2, <2>2
    <2> QED
      BY <2>1, <2>2 DEF ReceiptsOf
  <1>4. \A r \in 1 .. Recorders : <<r, EntryOf(c)>> \in ReceiptsOf(c)
    BY DEF ReceiptsOf
  <1> QED
    BY <1>1, <1>3, <1>4

LEMMA RecordedCall ==
    ASSUME TypeOK, Grows, NEW c \in Callers, CallInv(c), Recorded(c)
    PROVE  CallInv(c)'
  <1>0. frame[c].type \in EventTypes /\ frame[c].i \in Nat
    BY FrameFields DEF TypeOK
  <1>1. /\ pc[c] = "record" /\ pc'[c] = Resume[frame[c].type] /\ UNCHANGED key
        /\ frame'[c].i = frame[c].i + 1 /\ frame'[c].receipts = ReceiptsOf(c)
        /\ frame'[c].now = frame[c].now
        /\ frame'[c].constraints = frame[c].constraints
        /\ frame'[c].action = frame[c].action
        /\ frame[c].type \in EventTypes /\ Resume[frame[c].type] # "none"
    BY <1>0 DEF Recorded, RecordDone, Goto, SetFrame, TypeOK, Frames
  <1>2. /\ Has(key[c], frame[c].type, frame[c].i)
        /\ \A receipt \in ReceiptsOf(c) :
               receipt[1] \in 1 .. Recorders /\ receipt[2] \in journal[receipt[1]]
    BY DoneIsStored DEF Recorded
  <1>3. \A b, type, subject : Has(b, type, subject) => Has(b, type, subject)'
    BY HasStays
  <1>4. ReceiptsHeld(c)'
    BY <1>1, <1>2 DEF ReceiptsHeld, Grows
  <1>5. CASE frame[c].type = "evidence.accepted"
    <2>1. pc'[c] = "evidence"
      BY <1>1, <1>5 DEF Resume, EventTypes
    <2>2. Point(c) = "evidence" /\ Point(c)' = "evidence"
      BY <1>1, <1>5, <2>1, PointFacts DEF Point
    <2>3. EvidenceProved(c)'
      <3>1. ASSUME NEW j \in 1 .. Len(Evidence[key[c]]), j < frame'[c].i
            PROVE  Admitted(c, j) /\ Has(key[c], "evidence.accepted", j)
        <4>1. j < frame[c].i \/ j = frame[c].i
          BY <1>0, <1>1, <3>1
        <4> QED
          BY <1>1, <1>2, <1>5, <2>2, <4>1 DEF CallInv, EvidenceProved
      <3> QED
        BY <1>1, <1>3, <2>1, <2>2, <3>1
           DEF EvidenceProved, Admitted, AfterEvidence, AfterPolicies, AfterConstraints,
               AfterObjective, AfterChecks
    <2>4. /\ PoliciesProved(c)' /\ ConstraintsProved(c)' /\ ObjectiveProved(c)'
          /\ ChecksProved(c)'
      BY <2>2 DEF PoliciesProved, ConstraintsProved, ObjectiveProved, ChecksProved,
         AfterPolicies, AfterConstraints, AfterObjective, AfterChecks
    <2> QED
      BY <1>1, <1>4, <2>1, <2>3, <2>4, ArrivingCall
  <1>6. CASE frame[c].type = "policy.evaluated"
    <2>1. pc'[c] = "policy"
      BY <1>1, <1>6 DEF Resume, EventTypes
    <2>2. Point(c) = "policy" /\ Point(c)' = "policy"
      BY <1>1, <1>6, <2>1, PointFacts DEF Point
    <2>3. EvidenceProved(c)'
      BY <1>1, <1>3, <2>1, <2>2 DEF CallInv, EvidenceProved, Admitted
    <2>4. PoliciesProved(c)'
      <3>1. ASSUME NEW j \in 1 .. Policies, j < frame'[c].i
            PROVE  Has(key[c], "policy.evaluated", j)
        <4>1. j < frame[c].i \/ j = frame[c].i
          BY <1>0, <1>1, <3>1, SizesAssumption
        <4> QED
          BY <1>2, <1>6, <2>2, <4>1 DEF CallInv, PoliciesProved
      <3> QED
        BY <1>1, <1>3, <2>2, <3>1
           DEF PoliciesProved, AfterPolicies, AfterConstraints, AfterObjective, AfterChecks
    <2>5. ConstraintsProved(c)' /\ ObjectiveProved(c)' /\ ChecksProved(c)'
      BY <2>2 DEF ConstraintsProved, ObjectiveProved, ChecksProved, AfterConstraints,
         AfterObjective, AfterChecks
    <2> QED
      BY <1>1, <1>4, <2>1, <2>3, <2>4, <2>5, ArrivingCall
  <1>7. CASE frame[c].type = "constraint.classified"
    <2>1. pc'[c] = "constraint"
      BY <1>1, <1>7 DEF Resume, EventTypes
    <2>2. Point(c) = "constraint" /\ Point(c)' = "constraint"
      BY <1>1, <1>7, <2>1, PointFacts DEF Point
    <2>3. EvidenceProved(c)'
      BY <1>1, <1>3, <2>1, <2>2 DEF CallInv, EvidenceProved, Admitted
    <2>4. PoliciesProved(c)'
      BY <1>1, <1>3, <2>2 DEF CallInv, PoliciesProved
    <2>5. ConstraintsProved(c)'
      <3>1. /\ frame[c].constraints > 0 /\ frame[c].i > 0
            /\ frame[c].i > 1 => Has(key[c], "constraint.classified", 1)
        BY <2>2 DEF CallInv, ConstraintsProved
      <3>2. Has(key[c], "constraint.classified", 1)
        <4>1. frame[c].i = 1 \/ frame[c].i > 1
          BY <1>0, <3>1
        <4> QED
          BY <1>2, <1>7, <3>1, <4>1
      <3>3. frame'[c].i > 0
        BY <1>0, <1>1
      <3> QED
        BY <1>1, <1>3, <2>2, <3>1, <3>2, <3>3 DEF ConstraintsProved
    <2>6. ObjectiveProved(c)' /\ ChecksProved(c)'
      BY <2>2 DEF ObjectiveProved, ChecksProved, AfterObjective, AfterChecks
    <2> QED
      BY <1>1, <1>4, <2>1, <2>3, <2>4, <2>5, <2>6, ArrivingCall
  <1>8. CASE frame[c].type = "objective.interpreted"
    <2>1. pc'[c] = "plan"
      BY <1>1, <1>8 DEF Resume, EventTypes
    <2>2. Point(c) = "objective" /\ Point(c)' = "plan"
      BY <1>1, <1>8, <2>1, PointFacts DEF Point
    <2>3. EvidenceProved(c)'
      <3>1. \A j \in 1 .. Len(Evidence[key[c]]) :
                Admitted(c, j) /\ Has(key[c], "evidence.accepted", j)
        BY <2>2 DEF CallInv, EvidenceProved, AfterEvidence, AfterPolicies, AfterConstraints
      <3> QED
        BY <1>1, <1>3, <2>2, <3>1 DEF EvidenceProved, Admitted
    <2>4. PoliciesProved(c)'
      <3>1. \A j \in 1 .. Policies : Has(key[c], "policy.evaluated", j)
        BY <2>2 DEF CallInv, PoliciesProved, AfterPolicies, AfterConstraints
      <3> QED
        BY <1>1, <1>3, <2>2, <3>1 DEF PoliciesProved
    <2>5. ConstraintsProved(c)'
      <3>1. Has(key[c], "constraint.classified", 1)
        BY <2>2 DEF CallInv, ConstraintsProved, AfterConstraints
      <3> QED
        BY <1>1, <1>3, <2>2, <3>1 DEF ConstraintsProved
    <2>6. ObjectiveProved(c)'
      <3>1. Has(key[c], "objective.interpreted", 1)
        BY <1>2, <1>8, <2>2 DEF CallInv, ObjectiveProved
      <3> QED
        BY <1>1, <1>3, <2>2, <3>1 DEF ObjectiveProved
    <2>7. ChecksProved(c)'
      BY <2>2 DEF ChecksProved, AfterChecks
    <2> QED
      BY <1>1, <1>4, <2>1, <2>3, <2>4, <2>5, <2>6, <2>7, ArrivingCall
  <1>9. CASE frame[c].type = "falsification.completed"
    <2>1. pc'[c] = "check"
      BY <1>1, <1>9 DEF Resume, EventTypes
    <2>2. Point(c) = "check" /\ Point(c)' = "check"
      BY <1>1, <1>9, <2>1, PointFacts DEF Point
    <2>3. EvidenceProved(c)'
      BY <1>1, <1>3, <2>1, <2>2 DEF CallInv, EvidenceProved, Admitted
    <2>4. PoliciesProved(c)'
      BY <1>1, <1>3, <2>2 DEF CallInv, PoliciesProved
    <2>5. ConstraintsProved(c)'
      BY <1>1, <1>3, <2>2 DEF CallInv, ConstraintsProved
    <2>6. ObjectiveProved(c)'
      BY <1>1, <1>3, <2>2 DEF CallInv, ObjectiveProved
    <2>7. ChecksProved(c)'
      <3>1. ASSUME NEW j \in 1 .. Len(Checks(c)), j < frame'[c].i
            PROVE  Has(key[c], "falsification.completed", j)
        <4>1. CASE j = frame[c].i
          BY <1>2, <1>9, <4>1
        <4>2. CASE j < frame[c].i
          BY <2>2, <4>2 DEF CallInv, ChecksProved
        <4>3. j \in Int
          OBVIOUS
        <4> QED
          BY <1>0, <1>1, <3>1, <4>1, <4>2, <4>3
      <3>2. Checks(c)' = Checks(c)
        BY <1>1 DEF Checks
      <3> QED
        BY <1>1, <1>3, <2>2, <3>1, <3>2 DEF ChecksProved, AfterChecks
    <2> QED
      BY <1>1, <1>4, <2>1, <2>3, <2>4, <2>5, <2>6, <2>7, ArrivingCall
  <1> QED
    BY <1>1, <1>5, <1>6, <1>7, <1>8, <1>9 DEF Resume, EventTypes

-----------------------------------------------------------------------------
(* Every step. *)

(* The step of call c itself, through a cycle. *)
LEMMA OwnStep ==
    ASSUME IInv, Grows, NEW c \in Callers, CallInv(c), Proceed(c)
    PROVE  CallInv(c)'
  <1>0. TypeOK
    BY DEF IInv
  <1>1. CASE Acquire(c)
    BY <1>0, <1>1, OutsideCall DEF Acquire, Goto, TypeOK
  <1>2. CASE \/ Refuse(c) \/ Replay(c) \/ PortRaises(c) \/ RecordedRejection(c)
             \/ RecordedDelivery(c) \/ FailClosed(c) \/ LeaveUnrecorded(c)
             \/ ReportUnproved(c)
    BY <1>0, <1>2, LeavingCall
       DEF Refuse, Replay, PortRaises, RecordedRejection, RecordedDelivery, FailClosed,
           LeaveUnrecorded, ReportUnproved, Raise
  <1>3. ASSUME NEW t \in EventTypes, StartRecord(c, t), UNCHANGED key,
               pc[c] # "record", PointOf[t] = pc[c],
               pc[c] = "evidence" => Admitted(c, frame[c].i),
               t \notin {"decision.rejected", "decision.proposed", "decision.delivery_unknown"}
        PROVE  CallInv(c)'
    <2>1. /\ pc'[c] = "record" /\ frame'[c].recorder = 1 /\ frame'[c].type = t
          /\ frame'[c].i = frame[c].i /\ frame'[c].constraints = frame[c].constraints
          /\ frame'[c].now = frame[c].now /\ frame'[c].receipts = frame[c].receipts
          /\ frame'[c].action = frame[c].action
      BY <1>0, <1>3 DEF StartRecord, Goto, SetFrame, TypeOK, Frames
    <2> QED
      BY <1>0, <1>3, <2>1, RecordingCall
  <1>4. CASE AcceptEvidence(c)
    BY <1>3, <1>4, PointFacts DEF AcceptEvidence, Admitted, EventTypes
  <1>5. CASE InterpretObjective(c)
    BY <1>3, <1>5, PointFacts DEF InterpretObjective, EventTypes
  <1>6. CASE RejectEvidence(c)
    <2>1. /\ pc'[c] = "record" /\ frame'[c].recorder = 1
          /\ frame'[c].type = "evidence.rejected"
          /\ frame'[c].receipts = frame[c].receipts
      BY <1>0, <1>6 DEF RejectEvidence, StartRecord, Goto, SetFrame, TypeOK, Frames
    <2>2. ReceiptsHeld(c)'
      BY <2>1, ReceiptsStayHeld DEF CallInv
    <2> QED
      BY <2>1, <2>2, LastCall
  <1>7. ASSUME NEW allowed \in BOOLEAN, EvaluatePolicy(c, allowed)
        PROVE  CallInv(c)'
    <2>1. /\ pc[c] = "policy" /\ pc'[c] = "record" /\ UNCHANGED key
          /\ frame'[c].recorder = 1 /\ frame'[c].type = "policy.evaluated"
          /\ frame'[c].i = frame[c].i /\ frame'[c].constraints = frame[c].constraints
          /\ frame'[c].now = frame[c].now /\ frame'[c].receipts = frame[c].receipts
          /\ frame'[c].action = frame[c].action
      BY <1>0, <1>7 DEF EvaluatePolicy, Goto, SetFrame, TypeOK, Frames
    <2> QED
      BY <1>0, <2>1, PointFacts, RecordingCall
  <1>8. ASSUME NEW survives \in BOOLEAN, Challenge(c, survives)
        PROVE  CallInv(c)'
    <2>1. /\ pc[c] = "check" /\ pc'[c] = "record" /\ UNCHANGED key
          /\ frame'[c].recorder = 1 /\ frame'[c].type = "falsification.completed"
          /\ frame'[c].i = frame[c].i /\ frame'[c].constraints = frame[c].constraints
          /\ frame'[c].now = frame[c].now /\ frame'[c].receipts = frame[c].receipts
          /\ frame'[c].action = frame[c].action
      BY <1>0, <1>8 DEF Challenge, Goto, SetFrame, TypeOK, Frames
    <2> QED
      BY <1>0, <2>1, PointFacts, RecordingCall
  <1>9. CASE NoPlan(c)
    BY <1>0, <1>9, RejectingCall DEF NoPlan
  <1>10. CASE SignAndPropose(c)
    <2>1. pc'[c] = "propose" /\ frame'[c] = frame[c]
      BY <1>0, <1>10 DEF SignAndPropose, Goto, TypeOK
    <2>2. StoredSoFar(c)' /\ LastIsWhole(c)' /\ Point(c)' = "propose"
      BY <2>1 DEF StoredSoFar, LastIsWhole, Point
    <2>3. ReceiptsHeld(c)'
      BY <2>1, ReceiptsStayHeld DEF CallInv
    <2> QED
      BY <2>2, <2>3, NothingToProve
  <1>11. ASSUME SinkAcknowledges(c) \/ \E receipt \in {"none", "mismatched"} : SinkUncertain(c, receipt)
         PROVE  CallInv(c)'
    <2>1. /\ pc'[c] = "record" /\ frame'[c].recorder = 1 /\ frame'[c].i = 0
          /\ frame'[c].type \in {"decision.proposed", "decision.delivery_unknown"}
          /\ frame'[c].receipts = frame[c].receipts
      <3>1. CASE SinkAcknowledges(c)
        BY <1>0, <3>1 DEF SinkAcknowledges, Goto, SetFrame, TypeOK, Frames
      <3>2. ASSUME NEW receipt \in {"none", "mismatched"}, SinkUncertain(c, receipt)
            PROVE  <2>1!:
        BY <1>0, <3>2 DEF SinkUncertain, Goto, SetFrame, TypeOK, Frames
      <3> QED
        BY <1>11, <3>1, <3>2
    <2>2. ReceiptsHeld(c)'
      BY <2>1, ReceiptsStayHeld DEF CallInv
    <2> QED
      BY <2>1, <2>2, LastCall
  <1>12. CASE RecordedEvidenceRejection(c)
    <2>1. /\ pc'[c] = "record" /\ frame'[c].recorder = 1 /\ frame'[c].i = 0
          /\ frame'[c].type = "decision.rejected"
          /\ frame'[c].receipts = ReceiptsOf(c)
      BY <1>0, <1>12, EntryTypes
         DEF RecordedEvidenceRejection, RecordDone, SetFrame, TypeOK, Frames
    <2>2. ReceiptsHeld(c)'
      BY <1>0, <1>12, <2>1, DoneIsStored DEF RecordedEvidenceRejection, ReceiptsHeld, Grows
    <2> QED
      BY <2>1, <2>2, LastCall
  <1>13. CASE \/ Begin(c) \/ EvidenceDone(c) \/ PoliciesDone(c)
              \/ \E n \in 0 .. MaxConstraints : Classify(c, n)
              \/ ClassifiersDone(c) \/ RecordConstraint(c)
              \/ \E a \in Actions : SelectAction(c, a)
              \/ ChecksDone(c) \/ Store(c) \/ Recorded(c)
    BY <1>0, <1>13, BeginCall, EvidenceDoneCall, PoliciesDoneCall, ClassifyCall,
       ClassifiersDoneCall, RecordConstraintCall, SelectActionCall, ChecksDoneCall,
       StoreCall, RecordedCall
  <1> QED
    BY <1>1, <1>2, <1>4, <1>5, <1>6, <1>7, <1>8, <1>9, <1>10, <1>11, <1>12, <1>13
       DEF Proceed

(* A step of one call leaves the locals of the others. *)
LEMMA CallsAlone ==
    ASSUME IInv, [Next]_vars, NEW c \in Callers, NEW d \in Callers \ {c}, NEW b \in Batches,
           Proceed(c) \/ Submit(c, b) \/ CancelInside(c) \/ CancelWaiting(c)
    PROVE  pc'[d] = pc[d] /\ key'[d] = key[d] /\ frame'[d] = frame[d]
  <1>0. TypeOK
    BY DEF IInv
  <1>1. ASSUME NEW s, Goto(c, s)
        PROVE  pc'[d] = pc[d]
    BY <1>0, <1>1 DEF Goto, TypeOK
  <1>2. ASSUME NEW f, SetFrame(c, f)
        PROVE  frame'[d] = frame[d]
    BY <1>0, <1>2 DEF SetFrame, TypeOK
  <1>3. CASE Submit(c, b) \/ CancelWaiting(c)
    BY <1>0, <1>1, <1>3 DEF Submit, CancelWaiting, TypeOK
  <1>4. CASE CancelInside(c)
    BY <1>1, <1>2, <1>4 DEF CancelInside, Leave
  <1>5. CASE Proceed(c)
    <2>1. UNCHANGED key
      BY <1>5 DEF Proceed, Acquire, Refuse, Replay, Begin, AcceptEvidence, RejectEvidence,
         EvidenceDone, EvaluatePolicy, PoliciesDone, Classify, ClassifiersDone,
         RecordConstraint, InterpretObjective, NoPlan, SelectAction, Challenge, ChecksDone,
         PortRaises, SignAndPropose, SinkAcknowledges, SinkUncertain, Store, Recorded,
         RecordedEvidenceRejection, RecordedRejection, RecordedDelivery, FailClosed,
         LeaveUnrecorded, ReportUnproved
    <2>2. UNCHANGED pc \/ \E s : Goto(c, s)
      BY <1>5 DEF Proceed, Acquire, Refuse, Replay, Begin, AcceptEvidence, RejectEvidence,
         EvidenceDone, EvaluatePolicy, PoliciesDone, Classify, ClassifiersDone,
         RecordConstraint, InterpretObjective, NoPlan, SelectAction, Challenge, ChecksDone,
         PortRaises, SignAndPropose, SinkAcknowledges, SinkUncertain, Store, Recorded,
         RecordedEvidenceRejection, RecordedRejection, RecordedDelivery, FailClosed,
         LeaveUnrecorded, ReportUnproved, Raise, Leave, StartRecord, Reject
    <2>3. UNCHANGED frame \/ \E f : SetFrame(c, f)
      BY <1>5 DEF Proceed, Acquire, Refuse, Replay, Begin, AcceptEvidence, RejectEvidence,
         EvidenceDone, EvaluatePolicy, PoliciesDone, Classify, ClassifiersDone,
         RecordConstraint, InterpretObjective, NoPlan, SelectAction, Challenge, ChecksDone,
         PortRaises, SignAndPropose, SinkAcknowledges, SinkUncertain, Store, Recorded,
         RecordedEvidenceRejection, RecordedRejection, RecordedDelivery, FailClosed,
         LeaveUnrecorded, ReportUnproved, Raise, Leave, StartRecord, Reject
    <2> QED
      BY <1>1, <1>2, <2>1, <2>2, <2>3
  <1> QED
    BY <1>3, <1>4, <1>5

LEMMA CallsStep ==
    ASSUME IInv, \A c \in Callers : CallInv(c), [Next]_vars
    PROVE  \A c \in Callers : CallInv(c)'
  <1>0. TypeOK /\ Grows
    BY JournalsGrow DEF IInv
  <1>1. ASSUME NEW c \in Callers, NEW b \in Batches,
               Proceed(c) \/ Submit(c, b) \/ CancelInside(c) \/ CancelWaiting(c),
               NEW d \in Callers
        PROVE  CallInv(d)'
    <2>1. CASE d # c
      BY <1>0, <1>1, <2>1, CallsAlone, StillCall
    <2>2. CASE d = c /\ Proceed(c)
      BY <1>0, <2>2, OwnStep
    <2>3. CASE d = c /\ (Submit(c, b) \/ CancelWaiting(c))
      BY <1>0, <2>3, OutsideCall DEF Submit, CancelWaiting, Goto, TypeOK
    <2>4. CASE d = c /\ CancelInside(c)
      BY <1>0, <2>4, LeavingCall DEF CancelInside
    <2> QED
      BY <1>1, <2>1, <2>2, <2>3, <2>4
  <1>2. ASSUME UNCHANGED <<pc, key, frame>>, NEW d \in Callers
        PROVE  CallInv(d)'
    BY <1>0, <1>2, StillCall
  <1>3. ASSUME NEW b \in Batches, NEW k \in 1 .. LastOffer(b), Land(b, k)
        PROVE  UNCHANGED <<pc, key, frame>>
    BY <1>3 DEF Land
  <1>4. CASE Tick \/ Rest \/ UNCHANGED vars
    BY <1>2, <1>4 DEF Tick, Rest, vars
  <1> QED
    BY <1>1, <1>2, <1>3, <1>4, BatchesAssumption DEF Next

-----------------------------------------------------------------------------
(* What the records say of offers and packages. *)

(* The call that hands its package over has everything in the journals.     *)
LEMMA HandingOver ==
    ASSUME TypeOK, NEW c \in Callers, CallInv(c), SignAndPropose(c)
    PROVE  \E e \in Expiries(key[c], frame[c].now) :
               /\ \A f \in Expiries(key[c], frame[c].now) : e <= f
               /\ offered' = [offered EXCEPT ![key[c]] = Append(@, PackageOf(c, e))]
               /\ \A j \in 1 .. Len(Evidence[key[c]]) :
                      Admitted(c, j) /\ Has(key[c], "evidence.accepted", j)
               /\ \A j \in 1 .. Policies : Has(key[c], "policy.evaluated", j)
               /\ Has(key[c], "constraint.classified", 1)
               /\ Has(key[c], "objective.interpreted", 1)
               /\ \A j \in 1 .. Len(Checks(c)) : Has(key[c], "falsification.completed", j)
  <1>1. Point(c) = "sign"
    BY DEF SignAndPropose, Point
  <1>2. \A j \in 1 .. Len(Evidence[key[c]]) :
            Admitted(c, j) /\ Has(key[c], "evidence.accepted", j)
    BY <1>1 DEF CallInv, EvidenceProved, AfterEvidence, AfterPolicies, AfterConstraints,
       AfterObjective, AfterChecks
  <1>3. \A j \in 1 .. Policies : Has(key[c], "policy.evaluated", j)
    BY <1>1 DEF CallInv, PoliciesProved, AfterPolicies, AfterConstraints, AfterObjective,
       AfterChecks
  <1>4. Has(key[c], "constraint.classified", 1) /\ Has(key[c], "objective.interpreted", 1)
    BY <1>1 DEF CallInv, ConstraintsProved, ObjectiveProved, AfterConstraints,
       AfterObjective, AfterChecks
  <1>5. \A j \in 1 .. Len(Checks(c)) : Has(key[c], "falsification.completed", j)
    BY <1>1 DEF CallInv, ChecksProved, AfterChecks
  <1>6. PICK e \in Expiries(key[c], frame[c].now) :
            /\ \A f \in Expiries(key[c], frame[c].now) : e <= f
            /\ offered' = [offered EXCEPT ![key[c]] = Append(@, PackageOf(c, e))]
    BY DEF SignAndPropose
  <1> QED
    BY <1>2, <1>3, <1>4, <1>5, <1>6

LEMMA SoundIsStated == OffersSound => ProofPrecedesOffer /\ PackageWithinEvidence
  <1> SUFFICES ASSUME OffersSound
               PROVE  ProofPrecedesOffer /\ PackageWithinEvidence
    OBVIOUS
  <1>1. ProofPrecedesOffer
    BY DEF OffersSound, Derived, Has, ProofPrecedesOffer
  <1>2. PackageWithinEvidence
    BY DEF OffersSound, Within, PackageWithinEvidence
  <1> QED
    BY <1>1, <1>2

LEMMA HandedOverIsSound ==
    ASSUME TypeOK, Grows, NEW c \in Callers, CallInv(c), SignAndPropose(c)
    PROVE  \E b, p : /\ b \in Batches
                     /\ offered' = [offered EXCEPT ![b] = Append(@, p)]
                     /\ Derived(b, p)' /\ Within(b, p)
  <1>1. PICK e \in Expiries(key[c], frame[c].now) :
            /\ \A f \in Expiries(key[c], frame[c].now) : e <= f
            /\ offered' = [offered EXCEPT ![key[c]] = Append(@, PackageOf(c, e))]
            /\ \A j \in 1 .. Len(Evidence[key[c]]) :
                   Admitted(c, j) /\ Has(key[c], "evidence.accepted", j)
            /\ \A j \in 1 .. Policies : Has(key[c], "policy.evaluated", j)
            /\ Has(key[c], "constraint.classified", 1)
            /\ Has(key[c], "objective.interpreted", 1)
            /\ \A j \in 1 .. Len(Checks(c)) : Has(key[c], "falsification.completed", j)
    BY HandingOver
  <1>2. PICK b, p : b = key[c] /\ p = PackageOf(c, e)
    OBVIOUS
  <1>3. p.created = frame[c].now /\ p.expires = e /\ p.action = frame[c].action
    BY <1>2 DEF PackageOf
  <1>4. Derived(b, p)
    BY <1>1, <1>2, <1>3 DEF Derived, Checks
  <1>5. Derived(b, p)'
    BY <1>4, HasStays DEF Derived
  <1>6. b \in Batches /\ frame[c].now \in Nat
    BY <1>2, FrameFields DEF TypeOK
  <1>7. Within(b, p)
    <2>1. \A i \in 1 .. Len(Evidence[b]) :
              Evidence[b][i].expires \in Nat /\ Evidence[b][i].expires \in Expiries(b, frame[c].now)
      BY <1>6, EvidenceTypes DEF Expiries
    <2>2. \A i \in 1 .. Len(Evidence[b]) :
              /\ Evidence[b][i].inScope
              /\ IsFresh(Evidence[b][i], frame[c].now)
              /\ e <= Evidence[b][i].expires
      BY <1>1, <1>2, <2>1 DEF Admitted
    <2>3. e <= frame[c].now + Ttl
      BY <1>1 DEF Expiries
    <2>4. frame[c].now < e
      <3>1. CASE e = frame[c].now + Ttl
        BY <1>6, <3>1, SizesAssumption
      <3>2. ASSUME NEW i \in 1 .. Len(Evidence[b]), e = Evidence[b][i].expires
            PROVE  frame[c].now < e
        BY <2>2, <3>2 DEF IsFresh
      <3> QED
        BY <1>1, <1>2, <3>1, <3>2 DEF Expiries
    <2> QED
      BY <1>3, <2>2, <2>3, <2>4 DEF Within
  <1> QED
    BY <1>1, <1>2, <1>5, <1>6, <1>7

LEMMA OffersSoundStep ==
    ASSUME IInv, \A c \in Callers : CallInv(c), OffersSound, [Next]_vars
    PROVE  OffersSound'
  <1>0. TypeOK /\ Grows
    BY JournalsGrow DEF IInv
  <1>1. ASSUME NEW b \in Batches, NEW k \in 1 .. LastOffer(b), NEW p, p = offered[b][k]
        PROVE  Derived(b, p)' /\ Within(b, p)
    <2>1. Derived(b, p) /\ Within(b, p)
      BY <1>1 DEF OffersSound
    <2>2. Derived(b, p)'
      BY <1>0, <1>1, <2>1, HasStays DEF Derived
    <2> QED
      BY <2>1, <2>2
  <1>2. CASE UNCHANGED offered
    BY <1>1, <1>2 DEF OffersSound, LastOffer
  <1>3. ASSUME NEW c \in Callers, SignAndPropose(c)
        PROVE  OffersSound'
    <2>1. PICK b, p : /\ b \in Batches
                      /\ offered' = [offered EXCEPT ![b] = Append(@, p)]
                      /\ Derived(b, p)' /\ Within(b, p)
      BY <1>0, <1>3, HandedOverIsSound
    <2>2. ASSUME NEW d \in Batches, NEW k \in 1 .. LastOffer(d)'
          PROVE  \E q : q = offered'[d][k] /\ Derived(d, q)' /\ Within(d, q)
      <3>1. offered[d] \in Seq(Packages)
        BY <1>0 DEF TypeOK
      <3>2. offered'[d] = IF d = b THEN Append(offered[d], p) ELSE offered[d]
        BY <1>0, <2>1 DEF TypeOK
      <3>3. CASE d = b /\ k = Len(offered[d]) + 1
        BY <2>1, <3>1, <3>2, <3>3
      <3>4. CASE k \in 1 .. Len(offered[d])
        <4>1. offered'[d][k] = offered[d][k]
          BY <3>1, <3>2, <3>4
        <4> QED
          BY <1>1, <3>4, <4>1 DEF LastOffer
      <3> QED
        BY <2>2, <3>1, <3>2, <3>3, <3>4 DEF LastOffer
    <2> QED
      BY <2>2 DEF OffersSound
  <1>4. ASSUME NEW c \in Callers, Proceed(c), ~SignAndPropose(c)
        PROVE  UNCHANGED offered
    BY <1>4 DEF Proceed, worldVars, Acquire, Refuse, Replay, Begin, AcceptEvidence,
       RejectEvidence, EvidenceDone, EvaluatePolicy, PoliciesDone, Classify,
       ClassifiersDone, RecordConstraint, InterpretObjective, NoPlan, SelectAction,
       Challenge, ChecksDone, PortRaises, SinkAcknowledges, SinkUncertain, Store,
       Recorded, RecordedEvidenceRejection, RecordedRejection, RecordedDelivery,
       FailClosed, LeaveUnrecorded, ReportUnproved
  <1>5. ASSUME NEW c \in Callers, NEW b \in Batches,
               Submit(c, b) \/ CancelInside(c) \/ CancelWaiting(c)
        PROVE  UNCHANGED offered
    BY <1>5 DEF Submit, CancelInside, CancelWaiting, worldVars
  <1>6. ASSUME NEW b \in Batches, NEW k \in 1 .. LastOffer(b), Land(b, k)
        PROVE  UNCHANGED offered
    BY <1>6 DEF Land
  <1>7. CASE Tick \/ Rest \/ UNCHANGED vars
    BY <1>2, <1>7 DEF Tick, Rest, vars, worldVars
  <1> QED
    BY <1>2, <1>3, <1>4, <1>5, <1>6, <1>7, BatchesAssumption DEF Next

-----------------------------------------------------------------------------
(* What the records say of the cache and of the answers. *)

(* The steps that write to the cache. *)
LEMMA CacheMoves ==
    ASSUME [Next]_vars
    PROVE  \/ UNCHANGED cache
           \/ \E c \in Callers :
                  \/ SinkAcknowledges(c)
                  \/ \E receipt \in {"none", "mismatched"} : SinkUncertain(c, receipt)
                  \/ RecordedRejection(c) \/ RecordedDelivery(c) \/ ReportUnproved(c)
  <1>1. ASSUME NEW c \in Callers, Proceed(c),
               ~(\/ SinkAcknowledges(c)
                 \/ \E receipt \in {"none", "mismatched"} : SinkUncertain(c, receipt)
                 \/ RecordedRejection(c) \/ RecordedDelivery(c) \/ ReportUnproved(c))
        PROVE  UNCHANGED cache
    BY <1>1 DEF Proceed, kernelVars, Acquire, Refuse, Replay, Begin, AcceptEvidence,
       RejectEvidence, EvidenceDone, EvaluatePolicy, PoliciesDone, Classify,
       ClassifiersDone, RecordConstraint, InterpretObjective, NoPlan, SelectAction,
       Challenge, ChecksDone, PortRaises, SignAndPropose, Store, Recorded,
       RecordedEvidenceRejection, FailClosed, LeaveUnrecorded
  <1>2. ASSUME NEW c \in Callers, NEW b \in Batches,
               Submit(c, b) \/ CancelInside(c) \/ CancelWaiting(c)
        PROVE  UNCHANGED cache
    BY <1>2 DEF Submit, CancelInside, CancelWaiting
  <1>3. ASSUME NEW b \in Batches, NEW k \in 1 .. LastOffer(b), Land(b, k)
        PROVE  UNCHANGED cache
    BY <1>3 DEF Land, kernelVars
  <1>4. CASE Tick \/ Rest \/ UNCHANGED vars
    BY <1>4 DEF Tick, Rest, vars, kernelVars
  <1> QED
    BY <1>1, <1>2, <1>3, <1>4, BatchesAssumption DEF Next

(* What the writes put there.  A key that is already cached gets only        *)
(* receipts or a failure added.                                             *)
LEMMA CacheWrites ==
    ASSUME IInv, \A c \in Callers : CallInv(c), [Next]_vars, ~UNCHANGED cache
    PROVE  \E c, r : /\ c \in Callers /\ r # NoResult
                    /\ cache' = [cache EXCEPT ![key[c]] = r]
                    /\ UNCHANGED <<offered, inbox>>
                    /\ \/ r.receipts \subseteq frame[c].receipts
                       \/ RecordDone(c) /\ r.receipts = ReceiptsOf(c)
                       \/ IsCached(key[c]) /\ r.receipts = cache[key[c]].receipts
                    /\ \/ /\ IsCached(key[c])
                          /\ r.status = cache[key[c]].status
                          /\ r.package = cache[key[c]].package
                          /\ r.status \in {"proposed", "delivery_unknown"}
                       \/ /\ r.status = "proposed"
                          /\ LastOffer(key[c]) \in inbox[key[c]]
                          /\ r.package = offered[key[c]][LastOffer(key[c])]
                       \/ r.status = "delivery_unknown"
                       \/ /\ r.status \in {"rejected", "no_candidate"}
                          /\ frame[c].type = "decision.rejected"
                          /\ RecordDone(c) /\ r.receipts = ReceiptsOf(c)
  <1>0. TypeOK
    BY DEF IInv
  <1>1. ASSUME NEW c \in Callers, SinkAcknowledges(c)
        PROVE  \E r : /\ r # NoResult /\ cache' = [cache EXCEPT ![key[c]] = r]
                     /\ UNCHANGED <<offered, inbox>>
                     /\ r.receipts \subseteq frame[c].receipts
                     /\ r.status = "proposed"
                     /\ LastOffer(key[c]) \in inbox[key[c]]
                     /\ r.package = offered[key[c]][LastOffer(key[c])]
    <2> DEFINE r == Settled(c, "proposed", "matching")
    <2>1. r.status = "proposed" /\ r.receipts = frame[c].receipts
      BY DEF Settled
    <2>2. cache' = [cache EXCEPT ![key[c]] = r] /\ UNCHANGED <<offered, inbox>>
      BY <1>1 DEF SinkAcknowledges, Put, worldVars
    <2>3. /\ LastOffer(key[c]) \in inbox[key[c]]
          /\ r.package = offered[key[c]][LastOffer(key[c])]
      BY <1>1 DEF SinkAcknowledges, Settled
    <2> HIDE DEF r
    <2>4. r # NoResult
      BY <2>1 DEF NoResult
    <2> QED
      BY <2>1, <2>2, <2>3, <2>4
  <1>2. ASSUME NEW c \in Callers, NEW receipt \in {"none", "mismatched"},
               SinkUncertain(c, receipt)
        PROVE  \E r : /\ r # NoResult /\ cache' = [cache EXCEPT ![key[c]] = r]
                     /\ UNCHANGED <<offered, inbox>>
                     /\ r.receipts \subseteq frame[c].receipts
                     /\ r.status = "delivery_unknown"
    <2> DEFINE r == Settled(c, "delivery_unknown", receipt)
    <2>1. r.status = "delivery_unknown" /\ r.receipts = frame[c].receipts
      BY DEF Settled
    <2>2. cache' = [cache EXCEPT ![key[c]] = r] /\ UNCHANGED <<offered, inbox>>
      BY <1>2 DEF SinkUncertain, Put, worldVars
    <2> HIDE DEF r
    <2>4. r # NoResult
      BY <2>1 DEF NoResult
    <2> QED
      BY <2>1, <2>2, <2>4
  <1>3. ASSUME NEW c \in Callers, RecordedRejection(c)
        PROVE  \E r : /\ r # NoResult /\ cache' = [cache EXCEPT ![key[c]] = r]
                     /\ UNCHANGED <<offered, inbox>>
                     /\ r.status \in {"rejected", "no_candidate"}
                     /\ frame[c].type = "decision.rejected"
                     /\ RecordDone(c) /\ r.receipts = ReceiptsOf(c)
    <2> DEFINE r == [NoResult EXCEPT !.status = frame[c].verdict,
                                     !.receipts = ReceiptsOf(c)]
    <2>1. r.status = frame[c].verdict /\ r.receipts = ReceiptsOf(c)
      BY DEF NoResult
    <2>2. frame[c].verdict \in {"rejected", "no_candidate"}
      BY <1>0, FrameFields DEF TypeOK
    <2>3. r # NoResult
      BY <2>1, <2>2 DEF NoResult
    <2>4. cache' = [cache EXCEPT ![key[c]] = r] /\ UNCHANGED <<offered, inbox>>
      BY <1>3 DEF RecordedRejection, Put, worldVars
    <2>5. frame[c].type = "decision.rejected" /\ RecordDone(c)
      BY <1>3 DEF RecordedRejection
    <2> HIDE DEF r
    <2> QED
      BY <2>1, <2>2, <2>3, <2>4, <2>5
  <1>4. ASSUME NEW c \in Callers, IsSettling(c)
        PROVE  IsCached(key[c]) /\ cache[key[c]] \in Results /\ IsDelivery(cache[key[c]])
    BY <1>4, <1>0, NoResultFacts DEF IInv, SettledWhileRecording, IsCached, TypeOK
  <1>5. ASSUME NEW c \in Callers, RecordedDelivery(c)
        PROVE  \E r : /\ r # NoResult /\ cache' = [cache EXCEPT ![key[c]] = r]
                     /\ UNCHANGED <<offered, inbox>>
                     /\ IsCached(key[c])
                     /\ r.status = cache[key[c]].status
                     /\ r.package = cache[key[c]].package
                     /\ r.status \in {"proposed", "delivery_unknown"}
                     /\ RecordDone(c) /\ r.receipts = ReceiptsOf(c)
    <2>1. IsSettling(c) /\ RecordDone(c)
      BY <1>5 DEF RecordedDelivery, RecordDone, IsSettling
    <2> DEFINE r == [cache[key[c]] EXCEPT !.receipts = ReceiptsOf(c)]
    <2>2. /\ r.status = cache[key[c]].status /\ r.package = cache[key[c]].package
          /\ r.receipts = ReceiptsOf(c)
      BY <1>4, <2>1 DEF Results
    <2>3. cache' = [cache EXCEPT ![key[c]] = r] /\ UNCHANGED <<offered, inbox>>
      BY <1>5 DEF RecordedDelivery, Put, worldVars
    <2>4. r.status \in {"proposed", "delivery_unknown"}
      BY <1>4, <2>1, <2>2 DEF IsDelivery
    <2> HIDE DEF r
    <2>5. r # NoResult
      BY <2>4 DEF NoResult
    <2> QED
      BY <1>4, <2>1, <2>2, <2>3, <2>4, <2>5
  <1>6. ASSUME NEW c \in Callers, ReportUnproved(c)
        PROVE  \E r : /\ r # NoResult /\ cache' = [cache EXCEPT ![key[c]] = r]
                     /\ UNCHANGED <<offered, inbox>>
                     /\ IsCached(key[c])
                     /\ r.status = cache[key[c]].status
                     /\ r.package = cache[key[c]].package
                     /\ r.status \in {"proposed", "delivery_unknown"}
                     /\ r.receipts = cache[key[c]].receipts
    <2>1. IsSettling(c)
      BY <1>6 DEF ReportUnproved, RecorderRaises, IsSettling
    <2> DEFINE r == WithFailure(cache[key[c]])
    <2>2. /\ r.status = cache[key[c]].status /\ r.package = cache[key[c]].package
          /\ r.receipts = cache[key[c]].receipts
      BY <1>4, <2>1 DEF Results, WithFailure
    <2>3. cache' = [cache EXCEPT ![key[c]] = r] /\ UNCHANGED <<offered, inbox>>
      BY <1>6 DEF ReportUnproved, Put
    <2>4. r.status \in {"proposed", "delivery_unknown"}
      BY <1>4, <2>1, <2>2 DEF IsDelivery
    <2> HIDE DEF r
    <2>5. r # NoResult
      BY <2>4 DEF NoResult
    <2> QED
      BY <1>4, <2>1, <2>2, <2>3, <2>4, <2>5
  <1>7. PICK c \in Callers :
            \/ SinkAcknowledges(c)
            \/ \E receipt \in {"none", "mismatched"} : SinkUncertain(c, receipt)
            \/ RecordedRejection(c) \/ RecordedDelivery(c) \/ ReportUnproved(c)
    BY CacheMoves
  <1>8. CASE SinkAcknowledges(c)
    BY <1>1, <1>8
  <1>9. CASE \E receipt \in {"none", "mismatched"} : SinkUncertain(c, receipt)
    BY <1>2, <1>9
  <1>10. CASE RecordedRejection(c)
    BY <1>3, <1>10
  <1>11. CASE RecordedDelivery(c)
    BY <1>5, <1>11
  <1>12. CASE ReportUnproved(c)
    BY <1>6, <1>12
  <1> QED
    BY <1>7, <1>8, <1>9, <1>10, <1>11, <1>12

LEMMA ReceiptsStep ==
    ASSUME IInv, \A c \in Callers : CallInv(c), ReceiptsAreStored, [Next]_vars
    PROVE  ReceiptsAreStored'
  <1>0. TypeOK /\ Grows
    BY JournalsGrow DEF IInv
  <1>1. ASSUME NEW b \in Batches, cache'[b] = cache[b]
        PROVE  /\ \A receipt \in cache'[b].receipts :
                      receipt[1] \in 1 .. Recorders /\ receipt[2] \in journal'[receipt[1]]
               /\ cache'[b].status \in {"rejected", "no_candidate"} =>
                      \A r \in 1 .. Recorders :
                          <<r, [key |-> b, type |-> "decision.rejected", subject |-> 0]>>
                              \in cache'[b].receipts
    BY <1>0, <1>1 DEF ReceiptsAreStored, Grows
  <1>2. CASE UNCHANGED cache
    BY <1>1, <1>2 DEF ReceiptsAreStored
  <1>3. CASE ~UNCHANGED cache
    <2>1. PICK c, r :
              /\ c \in Callers
              /\ cache' = [cache EXCEPT ![key[c]] = r]
              /\ \/ r.receipts \subseteq frame[c].receipts
                 \/ RecordDone(c) /\ r.receipts = ReceiptsOf(c)
                 \/ IsCached(key[c]) /\ r.receipts = cache[key[c]].receipts
              /\ r.status \in {"rejected", "no_candidate"} =>
                     /\ frame[c].type = "decision.rejected"
                     /\ RecordDone(c) /\ r.receipts = ReceiptsOf(c)
      BY <1>3, CacheWrites
    <2>2. key[c] \in Batches
      BY <1>0, <2>1 DEF TypeOK
    <2>3. \A b \in Batches : cache'[b] = IF b = key[c] THEN r ELSE cache[b]
      BY <1>0, <2>1 DEF TypeOK
    <2>4. \A receipt \in r.receipts :
              receipt[1] \in 1 .. Recorders /\ receipt[2] \in journal[receipt[1]]
      <3>1. CASE r.receipts \subseteq frame[c].receipts
        BY <2>1, <3>1 DEF CallInv, ReceiptsHeld
      <3>2. CASE RecordDone(c) /\ r.receipts = ReceiptsOf(c)
        BY <1>0, <2>1, <3>2, DoneIsStored
      <3>3. CASE r.receipts = cache[key[c]].receipts
        BY <2>2, <3>3 DEF ReceiptsAreStored
      <3> QED
        BY <2>1, <3>1, <3>2, <3>3
    <2>5. r.status \in {"rejected", "no_candidate"} =>
              \A q \in 1 .. Recorders :
                  <<q, [key |-> key[c], type |-> "decision.rejected", subject |-> 0]>>
                      \in r.receipts
      <3> SUFFICES ASSUME r.status \in {"rejected", "no_candidate"}
                   PROVE  \A q \in 1 .. Recorders :
                              <<q, [key |-> key[c], type |-> "decision.rejected",
                                    subject |-> 0]>> \in r.receipts
        OBVIOUS
      <3>1. frame[c].i = 0
        BY <2>1 DEF CallInv, LastIsWhole, RecordDone
      <3>2. EntryOf(c) = [key |-> key[c], type |-> "decision.rejected", subject |-> 0]
        BY <2>1, <3>1 DEF EntryOf
      <3> QED
        BY <2>1, <3>2 DEF ReceiptsOf
    <2>6. ASSUME NEW b \in Batches
          PROVE  /\ \A receipt \in cache'[b].receipts :
                        receipt[1] \in 1 .. Recorders /\ receipt[2] \in journal'[receipt[1]]
                 /\ cache'[b].status \in {"rejected", "no_candidate"} =>
                        \A q \in 1 .. Recorders :
                            <<q, [key |-> b, type |-> "decision.rejected", subject |-> 0]>>
                                \in cache'[b].receipts
      <3>1. CASE b = key[c]
        BY <1>0, <2>3, <2>4, <2>5, <3>1 DEF Grows
      <3>2. CASE b # key[c]
        BY <1>1, <2>3, <3>2
      <3> QED
        BY <3>1, <3>2
    <2> QED
      BY <2>6 DEF ReceiptsAreStored
  <1> QED
    BY <1>2, <1>3

(* Packages once offered and arrived stay so. *)
LEMMA OffersStay ==
    ASSUME TypeOK, InboxOffered, [Next]_vars, NEW b \in Batches
    PROVE  /\ inbox[b] \subseteq inbox'[b]
           /\ inbox'[b] \subseteq 1 .. LastOffer(b)'
           /\ \A k \in inbox[b] : offered'[b][k] = offered[b][k]
  <1>0. /\ inbox[b] \subseteq 1 .. Len(offered[b]) /\ offered[b] \in Seq(Packages)
        /\ Len(offered[b]) \in Nat
    BY DEF InboxOffered, LastOffer, TypeOK
  <1>1. CASE UNCHANGED <<offered, inbox>>
    BY <1>0, <1>1 DEF LastOffer
  <1>2. ASSUME NEW c \in Callers, SignAndPropose(c)
        PROVE  /\ inbox[b] \subseteq inbox'[b]
               /\ inbox'[b] \subseteq 1 .. LastOffer(b)'
               /\ \A k \in inbox[b] : offered'[b][k] = offered[b][k]
    <2>1. PICK p : offered' = [offered EXCEPT ![key[c]] = Append(@, p)]
      BY <1>2 DEF SignAndPropose
    <2>2. offered'[b] = IF b = key[c] THEN Append(offered[b], p) ELSE offered[b]
      BY <2>1 DEF TypeOK
    <2>3. inbox' = inbox
      BY <1>2 DEF SignAndPropose
    <2>4. CASE offered'[b] = offered[b]
      BY <1>0, <2>3, <2>4 DEF LastOffer
    <2>5. CASE offered'[b] = Append(offered[b], p)
      BY <1>0, <2>3, <2>5 DEF LastOffer
    <2> QED
      BY <2>2, <2>4, <2>5
  <1>3. ASSUME NEW d \in Batches, NEW k \in 1 .. LastOffer(d), Land(d, k)
        PROVE  /\ inbox[b] \subseteq inbox'[b]
               /\ inbox'[b] \subseteq 1 .. LastOffer(b)'
               /\ \A j \in inbox[b] : offered'[b][j] = offered[b][j]
    BY <1>0, <1>3 DEF Land, LastOffer, TypeOK
  <1>4. ASSUME NEW c \in Callers, Proceed(c), ~SignAndPropose(c)
        PROVE  UNCHANGED <<offered, inbox>>
    BY <1>4 DEF Proceed, worldVars, Acquire, Refuse, Replay, Begin, AcceptEvidence,
       RejectEvidence, EvidenceDone, EvaluatePolicy, PoliciesDone, Classify,
       ClassifiersDone, RecordConstraint, InterpretObjective, NoPlan, SelectAction,
       Challenge, ChecksDone, PortRaises, SinkAcknowledges, SinkUncertain, Store,
       Recorded, RecordedEvidenceRejection, RecordedRejection, RecordedDelivery,
       FailClosed, LeaveUnrecorded, ReportUnproved
  <1>5. ASSUME NEW c \in Callers, NEW d \in Batches,
               Submit(c, d) \/ CancelInside(c) \/ CancelWaiting(c)
        PROVE  UNCHANGED <<offered, inbox>>
    BY <1>5 DEF Submit, CancelInside, CancelWaiting, worldVars
  <1>6. ASSUME Tick \/ Rest \/ UNCHANGED vars
        PROVE  UNCHANGED <<offered, inbox>>
    BY <1>6 DEF Tick, Rest, vars, worldVars
  <1> QED
    BY <1>1, <1>2, <1>3, <1>4, <1>5, <1>6 DEF Next

LEMMA DeliveredStep ==
    ASSUME IInv, \A c \in Callers : CallInv(c), InboxOffered, ProposedIsDelivered,
           [Next]_vars
    PROVE  InboxOffered' /\ ProposedIsDelivered'
  <1>0. TypeOK
    BY DEF IInv
  <1>1. InboxOffered'
    BY <1>0, OffersStay DEF InboxOffered
  <1>2. ASSUME NEW b \in Batches, NEW r, r.status = "proposed" =>
                   \E k \in inbox[b] : r.package = offered[b][k]
        PROVE  r.status = "proposed" => \E k \in inbox'[b] : r.package = offered'[b][k]
    BY <1>0, <1>2, OffersStay
  <1>3. ASSUME NEW b \in Batches, cache'[b] = cache[b]
        PROVE  cache'[b].status = "proposed" =>
                   \E k \in inbox'[b] : cache'[b].package = offered'[b][k]
    BY <1>2, <1>3 DEF ProposedIsDelivered
  <1>4. CASE UNCHANGED cache
    BY <1>1, <1>3, <1>4 DEF ProposedIsDelivered
  <1>5. CASE ~UNCHANGED cache
    <2>1. PICK c, r :
              /\ c \in Callers
              /\ cache' = [cache EXCEPT ![key[c]] = r]
              /\ r.status = "proposed" =>
                     \/ /\ r.status = cache[key[c]].status
                        /\ r.package = cache[key[c]].package
                     \/ /\ LastOffer(key[c]) \in inbox[key[c]]
                        /\ r.package = offered[key[c]][LastOffer(key[c])]
      BY <1>5, CacheWrites
    <2>2. \A b \in Batches : cache'[b] = IF b = key[c] THEN r ELSE cache[b]
      BY <1>0, <2>1 DEF TypeOK
    <2>3. key[c] \in Batches
      BY <1>0, <2>1 DEF TypeOK
    <2>4. r.status = "proposed" => \E k \in inbox[key[c]] : r.package = offered[key[c]][k]
      BY <2>1, <2>3 DEF ProposedIsDelivered
    <2>5. ASSUME NEW b \in Batches
          PROVE  cache'[b].status = "proposed" =>
                     \E k \in inbox'[b] : cache'[b].package = offered'[b][k]
      <3>1. CASE b # key[c]
        BY <1>3, <2>2, <3>1
      <3>2. CASE b = key[c]
        BY <1>2, <2>2, <2>4, <3>2
      <3> QED
        BY <3>1, <3>2
    <2> QED
      BY <1>1, <2>5 DEF ProposedIsDelivered
  <1> QED
    BY <1>4, <1>5

-----------------------------------------------------------------------------
(* Answers and the cache. *)

(* What a call is told is what the cache holds when it is told. *)
LEMMA AnswerMoves ==
    ASSUME IInv, [Next]_vars, NEW d \in Callers
    PROVE  \/ answer'[d] = answer[d] /\ key'[d] = key[d]
           \/ answer'[d].kind # "result" /\ answer'[d].result = NoResult
           \/ /\ IsCached(key[d])' /\ answer'[d].result = cache'[key[d]]
              /\ key'[d] = key[d] /\ lock' = NoCaller
  <1> DEFINE Goal == \/ answer'[d] = answer[d] /\ key'[d] = key[d]
                     \/ answer'[d].kind # "result" /\ answer'[d].result = NoResult
                     \/ /\ IsCached(key[d])' /\ answer'[d].result = cache'[key[d]]
                        /\ key'[d] = key[d] /\ lock' = NoCaller
  <1>0. TypeOK
    BY DEF IInv
  <1>1. ASSUME NEW c \in Callers, NEW k \in {"raised", "cancelled"}, NEW x,
               Leave(c, k, NoResult, x), UNCHANGED key
        PROVE  Goal
    BY <1>0, <1>1 DEF Leave, TypeOK
  <1>2. ASSUME NEW c \in Callers, NEW r, NEW x, Leave(c, "result", r, x), UNCHANGED key,
               cache'[key[c]] = r, r # NoResult
        PROVE  Goal
    <2>1. CASE d = c
      BY <1>0, <1>2, <2>1 DEF Leave, TypeOK, IsCached
    <2>2. CASE d # c
      BY <1>0, <1>2, <2>2 DEF Leave, TypeOK
    <2> QED
      BY <2>1, <2>2
  <1>3. ASSUME NEW c \in Callers, Refuse(c) \/ PortRaises(c) \/ FailClosed(c) \/ CancelInside(c)
        PROVE  Goal
    BY <1>1, <1>3 DEF Refuse, PortRaises, FailClosed, CancelInside, Raise
  <1>4. ASSUME NEW c \in Callers, IsSettling(c)
        PROVE  cache[key[c]] # NoResult /\ cache[key[c]] \in Results /\ key[c] \in Batches
               /\ IsDelivery(cache[key[c]])
    BY <1>4, <1>0, NoResultFacts DEF IInv, SettledWhileRecording, TypeOK
  <1>5. ASSUME NEW c \in Callers, Replay(c) \/ LeaveUnrecorded(c)
        PROVE  Goal
    <2>1. CASE Replay(c)
      BY <1>2, <2>1 DEF Replay, IsCached
    <2>2. CASE LeaveUnrecorded(c)
      <3>1. IsSettling(c)
        BY <2>2 DEF LeaveUnrecorded, RecorderRaises, IsSettling
      <3> QED
        BY <1>2, <1>4, <2>2, <3>1 DEF LeaveUnrecorded
    <2> QED
      BY <1>5, <2>1, <2>2
  <1>6. ASSUME NEW c \in Callers, NEW r, r # NoResult, Put(key[c], r),
               Leave(c, "result", r, FALSE), UNCHANGED key
        PROVE  Goal
    <2>1. cache'[key[c]] = r
      BY <1>0, <1>6 DEF Put, TypeOK
    <2> QED
      BY <1>2, <1>6, <2>1
  <1>7. ASSUME NEW c \in Callers, RecordedRejection(c)
        PROVE  Goal
    <2>1. frame[c].verdict \in {"rejected", "no_candidate"}
      BY <1>0, FrameFields DEF TypeOK
    <2>2. [NoResult EXCEPT !.status = frame[c].verdict, !.receipts = ReceiptsOf(c)] # NoResult
      BY <2>1 DEF NoResult
    <2> QED
      BY <1>6, <1>7, <2>2 DEF RecordedRejection
  <1>8. ASSUME NEW c \in Callers, RecordedDelivery(c)
        PROVE  Goal
    <2>1. IsSettling(c)
      BY <1>8 DEF RecordedDelivery, RecordDone, IsSettling
    <2>2. [cache[key[c]] EXCEPT !.receipts = ReceiptsOf(c)].status = cache[key[c]].status
      BY <1>4, <2>1 DEF Results
    <2>3. [cache[key[c]] EXCEPT !.receipts = ReceiptsOf(c)] # NoResult
      BY <1>4, <2>1, <2>2, NoResultFacts DEF IsDelivery
    <2> QED
      BY <1>6, <1>8, <2>3 DEF RecordedDelivery
  <1>9. ASSUME NEW c \in Callers, ReportUnproved(c)
        PROVE  Goal
    <2>1. IsSettling(c)
      BY <1>9 DEF ReportUnproved, RecorderRaises, IsSettling
    <2>2. WithFailure(cache[key[c]]).status = cache[key[c]].status
      BY <1>4, <2>1 DEF Results, WithFailure
    <2>3. WithFailure(cache[key[c]]) # NoResult
      BY <1>4, <2>1, <2>2, NoResultFacts DEF IsDelivery
    <2> QED
      BY <1>6, <1>9, <2>3 DEF ReportUnproved
  <1>10. ASSUME NEW c \in Callers, NEW r, r.kind # "result", r.result = NoResult,
                answer' = [answer EXCEPT ![c] = r],
                \A e \in Callers \ {c} : key'[e] = key[e]
         PROVE  Goal
    BY <1>0, <1>10 DEF TypeOK
  <1>11. ASSUME NEW c \in Callers, NEW b \in Batches, Submit(c, b)
         PROVE  Goal
    BY <1>0, <1>10, <1>11 DEF Submit, TypeOK
  <1>12. ASSUME NEW c \in Callers, CancelWaiting(c)
         PROVE  Goal
    BY <1>10, <1>12 DEF CancelWaiting
  <1>13. ASSUME NEW c \in Callers, Proceed(c),
                ~(\/ Refuse(c) \/ PortRaises(c) \/ FailClosed(c) \/ Replay(c)
                  \/ LeaveUnrecorded(c) \/ RecordedRejection(c) \/ RecordedDelivery(c)
                  \/ ReportUnproved(c))
         PROVE  UNCHANGED <<answer, key>>
    BY <1>13 DEF Proceed, hostVars, Acquire, Begin, AcceptEvidence, RejectEvidence,
       EvidenceDone, EvaluatePolicy, PoliciesDone, Classify, ClassifiersDone,
       RecordConstraint, InterpretObjective, NoPlan, SelectAction, Challenge, ChecksDone,
       SignAndPropose, SinkAcknowledges, SinkUncertain, Store, Recorded,
       RecordedEvidenceRejection
  <1>14. ASSUME NEW b \in Batches, NEW k \in 1 .. LastOffer(b), Land(b, k)
         PROVE  UNCHANGED <<answer, key>>
    BY <1>14 DEF Land, hostVars
  <1>15. ASSUME Tick \/ Rest \/ UNCHANGED vars
         PROVE  UNCHANGED <<answer, key>>
    BY <1>15 DEF Tick, Rest, vars, hostVars
  <1>16. UNCHANGED <<answer, key>> => Goal
    OBVIOUS
  <1> HIDE DEF Goal
  <1>17. Goal
    BY <1>3, <1>5, <1>7, <1>8, <1>9, <1>11, <1>12, <1>13, <1>14, <1>15, <1>16
       DEF Next
  <1> QED
    BY <1>17 DEF Goal

(* A cached verdict keeps its status and package. *)
LEMMA CachedIsKept ==
    ASSUME IInv, \A c \in Callers : CallInv(c), [Next]_vars, NEW b \in Batches, IsCached(b)
    PROVE  /\ IsCached(b)'
           /\ cache'[b].status = cache[b].status /\ cache'[b].package = cache[b].package
  <1>1. CASE UNCHANGED cache
    BY <1>1 DEF IsCached
  <1>2. CASE ~UNCHANGED cache
    <2>1. PICK c, r : /\ c \in Callers /\ r # NoResult
                      /\ cache' = [cache EXCEPT ![key[c]] = r]
      BY <1>2, CacheWrites
    <2>2. CASE b # key[c]
      BY <2>1, <2>2 DEF IsCached
    <2>3. CASE b = key[c]
      <3>1. IsCached(b)'
        BY <2>1, <2>3 DEF IsCached, IInv, TypeOK
      <3>2. StepKind
        BY StepKinds
      <3> QED
        BY <3>1, <3>2, KindsKeepVerdicts
    <2> QED
      BY <2>1, <2>2, <2>3
  <1> QED
    BY <1>1, <1>2

LEMMA AnswersStep ==
    ASSUME IInv, \A c \in Callers : CallInv(c), AnswersCached, [Next]_vars
    PROVE  AnswersCached'
  <1> SUFFICES ASSUME NEW d \in Callers, answer'[d].kind = "result"
               PROVE  /\ cache'[key'[d]] # NoResult
                      /\ answer'[d].result.status = cache'[key'[d]].status
                      /\ answer'[d].result.package = cache'[key'[d]].package
    BY DEF AnswersCached, IsCached
  <1>1. key[d] \in Batches
    BY DEF IInv, TypeOK
  <1>2. CASE answer'[d] = answer[d] /\ key'[d] = key[d]
    <2>1. /\ IsCached(key[d])
          /\ answer[d].result.status = cache[key[d]].status
          /\ answer[d].result.package = cache[key[d]].package
      BY <1>2 DEF AnswersCached
    <2>2. PICK b \in Batches : b = key[d]
      BY <1>1
    <2>3. /\ IsCached(b)'
          /\ cache'[b].status = cache[b].status /\ cache'[b].package = cache[b].package
      BY <2>1, <2>2, CachedIsKept
    <2> QED
      BY <1>2, <2>1, <2>2, <2>3 DEF IsCached
  <1>3. CASE IsCached(key[d])' /\ answer'[d].result = cache'[key[d]] /\ key'[d] = key[d]
    BY <1>3 DEF IsCached
  <1> QED
    BY <1>2, <1>3, AnswerMoves

-----------------------------------------------------------------------------
(* The invariant. *)

LEMMA RecordInit == Init => RecordInv
  <1> SUFFICES ASSUME Init PROVE RecordInv
    OBVIOUS
  <1>1. ASSUME NEW c \in Callers PROVE CallInv(c)
    <2>1. pc[c] = "idle" /\ frame[c].receipts = {}
      BY DEF Init, FreshFrame
    <2> QED
      BY <2>1 DEF CallInv, StoredSoFar, ReceiptsHeld, EvidenceProved, PoliciesProved,
         ConstraintsProved, ObjectiveProved, ChecksProved, LastIsWhole, Point,
         AfterEvidence, AfterPolicies, AfterConstraints, AfterObjective, AfterChecks
  <1>2. InboxOffered /\ AnswersCached
    BY DEF Init, InboxOffered, AnswersCached
  <1>3. ReceiptsAreStored /\ ProposedIsDelivered
    BY DEF Init, ReceiptsAreStored, ProposedIsDelivered, NoResult
  <1>4. OffersSound
    BY DEF Init, OffersSound, LastOffer
  <1> QED
    BY <1>1, <1>2, <1>3, <1>4 DEF RecordInv

(* What a call has passed is in every journal, offers are derived and within *)
(* their evidence, receipts name stored entries, and answers are what the    *)
(* cache says (kernel.py:150-568), in every reachable state.                 *)
THEOREM RecordInvariance == Spec => []RecordInv
  <1>1. IInv /\ RecordInv /\ [Next]_vars => RecordInv'
    <2> SUFFICES ASSUME IInv, RecordInv, [Next]_vars
                 PROVE  RecordInv'
      OBVIOUS
    <2>1. \A c \in Callers : CallInv(c)'
      BY CallsStep DEF RecordInv
    <2>2. OffersSound'
      BY OffersSoundStep DEF RecordInv
    <2>3. ReceiptsAreStored'
      BY ReceiptsStep DEF RecordInv
    <2>4. InboxOffered' /\ ProposedIsDelivered'
      BY DeliveredStep DEF RecordInv
    <2>5. AnswersCached'
      BY AnswersStep DEF RecordInv
    <2> QED
      BY <2>1, <2>2, <2>3, <2>4, <2>5 DEF RecordInv
  <1> QED
    BY Invariance, RecordInit, <1>1, PTL DEF Spec

(* No package reaches the sink before its whole derivation is in every      *)
(* recorder (kernel.py:236-428): for every number of recorders, policies,   *)
(* classifiers and checks, and whichever recorder or port fails.            *)
THEOREM ProofsPrecedeOffers == Spec => []ProofPrecedesOffer
  <1>1. RecordInv => ProofPrecedesOffer
    BY SoundIsStated DEF RecordInv
  <1> QED
    BY RecordInvariance, <1>1, PTL

(* A package lies within the window of all its evidence and the TTL         *)
(* (kernel.py:236-276, 445-452), for any evidence and however far the clock *)
(* moves between two awaits of the cycle.                                   *)
THEOREM PackagesWithinEvidence == Spec => []PackageWithinEvidence
  <1>1. RecordInv => PackageWithinEvidence
    BY SoundIsStated DEF RecordInv
  <1> QED
    BY RecordInvariance, <1>1, PTL

(* Cached receipts name entries the recorders hold, and a refusal is cached *)
(* with the receipt of every recorder (kernel.py:152-189), whichever        *)
(* recorder fails at whichever event.                                       *)
THEOREM ReceiptsAreAlwaysStored == Spec => []ReceiptsAreStored
  <1>1. RecordInv => ReceiptsAreStored
    BY DEF RecordInv
  <1> QED
    BY RecordInvariance, <1>1, PTL

(* A cached "proposed" is the package the consumer has (kernel.py:478-539), *)
(* whenever the sink raises, answers for another package or is cancelled.   *)
THEOREM ProposalsAreDelivered == Spec => []ProposedIsDelivered
  <1>1. RecordInv => ProposedIsDelivered
    BY DEF RecordInv
  <1> QED
    BY RecordInvariance, <1>1, PTL

(* Callers that hold results for one key hold the same verdict and package: *)
(* for every number of callers and retries of run (kernel.py:201-219).      *)
THEOREM AnswersAlwaysAgree == Spec => []AnswersAgree
  <1>1. RecordInv => AnswersAgree
    BY DEF RecordInv, AnswersCached, AnswersAgree
  <1> QED
    BY RecordInvariance, <1>1, PTL

-----------------------------------------------------------------------------
(* A host that cancels nothing learns whether its delivery is proved. *)

(* The last event of a delivery is recorded for the verdict in the cache. *)
SettlesAsRecorded ==
    \A c \in Callers : IsSettling(c) =>
        (cache[key[c]].status = "proposed" <=> frame[c].type = "decision.proposed")

IsProving(c, b) == pc[c] = "record" /\ key[c] = b /\ frame[c].type = "decision.proposed"

(* A cached delivery without a reservation is proved or about to be. *)
CachedIsProved ==
    \A b \in Batches : cache[b].status = "proposed" /\ ~cache[b].unproved =>
        Has(b, "decision.proposed", 0) \/ \E c \in Callers : IsProving(c, b)

DeliveryInv == SettlesAsRecorded /\ CachedIsProved /\ DeliveryProvedOrReported

LEMMA SettlingSteps ==
    ASSUME IInv, [Next]_vars, NEW c \in Callers, IsSettling(c)'
    PROVE  \/ SinkAcknowledges(c)
           \/ \E receipt \in {"none", "mismatched"} : SinkUncertain(c, receipt)
           \/ /\ IsSettling(c) /\ frame'[c].type = frame[c].type
              /\ UNCHANGED cache /\ key'[c] = key[c]
  <1>0. TypeOK /\ LockHeld
    BY DEF IInv
  <1>1. \A x \in {"evidence.accepted", "evidence.rejected", "policy.evaluated",
                  "constraint.classified", "objective.interpreted",
                  "falsification.completed", "decision.rejected"} : frame'[c].type # x
    BY DEF IsSettling
  <1>2. ~\E k, r, x : Leave(c, k, r, x)
    BY <1>0 DEF Leave, Goto, IsSettling, TypeOK
  <1>3. ASSUME NEW s, Goto(c, s) PROVE s = "record"
    BY <1>0, <1>3 DEF Goto, IsSettling, TypeOK
  <1>4. ASSUME NEW t, StartRecord(c, t) PROVE frame'[c].type = t
    BY <1>0, <1>4 DEF StartRecord, SetFrame, TypeOK, Frames
  <1>5. ASSUME NEW v, Reject(c, v) PROVE FALSE
    BY <1>0, <1>1, <1>5 DEF Reject, SetFrame, TypeOK, Frames
  <1>6. CASE Store(c)
    <2>1. pc[c] = "record" /\ UNCHANGED <<key, cache>> /\ frame'[c].type = frame[c].type
      BY <1>0, <1>6 DEF Store, SetFrame, TypeOK, Frames, kernelVars
    <2> QED
      BY <2>1 DEF IsSettling
  <1>7. CASE RecordedEvidenceRejection(c)
    BY <1>0, <1>1, <1>7 DEF RecordedEvidenceRejection, SetFrame, TypeOK, Frames
  <1>8. CASE Recorded(c)
    <2>1. frame[c].type \in EventTypes
      BY <1>0, FrameFields DEF TypeOK
    <2> QED
      BY <1>3, <1>8, <2>1 DEF Recorded, Resume, EventTypes
  <1>9. ASSUME NEW x \in BOOLEAN, EvaluatePolicy(c, x) \/ Challenge(c, x)
        PROVE  FALSE
    BY <1>0, <1>1, <1>9 DEF EvaluatePolicy, Challenge, SetFrame, TypeOK, Frames
  <1>10. CASE \/ AcceptEvidence(c) \/ RejectEvidence(c) \/ RecordConstraint(c)
              \/ InterpretObjective(c)
    BY <1>1, <1>3, <1>4, <1>10
       DEF AcceptEvidence, RejectEvidence, RecordConstraint, InterpretObjective
  <1>11. CASE \/ PoliciesDone(c) \/ ClassifiersDone(c) \/ NoPlan(c) \/ ChecksDone(c)
    BY <1>3, <1>5, <1>11 DEF PoliciesDone, ClassifiersDone, NoPlan, ChecksDone
  <1>12. ASSUME NEW n \in 0 .. MaxConstraints, Classify(c, n)
         PROVE  FALSE
    BY <1>12 DEF Classify, IsSettling
  <1>13. CASE \/ Acquire(c) \/ Begin(c) \/ EvidenceDone(c) \/ SignAndPropose(c)
              \/ \E a \in Actions : SelectAction(c, a)
    BY <1>3, <1>13 DEF Acquire, Begin, EvidenceDone, SignAndPropose, SelectAction
  <1>14. CASE \/ Refuse(c) \/ Replay(c) \/ PortRaises(c) \/ RecordedRejection(c)
              \/ RecordedDelivery(c) \/ FailClosed(c) \/ LeaveUnrecorded(c)
              \/ ReportUnproved(c) \/ CancelInside(c)
    BY <1>2, <1>14
       DEF Refuse, Replay, PortRaises, RecordedRejection, RecordedDelivery, FailClosed,
           LeaveUnrecorded, ReportUnproved, CancelInside, Raise
  <1>15. ASSUME NEW b \in Batches, Submit(c, b) \/ CancelWaiting(c)
         PROVE  FALSE
    BY <1>3, <1>15 DEF Submit, CancelWaiting
  <1>16. ASSUME pc'[c] = pc[c], key'[c] = key[c], frame'[c] = frame[c]
         PROVE  \/ SinkAcknowledges(c)
                \/ \E receipt \in {"none", "mismatched"} : SinkUncertain(c, receipt)
                \/ /\ IsSettling(c) /\ frame'[c].type = frame[c].type
                   /\ UNCHANGED cache /\ key'[c] = key[c]
    <2>1. IsSettling(c) /\ lock = c
      BY <1>0, <1>16 DEF IsSettling, LockHeld, Stages
    <2>2. UNCHANGED cache
      <3> SUFFICES ASSUME ~UNCHANGED cache PROVE FALSE
        OBVIOUS
      <3>1. PICK e \in Callers :
                \/ SinkAcknowledges(e)
                \/ \E receipt \in {"none", "mismatched"} : SinkUncertain(e, receipt)
                \/ RecordedRejection(e) \/ RecordedDelivery(e) \/ ReportUnproved(e)
        BY CacheMoves
      <3>2. pc[e] \in {"propose", "record"}
        BY <3>1 DEF SinkAcknowledges, SinkUncertain, RecordedRejection, RecordedDelivery,
           ReportUnproved, RecordDone, RecorderRaises
      <3>3. e = c
        BY <1>0, <2>1, <3>2 DEF LockHeld, Stages
      <3>4. pc[c] = "record"
        BY <2>1 DEF IsSettling
      <3> QED
        BY <1>2, <3>1, <3>3, <3>4
           DEF SinkAcknowledges, SinkUncertain, RecordedRejection, RecordedDelivery,
               ReportUnproved
    <2> QED
      BY <1>16, <2>1, <2>2
  <1>17. ASSUME NEW d \in Callers \ {c}, NEW b \in Batches,
                Proceed(d) \/ Submit(d, b) \/ CancelInside(d) \/ CancelWaiting(d)
         PROVE  pc'[c] = pc[c] /\ key'[c] = key[c] /\ frame'[c] = frame[c]
    BY <1>17, CallsAlone
  <1>18. ASSUME NEW b \in Batches, NEW k \in 1 .. LastOffer(b), Land(b, k)
         PROVE  UNCHANGED <<pc, key, frame>>
    BY <1>18 DEF Land
  <1>19. ASSUME Tick \/ Rest \/ UNCHANGED vars
         PROVE  UNCHANGED <<pc, key, frame>>
    BY <1>19 DEF Tick, Rest, vars
  <1>20. CASE Proceed(c)
    BY <1>6, <1>7, <1>8, <1>9, <1>10, <1>11, <1>12, <1>13, <1>14, <1>20 DEF Proceed
  <1> QED
    BY <1>14, <1>15, <1>16, <1>17, <1>18, <1>19, <1>20, BatchesAssumption DEF Next

LEMMA SettlesStep ==
    ASSUME IInv, SettlesAsRecorded, [Next]_vars
    PROVE  SettlesAsRecorded'
  <1> SUFFICES ASSUME NEW c \in Callers, IsSettling(c)'
               PROVE  cache'[key'[c]].status = "proposed" <=> frame'[c].type = "decision.proposed"
    BY DEF SettlesAsRecorded
  <1>0. TypeOK
    BY DEF IInv
  <1>1. CASE SinkAcknowledges(c)
    BY <1>0, <1>1 DEF SinkAcknowledges, Put, Settled, SetFrame, TypeOK, Frames
  <1>2. ASSUME NEW receipt \in {"none", "mismatched"}, SinkUncertain(c, receipt)
        PROVE  cache'[key'[c]].status = "proposed" <=> frame'[c].type = "decision.proposed"
    BY <1>0, <1>2 DEF SinkUncertain, Put, Settled, SetFrame, TypeOK, Frames
  <1>3. CASE /\ IsSettling(c) /\ frame'[c].type = frame[c].type
             /\ UNCHANGED cache /\ key'[c] = key[c]
    BY <1>3 DEF SettlesAsRecorded
  <1> QED
    BY <1>1, <1>2, <1>3, SettlingSteps

(* Only the record itself ends the recording of a delivery. *)
LEMMA ProvingSteps ==
    ASSUME IInv, ~Cancellable, [Next]_vars, NEW c \in Callers, NEW b, IsProving(c, b)
    PROVE  IsProving(c, b)' \/ RecordedDelivery(c) \/ ReportUnproved(c)
  <1>0. TypeOK /\ LockHeld
    BY DEF IInv
  <1>1. pc[c] = "record" /\ frame[c].type = "decision.proposed"
    BY DEF IsProving
  <1>2. ASSUME pc'[c] = pc[c], key'[c] = key[c], frame'[c].type = frame[c].type
        PROVE  IsProving(c, b)'
    BY <1>2 DEF IsProving
  <1>3. CASE Store(c)
    BY <1>0, <1>2, <1>3 DEF Store, SetFrame, TypeOK, Frames
  <1>4. CASE Proceed(c) /\ ~Store(c)
    BY <1>1, <1>4
       DEF Proceed, Acquire, Refuse, Replay, Begin, AcceptEvidence, RejectEvidence,
           EvidenceDone, EvaluatePolicy, PoliciesDone, Classify, ClassifiersDone,
           RecordConstraint, InterpretObjective, NoPlan, SelectAction, Challenge,
           ChecksDone, PortRaises, SignAndPropose, SinkAcknowledges, SinkUncertain,
           Recorded, RecordedEvidenceRejection, RecordedRejection, FailClosed,
           LeaveUnrecorded, Resume, EventTypes
  <1>5. ASSUME NEW x \in Batches, Submit(c, x) \/ CancelInside(c) \/ CancelWaiting(c)
        PROVE  FALSE
    BY <1>1, <1>5 DEF Submit, CancelInside, CancelWaiting
  <1>6. ASSUME NEW d \in Callers \ {c}, NEW x \in Batches,
               Proceed(d) \/ Submit(d, x) \/ CancelInside(d) \/ CancelWaiting(d)
        PROVE  pc'[c] = pc[c] /\ key'[c] = key[c] /\ frame'[c] = frame[c]
    BY <1>6, CallsAlone
  <1>7. ASSUME NEW x \in Batches, NEW k \in 1 .. LastOffer(x), Land(x, k)
        PROVE  UNCHANGED <<pc, key, frame>>
    BY <1>7 DEF Land
  <1>8. ASSUME Tick \/ Rest \/ UNCHANGED vars
        PROVE  UNCHANGED <<pc, key, frame>>
    BY <1>8 DEF Tick, Rest, vars
  <1> QED
    BY <1>2, <1>3, <1>4, <1>5, <1>6, <1>7, <1>8, BatchesAssumption DEF Next

LEMMA CachedProvedStep ==
    ASSUME IInv, RecordInv, SettlesAsRecorded, CachedIsProved, ~Cancellable, [Next]_vars
    PROVE  CachedIsProved'
  <1> SUFFICES ASSUME NEW b \in Batches, cache'[b].status = "proposed", ~cache'[b].unproved
               PROVE  Has(b, "decision.proposed", 0)' \/ \E c \in Callers : IsProving(c, b)'
    BY DEF CachedIsProved
  <1>0. TypeOK /\ Grows
    BY JournalsGrow DEF IInv
  <1>1. ASSUME Has(b, "decision.proposed", 0) PROVE Has(b, "decision.proposed", 0)'
    BY <1>0, <1>1, HasStays
  <1>2. ASSUME NEW c \in Callers, RecordedDelivery(c), frame[c].type = "decision.proposed",
               key[c] = b
        PROVE  Has(b, "decision.proposed", 0)'
    <2>1. RecordDone(c) /\ frame[c].i = 0
      BY <1>2 DEF RecordedDelivery, RecordDone, RecordInv, CallInv, LastIsWhole
    <2>2. Has(key[c], frame[c].type, frame[c].i)
      BY <1>0, <2>1, DoneIsStored DEF RecordInv
    <2> QED
      BY <1>1, <1>2, <2>1, <2>2
  <1>3. ASSUME NEW c \in Callers, ReportUnproved(c) PROVE key[c] # b
    <2> SUFFICES ASSUME key[c] = b PROVE FALSE
      OBVIOUS
    <2>1. IsSettling(c)
      BY <1>3 DEF ReportUnproved, RecorderRaises, IsSettling
    <2>2. cache[b] \in Results
      BY <2>1, NoResultFacts DEF IInv, SettledWhileRecording, TypeOK
    <2>3. WithFailure(cache[b]).unproved
      BY <2>2 DEF WithFailure, Results
    <2>4. cache'[b] = WithFailure(cache[b])
      BY <1>0, <1>3 DEF ReportUnproved, Put, TypeOK
    <2> QED
      BY <2>3, <2>4
  <1>4. CASE cache'[b] = cache[b]
    <2>1. Has(b, "decision.proposed", 0) \/ \E c \in Callers : IsProving(c, b)
      BY <1>4 DEF CachedIsProved
    <2>2. ASSUME NEW c \in Callers, IsProving(c, b)
          PROVE  Has(b, "decision.proposed", 0)' \/ IsProving(c, b)'
      BY <1>2, <1>3, <2>2, ProvingSteps DEF IsProving
    <2> QED
      BY <1>1, <2>1, <2>2
  <1>5. CASE cache'[b] # cache[b]
    <2>1. PICK c \in Callers :
              \/ SinkAcknowledges(c)
              \/ \E receipt \in {"none", "mismatched"} : SinkUncertain(c, receipt)
              \/ RecordedRejection(c) \/ RecordedDelivery(c) \/ ReportUnproved(c)
      BY <1>5, CacheMoves
    <2>2. ASSUME NEW r, Put(key[c], r)
          PROVE  key[c] = b /\ r.status = "proposed" /\ cache'[b] = r
      BY <1>0, <1>5, <2>2 DEF Put, TypeOK
    <2>3. CASE SinkAcknowledges(c)
      <3>1. key[c] = b
        BY <2>2, <2>3 DEF SinkAcknowledges
      <3>2. /\ pc'[c] = "record" /\ frame'[c].type = "decision.proposed" /\ key'[c] = key[c]
        BY <1>0, <2>3 DEF SinkAcknowledges, Goto, SetFrame, TypeOK, Frames
      <3> QED
        BY <3>1, <3>2 DEF IsProving
    <2>4. ASSUME NEW receipt \in {"none", "mismatched"}, SinkUncertain(c, receipt)
          PROVE  FALSE
      BY <2>2, <2>4 DEF SinkUncertain, Settled
    <2>5. CASE RecordedRejection(c)
      <3> DEFINE r == [NoResult EXCEPT !.status = frame[c].verdict,
                                       !.receipts = ReceiptsOf(c)]
      <3>1. r.status = frame[c].verdict
        BY DEF NoResult
      <3>2. frame[c].verdict \in {"rejected", "no_candidate"}
        BY <1>0, FrameFields DEF TypeOK
      <3>3. Put(key[c], r)
        BY <2>5 DEF RecordedRejection
      <3> QED
        BY <2>2, <3>1, <3>2, <3>3
    <2>6. CASE RecordedDelivery(c)
      <3> DEFINE r == [cache[key[c]] EXCEPT !.receipts = ReceiptsOf(c)]
      <3>1. Put(key[c], r)
        BY <2>6 DEF RecordedDelivery
      <3>2. IsSettling(c)
        BY <2>6 DEF RecordedDelivery, RecordDone, IsSettling
      <3>3. cache[key[c]] \in Results
        BY <3>2, NoResultFacts DEF IInv, SettledWhileRecording, TypeOK
      <3>4. r.status = cache[key[c]].status
        BY <3>3 DEF Results
      <3>5. cache[key[c]].status = "proposed" /\ key[c] = b
        BY <2>2, <3>1, <3>4
      <3> QED
        BY <1>2, <2>6, <3>2, <3>5 DEF SettlesAsRecorded
    <2>7. CASE ReportUnproved(c)
      BY <1>3, <2>2, <2>7 DEF ReportUnproved
    <2> QED
      BY <2>1, <2>3, <2>4, <2>5, <2>6, <2>7
  <1> QED
    BY <1>4, <1>5

(* Without cancellation, a caller told of a delivery without a reservation  *)
(* finds its final entry in every recorder (kernel.py:541-568), whether its *)
(* own call recorded it or an earlier one it replays.                       *)
THEOREM DeliveriesProvedOrReported ==
    ASSUME ~Cancellable
    PROVE  Spec => []DeliveryProvedOrReported
  <1>1. Init => DeliveryInv
    <2>1. Init => SettlesAsRecorded /\ CachedIsProved /\ DeliveryProvedOrReported
      BY DEF Init, SettlesAsRecorded, CachedIsProved, DeliveryProvedOrReported, IsSettling,
         NoResult
    <2> QED
      BY <2>1 DEF DeliveryInv
  <1>2. IInv /\ IInv' /\ RecordInv /\ DeliveryInv /\ [Next]_vars => DeliveryInv'
    <2> SUFFICES ASSUME IInv, IInv', RecordInv, DeliveryInv, [Next]_vars
                 PROVE  DeliveryInv'
      OBVIOUS
    <2>1. SettlesAsRecorded' /\ CachedIsProved'
      BY SettlesStep, CachedProvedStep DEF DeliveryInv
    <2>2. ASSUME NEW d \in Callers, answer'[d].result.status = "proposed",
                 ~answer'[d].result.unproved
          PROVE  \A r \in 1 .. Recorders :
                     [key |-> key'[d], type |-> "decision.proposed", subject |-> 0]
                         \in journal'[r]
      <3>1. key[d] \in Batches
        BY DEF IInv, TypeOK
      <3>2. PICK b \in Batches : b = key[d]
        BY <3>1
      <3>3. CASE answer'[d] = answer[d] /\ key'[d] = key[d]
        <4>1. Has(b, "decision.proposed", 0)
          BY <2>2, <3>2, <3>3 DEF DeliveryInv, DeliveryProvedOrReported, Has
        <4>2. Has(b, "decision.proposed", 0)'
          BY <4>1, HasStays, JournalsGrow DEF IInv
        <4> QED
          BY <3>2, <3>3, <4>2 DEF Has
      <3>4. CASE answer'[d].result = NoResult
        BY <2>2, <3>4 DEF NoResult
      <3>5. CASE /\ answer'[d].result = cache'[key[d]]
                 /\ key'[d] = key[d] /\ lock' = NoCaller
        <4>1. \A c \in Callers : ~IsProving(c, b)'
          BY <3>5, CallersAssumption DEF IInv, LockHeld, IsProving, Stages
        <4>2. Has(b, "decision.proposed", 0)'
          BY <2>1, <2>2, <3>2, <3>5, <4>1 DEF CachedIsProved
        <4> QED
          BY <3>2, <3>5, <4>2 DEF Has
      <3> QED
        BY <3>3, <3>4, <3>5, AnswerMoves
    <2>3. DeliveryProvedOrReported'
      BY <2>2 DEF DeliveryProvedOrReported
    <2> QED
      BY <2>1, <2>3 DEF DeliveryInv
  <1>3. DeliveryInv => DeliveryProvedOrReported
    BY DEF DeliveryInv
  <1> QED
    BY Invariance, RecordInvariance, <1>1, <1>2, <1>3, PTL DEF Spec

=============================================================================
