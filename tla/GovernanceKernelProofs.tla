------------------------ MODULE GovernanceKernelProofs ------------------------
(***************************************************************************)
(* What the kernel guarantees for every number of callers, recorders,      *)
(* policies and classifiers, every set of batches and any evidence.  TypeOK *)
(* and OffersAccounted are not inductive by themselves: that an offer ends  *)
(* in exactly one verdict rests on the lock holder being the only call      *)
(* inside (LockHeld), on it having found its key undecided                  *)
(* (OpenWhileRunning), and on the final record only adding receipts to the  *)
(* verdict it left in the cache (SettledWhileRecording).                    *)
(*                                                                          *)
(* The actions of Next fall into nine kinds (StepKind), by what they do to  *)
(* the lock, the cache and the offers; once each action is shown to be of a *)
(* kind, the invariants need the kinds only.                                *)
(***************************************************************************)
EXTENDS GovernanceKernel, TLAPS

USE CallersAssumption, BatchesAssumption, ActionsAssumption, SizesAssumption

(* The delivery is in the cache and its last event is being recorded. *)
IsSettling(c) ==
    pc[c] = "record" /\ frame[c].type \in {"decision.proposed", "decision.delivery_unknown"}

(* The call inside the run lock, and no other, is in the body of a cycle. *)
LockHeld == \A c \in Callers : pc[c] \in Stages <=> lock = c

(* A cycle past the replay lookup has an undecided key until it settles it. *)
OpenWhileRunning ==
    \A c \in Callers :
        pc[c] \in Stages \ {"start"} /\ ~IsSettling(c) => ~IsCached(key[c])

(* While the last event is recorded the cache holds the delivery, with none *)
(* but receipts the call itself holds.                                      *)
SettledWhileRecording ==
    \A c \in Callers : IsSettling(c) =>
        /\ IsDelivery(cache[key[c]])
        /\ cache[key[c]].receipts \subseteq frame[c].receipts

(* The inductive invariant. *)
IInv == TypeOK /\ LockHeld /\ OpenWhileRunning /\ SettledWhileRecording
            /\ OffersAccounted

LEMMA NoResultFacts ==
    /\ NoResult \notin Results
    /\ ~IsDelivery(NoResult)
  BY DEF NoResult, Results, Statuses, IsDelivery

LEMMA FreshFrameType == \A t \in Nat : FreshFrame(t) \in Frames
  BY DEF FreshFrame, Frames, EventTypes

LEMMA FrameFields ==
    ASSUME NEW f \in Frames
    PROVE  /\ f.now \in Nat /\ f.i \in Nat /\ f.constraints \in Nat
           /\ f.veto \in BOOLEAN /\ f.action \in Actions \union {NoAction}
           /\ f.type \in EventTypes /\ f.recorder \in Nat
           /\ f.receipts \in SUBSET Receipts
           /\ f.verdict \in {"rejected", "no_candidate"}
  BY DEF Frames

LEMMA FrameUpdates ==
    ASSUME NEW f \in Frames
    PROVE  /\ \A n \in Nat : /\ [f EXCEPT !.i = n] \in Frames
                             /\ [f EXCEPT !.recorder = n] \in Frames
                             /\ [f EXCEPT !.constraints = n] \in Frames
           /\ \A v \in BOOLEAN : [f EXCEPT !.veto = v] \in Frames
           /\ \A a \in Actions : [f EXCEPT !.action = a] \in Frames
           /\ \A t \in EventTypes : [f EXCEPT !.type = t] \in Frames
           /\ \A r \in SUBSET Receipts : [f EXCEPT !.receipts = r] \in Frames
           /\ \A v \in {"rejected", "no_candidate"} :
                  [f EXCEPT !.verdict = v] \in Frames
  <1>1. \A n \in Nat : [f EXCEPT !.i = n] \in Frames
    BY DEF Frames
  <1>2. \A n \in Nat : [f EXCEPT !.recorder = n] \in Frames
    BY DEF Frames
  <1>3. \A n \in Nat : [f EXCEPT !.constraints = n] \in Frames
    BY DEF Frames
  <1>4. \A v \in BOOLEAN : [f EXCEPT !.veto = v] \in Frames
    BY DEF Frames
  <1>5. \A a \in Actions : [f EXCEPT !.action = a] \in Frames
    BY DEF Frames
  <1>6. \A t \in EventTypes : [f EXCEPT !.type = t] \in Frames
    BY DEF Frames
  <1>7. \A r \in SUBSET Receipts : [f EXCEPT !.receipts = r] \in Frames
    BY DEF Frames
  <1>8. \A v \in {"rejected", "no_candidate"} : [f EXCEPT !.verdict = v] \in Frames
    BY DEF Frames
  <1>. QED
    BY <1>1, <1>2, <1>3, <1>4, <1>5, <1>6, <1>7, <1>8

LEMMA EvidenceTypes ==
    \A b \in Batches : \A i \in 1 .. Len(Evidence[b]) :
        /\ Evidence[b][i].observed \in Nat
        /\ Evidence[b][i].expires \in Nat
        /\ Evidence[b][i].observed < Evidence[b][i].expires
  <1> SUFFICES ASSUME NEW b \in Batches, NEW i \in 1 .. Len(Evidence[b])
               PROVE  /\ Evidence[b][i].observed \in Nat
                      /\ Evidence[b][i].expires \in Nat
                      /\ Evidence[b][i].observed < Evidence[b][i].expires
    OBVIOUS
  <1>1. Evidence[b] \in Seq(Item)
    BY EvidenceAssumption
  <1>2. Evidence[b][i] \in Item
    BY <1>1
  <1>. QED
    BY <1>2, EvidenceAssumption DEF Item

LEMMA EntryTypes ==
    ASSUME TypeOK, NEW c \in Callers
    PROVE  EntryOf(c) \in Entries /\ ReceiptsOf(c) \in SUBSET Receipts
  <1>1. EntryOf(c) \in Entries
    BY FrameFields DEF EntryOf, Entries, TypeOK
  <1>2. frame[c].receipts \in SUBSET Receipts
    BY FrameFields DEF TypeOK
  <1>. QED
    BY <1>1, <1>2 DEF ReceiptsOf, Receipts

LEMMA JournalGrows ==
    ASSUME TypeOK, NEW r, NEW e \in Entries
    PROVE  [journal EXCEPT ![r] = @ \union {e}] \in [1 .. Recorders -> SUBSET Entries]
  BY DEF TypeOK

LEMMA JournalType ==
    ASSUME TypeOK, NEW c \in Callers, RecorderRaises(c)
    PROVE  journal' \in [1 .. Recorders -> SUBSET Entries]
  <1>1. journal \in [1 .. Recorders -> SUBSET Entries]
    BY DEF TypeOK
  <1>2. CASE UNCHANGED journal
    BY <1>1, <1>2
  <1>3. CASE journal' = [journal EXCEPT ![frame[c].recorder] = @ \union {EntryOf(c)}]
    BY <1>3, EntryTypes, JournalGrows
  <1>. QED
    BY <1>2, <1>3 DEF RecorderRaises

(* The steps that move a call on or start a record. *)
ControlType ==
    /\ pc \in [Callers -> Stages \union {"idle", "queued", "returned"}]
    /\ frame \in [Callers -> Frames]

LEMMA GotoType ==
    ASSUME TypeOK, NEW c \in Callers, NEW s \in Stages, Goto(c, s),
           NEW f \in Frames, SetFrame(c, f)
    PROVE  ControlType'
  BY DEF TypeOK, ControlType, Goto, SetFrame

LEMMA RecordType ==
    ASSUME TypeOK, NEW c \in Callers, NEW t \in EventTypes, StartRecord(c, t)
    PROVE  ControlType'
  <1>1. [frame[c] EXCEPT !.type = t, !.recorder = 1] \in Frames
    BY FrameUpdates DEF TypeOK
  <1>. QED
    BY <1>1, GotoType DEF StartRecord, Stages

LEMMA RejectType ==
    ASSUME TypeOK, NEW c \in Callers, NEW v \in {"rejected", "no_candidate"},
           Reject(c, v)
    PROVE  ControlType'
  <1>1. [frame[c] EXCEPT !.type = "decision.rejected", !.i = 0,
                         !.recorder = 1, !.verdict = v] \in Frames
    BY FrameUpdates DEF TypeOK, EventTypes
  <1>. QED
    BY <1>1, GotoType DEF Reject, Stages

LEMMA InitInv == Init => IInv
  <1> SUFFICES ASSUME Init PROVE IInv
    OBVIOUS
  <1>1. TypeOK
    BY FreshFrameType DEF Init, TypeOK, Stages, Answers, Receipts
  <1>2. LockHeld /\ OpenWhileRunning /\ SettledWhileRecording
    BY DEF Init, LockHeld, OpenWhileRunning, SettledWhileRecording, IsSettling,
           Stages
  <1>3. OffersAccounted
    BY NoResultFacts DEF Init, OffersAccounted, IsOffering, LastOffer
  <1>. QED
    BY <1>1, <1>2, <1>3 DEF IInv

LEMMA NoPackageType == NoPackage \in Packages
  BY DEF NoPackage, Packages

(* The package that propose was called with. *)
LEMMA SettledType ==
    ASSUME TypeOK, OffersAccounted, NEW c \in Callers, pc[c] = "propose",
           NEW s \in {"proposed", "delivery_unknown"},
           NEW r \in {"none", "matching", "mismatched"}
    PROVE  Settled(c, s, r) \in Results
  <1>1. key[c] \in Batches /\ IsOffering(key[c])
    BY DEF TypeOK, IsOffering
  <1>2. LastOffer(key[c]) >= 1
    <2>1. LastOffer(key[c]) =
              abandoned[key[c]] + (IF IsDelivery(cache[key[c]]) THEN 1 ELSE 0) + 1
      BY <1>1 DEF OffersAccounted
    <2>2. abandoned[key[c]] \in Nat
      BY <1>1 DEF TypeOK
    <2>. QED
      BY <2>1, <2>2
  <1>3. offered[key[c]][LastOffer(key[c])] \in Packages
    BY <1>1, <1>2 DEF TypeOK, LastOffer
  <1>4. frame[c].receipts \in SUBSET Receipts
    BY FrameFields DEF TypeOK
  <1>. QED
    BY <1>3, <1>4 DEF Settled, Results, Statuses

LEMMA PackageType ==
    ASSUME TypeOK, NEW c \in Callers, NEW e \in Expiries(key[c], frame[c].now)
    PROVE  PackageOf(c, e) \in Packages
  <1>1. key[c] \in Batches /\ frame[c] \in Frames
    BY DEF TypeOK
  <1>2. \A i \in 1 .. Len(Evidence[key[c]]) : Evidence[key[c]][i].expires \in Nat
    BY <1>1, EvidenceTypes
  <1>3. e \in Nat
    <2>1. frame[c].now \in Nat
      BY <1>1, FrameFields
    <2>2. CASE e = frame[c].now + Ttl
      BY <2>1, <2>2, SizesAssumption
    <2>3. CASE e \in {Evidence[key[c]][i].expires : i \in 1 .. Len(Evidence[key[c]])}
      BY <1>2, <2>3
    <2>. QED
      BY <2>2, <2>3 DEF Expiries
  <1>. QED
    BY <1>1, <1>3, FrameFields DEF Packages, PackageOf

(* A call that moves on without touching what is shared. *)
IsLocal == UNCHANGED <<key, kernelVars, worldVars, hostVars>>

LEMMA LocalType == TypeOK /\ ControlType' /\ IsLocal => TypeOK'
  BY DEF TypeOK, ControlType, IsLocal, kernelVars, worldVars, hostVars

LEMMA TypeStep == IInv /\ [Next]_vars => TypeOK'
  <1> SUFFICES ASSUME IInv, [Next]_vars PROVE TypeOK'
    OBVIOUS
  <1>0. TypeOK
    BY DEF IInv
  <1>1. ASSUME NEW c \in Callers,
              NEW b \in Batches, Submit(c, b) PROVE TypeOK'
    <2>1. queue' \in Seq(Callers)
      BY <1>0, <1>1 DEF TypeOK, Submit
    <2>2. calls' \in [Callers -> Nat]
      <3>1. calls \in [Callers -> Nat] /\ calls' = [calls EXCEPT ![c] = @ + 1]
        BY <1>0, <1>1 DEF TypeOK, Submit
      <3>. QED
        BY <3>1
    <2>3. key' \in [Callers -> Batches]
      BY <1>0, <1>1 DEF TypeOK, Submit
    <2>4. pc' \in [Callers -> Stages \union {"idle", "queued", "returned"}]
      BY <1>0, <1>1 DEF TypeOK, Submit, Goto
    <2>5. answer' \in [Callers -> Answers]
      BY <1>0, <1>1 DEF TypeOK, Submit, Answers
    <2>. QED
      BY <1>0, <1>1, <2>1, <2>2, <2>3, <2>4, <2>5 DEF TypeOK, Submit, worldVars
  <1>2. ASSUME NEW c \in Callers, Acquire(c) PROVE TypeOK'
    <2>1. queue' \in Seq(Callers)
      BY <1>0, <1>2 DEF TypeOK, Acquire
    <2>2. pc' \in [Callers -> Stages \union {"idle", "queued", "returned"}]
      BY <1>0, <1>2 DEF TypeOK, Acquire, Goto, Stages
    <2>. QED
      BY <1>0, <1>2, <2>1, <2>2 DEF TypeOK, Acquire, worldVars, hostVars
  <1>3. ASSUME NEW c \in Callers, Refuse(c) PROVE TypeOK'
    BY <1>0, <1>3, FreshFrameType DEF TypeOK, kernelVars, worldVars, hostVars, Goto, SetFrame,
           Refuse, Raise, Leave, Answers
  <1>4. ASSUME NEW c \in Callers, Replay(c) PROVE TypeOK'
    BY <1>0, <1>4, FreshFrameType DEF TypeOK, kernelVars, worldVars, hostVars, Goto, SetFrame,
           Replay, Leave, Answers
  <1>5. ASSUME NEW c \in Callers, Begin(c) PROVE TypeOK'
    BY <1>0, <1>5, FreshFrameType DEF TypeOK, kernelVars, worldVars, hostVars, Goto, SetFrame,
           Begin, Stages
  <1>6. ASSUME NEW c \in Callers, AcceptEvidence(c) PROVE TypeOK'
    BY <1>0, <1>6, RecordType, LocalType DEF AcceptEvidence, IsLocal, EventTypes
  <1>7. ASSUME NEW c \in Callers, RejectEvidence(c) PROVE TypeOK'
    BY <1>0, <1>7, RecordType, LocalType DEF RejectEvidence, IsLocal, EventTypes
  <1>8. ASSUME NEW c \in Callers, EvidenceDone(c) PROVE TypeOK'
    <2>1. [frame[c] EXCEPT !.i = 1] \in Frames
      BY <1>0, FrameFields, FrameUpdates, SizesAssumption DEF TypeOK, EventTypes
    <2>. QED
      BY <1>0, <1>8, <2>1, GotoType, LocalType DEF EvidenceDone, IsLocal, Stages
  <1>9. ASSUME NEW c \in Callers,
              NEW allowed \in BOOLEAN, EvaluatePolicy(c, allowed) PROVE TypeOK'
    <2>1. [frame[c] EXCEPT !.type = "policy.evaluated", !.recorder = 1,
                          !.veto = frame[c].veto \/ ~allowed] \in Frames
      BY <1>0, FrameFields, FrameUpdates, SizesAssumption DEF TypeOK, EventTypes
    <2>. QED
      BY <1>0, <1>9, <2>1, GotoType, LocalType DEF EvaluatePolicy, IsLocal, Stages
  <1>10. ASSUME NEW c \in Callers, PoliciesDone(c) PROVE TypeOK'
    <2>1. CASE Reject(c, "rejected")
      BY <1>0, <1>10, <2>1, RejectType, LocalType DEF PoliciesDone, IsLocal
    <2>2. CASE ~Reject(c, "rejected")
      <3>1. [frame[c] EXCEPT !.i = 1] \in Frames
        BY <1>0, FrameUpdates DEF TypeOK
      <3>. QED
        BY <1>0, <1>10, <2>2, <3>1, GotoType, LocalType DEF PoliciesDone, IsLocal, Stages
    <2>. QED
      BY <2>1, <2>2
  <1>11. ASSUME NEW c \in Callers,
               NEW produced \in 0 .. MaxConstraints, Classify(c, produced) PROVE TypeOK'
    <2>1. [frame[c] EXCEPT !.i = frame[c].i + 1,
                          !.constraints = frame[c].constraints + produced] \in Frames
      <3>1. frame[c] \in Frames
        BY <1>0 DEF TypeOK
      <3>2. frame[c].i \in Nat /\ frame[c].constraints \in Nat
        BY <3>1, FrameFields
      <3>3. produced \in Nat
        BY SizesAssumption
      <3>4. frame[c].i + 1 \in Nat /\ frame[c].constraints + produced \in Nat
        BY <3>2, <3>3
      <3>. QED
        BY <3>1, <3>4, FrameUpdates
    <2>. QED
      BY <1>0, <1>11, <2>1, LocalType
         DEF Classify, IsLocal, TypeOK, ControlType, SetFrame
  <1>12. ASSUME NEW c \in Callers, ClassifiersDone(c) PROVE TypeOK'
    <2>1. CASE Reject(c, "no_candidate")
      BY <1>0, <1>12, <2>1, RejectType, LocalType DEF ClassifiersDone, IsLocal
    <2>2. CASE ~Reject(c, "no_candidate")
      <3>1. [frame[c] EXCEPT !.i = 1] \in Frames
        BY <1>0, FrameUpdates DEF TypeOK
      <3>. QED
        BY <1>0, <1>12, <2>2, <3>1, GotoType, LocalType DEF ClassifiersDone, IsLocal, Stages
    <2>. QED
      BY <2>1, <2>2
  <1>13. ASSUME NEW c \in Callers, RecordConstraint(c) PROVE TypeOK'
    <2>1. CASE StartRecord(c, "constraint.classified")
      BY <1>0, <1>13, <2>1, RecordType, LocalType DEF RecordConstraint, IsLocal, EventTypes
    <2>2. CASE ~StartRecord(c, "constraint.classified")
      <3>1. [frame[c] EXCEPT !.i = 1] \in Frames
        BY <1>0, FrameUpdates DEF TypeOK
      <3>. QED
        BY <1>0, <1>13, <2>2, <3>1, GotoType, LocalType
           DEF RecordConstraint, IsLocal, Stages
    <2>. QED
      BY <2>1, <2>2
  <1>14. ASSUME NEW c \in Callers, InterpretObjective(c) PROVE TypeOK'
    BY <1>0, <1>14, RecordType, LocalType DEF InterpretObjective, IsLocal, EventTypes
  <1>15. ASSUME NEW c \in Callers, NoPlan(c) PROVE TypeOK'
    BY <1>0, <1>15, RejectType, LocalType DEF NoPlan, IsLocal
  <1>16. ASSUME NEW c \in Callers,
               NEW a \in Actions, SelectAction(c, a) PROVE TypeOK'
    <2>1. [frame[c] EXCEPT !.action = a, !.i = 1] \in Frames
      BY <1>0, FrameFields, FrameUpdates, SizesAssumption DEF TypeOK, EventTypes
    <2>. QED
      BY <1>0, <1>16, <2>1, GotoType, LocalType DEF SelectAction, IsLocal, Stages
  <1>17. ASSUME NEW c \in Callers,
               NEW survives \in BOOLEAN, Challenge(c, survives) PROVE TypeOK'
    <2>1. [frame[c] EXCEPT !.type = "falsification.completed", !.recorder = 1,
                          !.veto = frame[c].veto \/ ~survives] \in Frames
      BY <1>0, FrameFields, FrameUpdates, SizesAssumption DEF TypeOK, EventTypes
    <2>. QED
      BY <1>0, <1>17, <2>1, GotoType, LocalType DEF Challenge, IsLocal, Stages
  <1>18. ASSUME NEW c \in Callers, ChecksDone(c) PROVE TypeOK'
    <2>1. CASE Reject(c, "rejected")
      BY <1>0, <1>18, <2>1, RejectType, LocalType DEF ChecksDone, IsLocal
    <2>2. CASE ~Reject(c, "rejected")
      BY <1>0, <1>18, <2>2, LocalType
         DEF ChecksDone, IsLocal, TypeOK, ControlType, Goto, Stages
    <2>. QED
      BY <2>1, <2>2
  <1>19. ASSUME NEW c \in Callers, PortRaises(c) PROVE TypeOK'
    BY <1>0, <1>19, FreshFrameType DEF TypeOK, kernelVars, worldVars, hostVars, Goto, SetFrame,
           PortRaises, Raise, Leave, Answers
  <1>20. ASSUME NEW c \in Callers, SignAndPropose(c) PROVE TypeOK'
    <2>1. PICK e \in Expiries(key[c], frame[c].now) :
              offered' = [offered EXCEPT ![key[c]] = Append(@, PackageOf(c, e))]
      BY <1>20 DEF SignAndPropose
    <2>5. PackageOf(c, e) \in Packages
      BY <1>0, PackageType
    <2>2. key[c] \in Batches /\ offered \in [Batches -> Seq(Packages)]
      BY <1>0 DEF TypeOK
    <2>3. offered' \in [Batches -> Seq(Packages)]
      BY <2>1, <2>2, <2>5
    <2>4. pc' \in [Callers -> Stages \union {"idle", "queued", "returned"}]
      BY <1>0, <1>20 DEF SignAndPropose, TypeOK, Goto, Stages
    <2>. QED
      BY <1>0, <1>20, <2>3, <2>4 DEF SignAndPropose, TypeOK, kernelVars, hostVars
  <1>21. ASSUME NEW c \in Callers, SinkAcknowledges(c) PROVE TypeOK'
    <2>1. Settled(c, "proposed", "matching") \in Results
      BY <1>0, <1>21, SettledType DEF SinkAcknowledges, IInv, Statuses
    <2>2. [frame[c] EXCEPT !.type = "decision.proposed", !.i = 0,
                          !.recorder = 1] \in Frames
      BY <1>0, FrameUpdates DEF TypeOK, EventTypes
    <2>. QED
      BY <1>0, <1>21, <2>1, <2>2, GotoType
         DEF SinkAcknowledges, TypeOK, ControlType, worldVars, hostVars, Put, Stages
  <1>22. ASSUME NEW c \in Callers,
               NEW receipt \in {"none", "mismatched"}, SinkUncertain(c, receipt) PROVE TypeOK'
    <2>1. Settled(c, "delivery_unknown", receipt) \in Results
      BY <1>0, <1>22, SettledType DEF SinkUncertain, IInv, Statuses
    <2>2. [frame[c] EXCEPT !.type = "decision.delivery_unknown", !.i = 0,
                          !.recorder = 1] \in Frames
      BY <1>0, FrameUpdates DEF TypeOK, EventTypes
    <2>. QED
      BY <1>0, <1>22, <2>1, <2>2, GotoType
         DEF SinkUncertain, TypeOK, ControlType, worldVars, hostVars, Put, Stages
  <1>23. ASSUME NEW c \in Callers, Store(c) PROVE TypeOK'
    <2>1. frame[c].recorder + 1 \in Nat
      BY <1>0, FrameFields DEF TypeOK
    <2>2. [frame[c] EXCEPT !.recorder = frame[c].recorder + 1] \in Frames
      BY <1>0, <2>1, FrameUpdates DEF TypeOK
    <2>3. journal' \in [1 .. Recorders -> SUBSET Entries]
      BY <1>0, <1>23, EntryTypes, JournalGrows DEF Store
    <2>. QED
      BY <1>0, <1>23, <2>2, <2>3
         DEF Store, TypeOK, kernelVars, hostVars, SetFrame
  <1>24. ASSUME NEW c \in Callers, Recorded(c) PROVE TypeOK'
    <2>0. frame[c].i + 1 \in Nat
      BY <1>0, FrameFields DEF TypeOK
    <2>1. [frame[c] EXCEPT !.receipts = ReceiptsOf(c), !.i = frame[c].i + 1] \in Frames
      BY <1>0, <2>0, FrameUpdates, EntryTypes DEF TypeOK
    <2>2. frame[c].type \in EventTypes
      BY <1>0, FrameFields DEF TypeOK
    <2>3. Resume[frame[c].type] \in Stages
      BY <1>24, <2>2 DEF Recorded, Resume, EventTypes, Stages
    <2>. QED
      BY <1>0, <1>24, <2>1, <2>3, GotoType, LocalType DEF Recorded, IsLocal
  <1>25. ASSUME NEW c \in Callers, RecordedEvidenceRejection(c) PROVE TypeOK'
    <2>1. [frame[c] EXCEPT !.type = "decision.rejected", !.i = 0, !.recorder = 1,
                          !.verdict = "rejected", !.receipts = ReceiptsOf(c)] \in Frames
      BY <1>0, FrameUpdates, EntryTypes DEF TypeOK, EventTypes
    <2>. QED
      BY <1>0, <1>25, <2>1, LocalType
         DEF RecordedEvidenceRejection, IsLocal, TypeOK, ControlType, SetFrame
  <1>26. ASSUME NEW c \in Callers, RecordedRejection(c) PROVE TypeOK'
    <2>1. frame[c].verdict \in {"rejected", "no_candidate"}
      BY <1>0, FrameFields DEF TypeOK
    <2>2. [NoResult EXCEPT !.status = frame[c].verdict, !.receipts = ReceiptsOf(c)]
              \in Results
      BY <1>0, <2>1, EntryTypes, NoPackageType DEF NoResult, Results, Statuses
    <2>. QED
      BY <1>0, <1>26, <2>2, FreshFrameType
         DEF RecordedRejection, TypeOK, worldVars, hostVars, Goto, SetFrame,
             Leave, Put, Answers
  <1>27. ASSUME NEW c \in Callers, RecordedDelivery(c) PROVE TypeOK'
    <2>1. cache[key[c]] \in Results
      BY <1>27, NoResultFacts DEF RecordedDelivery, RecordDone, IInv, TypeOK,
         SettledWhileRecording, IsSettling
    <2>2. [cache[key[c]] EXCEPT !.receipts = ReceiptsOf(c)] \in Results
      BY <1>0, <2>1, EntryTypes DEF Results
    <2>. QED
      BY <1>0, <1>27, <2>2, FreshFrameType
         DEF RecordedDelivery, TypeOK, worldVars, hostVars, Goto, SetFrame,
             Leave, Put, Answers
  <1>28. ASSUME NEW c \in Callers, FailClosed(c) PROVE TypeOK'
    BY <1>0, <1>28, JournalType, FreshFrameType
       DEF FailClosed, TypeOK, Goto, SetFrame, Raise, Leave, Answers
  <1>29. ASSUME NEW c \in Callers, LeaveUnrecorded(c) PROVE TypeOK'
    BY <1>0, <1>29, JournalType, FreshFrameType
       DEF LeaveUnrecorded, TypeOK, Goto, SetFrame, Leave, Answers
  <1>30. ASSUME NEW c \in Callers, ReportUnproved(c) PROVE TypeOK'
    <2>1. cache[key[c]] \in Results
      BY <1>30, NoResultFacts DEF ReportUnproved, RecorderRaises, IInv, TypeOK,
         SettledWhileRecording, IsSettling
    <2>2. [cache[key[c]] EXCEPT !.unproved = TRUE] \in Results
      BY <1>0, <2>1 DEF Results
    <2>. QED
      BY <1>0, <1>30, <2>2, JournalType, FreshFrameType
         DEF ReportUnproved, WithFailure, TypeOK, Goto, SetFrame, Leave, Put, Answers
  <1>31. ASSUME NEW c \in Callers, CancelInside(c) PROVE TypeOK'
    BY <1>0, <1>31, FreshFrameType DEF TypeOK, kernelVars, worldVars, hostVars, Goto, SetFrame,
           CancelInside, Leave, Answers, Awaits
  <1>32. ASSUME NEW c \in Callers, CancelWaiting(c) PROVE TypeOK'
    <2>1. PICK i \in 1 .. Len(queue) :
              queue' = SubSeq(queue, 1, i - 1) \o SubSeq(queue, i + 1, Len(queue))
      BY <1>32 DEF CancelWaiting
    <2>2. queue' \in Seq(Callers)
      <3>1. queue \in Seq(Callers) /\ Len(queue) \in Nat
        BY <1>0 DEF TypeOK
      <3>2. SubSeq(queue, 1, i - 1) \in Seq(Callers)
        BY <3>1
      <3>3. SubSeq(queue, i + 1, Len(queue)) \in Seq(Callers)
        BY <3>1
      <3>. QED
        BY <2>1, <3>2, <3>3
    <2>. QED
      BY <1>0, <1>32, <2>2
         DEF CancelWaiting, TypeOK, worldVars, Goto, Answers
  <1>33. ASSUME NEW b \in Batches, NEW k \in 1 .. LastOffer(b), Land(b, k) PROVE TypeOK'
    BY <1>0, <1>33 DEF Land, TypeOK, kernelVars, hostVars
  <1>34. CASE Tick
    BY <1>0, <1>34 DEF Tick, TypeOK, kernelVars, hostVars
  <1>35. CASE Rest \/ UNCHANGED vars
    BY <1>0, <1>35 DEF Rest, vars, TypeOK, kernelVars, worldVars, hostVars
  <1>. QED
    BY <1>1, <1>2, <1>3, <1>4, <1>5, <1>6, <1>7, <1>8, <1>9, <1>10, <1>11,
       <1>12, <1>13, <1>14, <1>15, <1>16, <1>17, <1>18, <1>19, <1>20, <1>21, <1>22,
       <1>23, <1>24, <1>25, <1>26, <1>27, <1>28, <1>29, <1>30, <1>31, <1>32, <1>33,
       <1>34, <1>35 DEF Next, Proceed

-----------------------------------------------------------------------------
(* Every step is of one of nine kinds, by what it does to the lock, the      *)
(* cache and the offers.  The invariants and the refinement are proved kind  *)
(* by kind.                                                                  *)

Others(c) == \A d \in Callers \ {c} :
    pc'[d] = pc[d] /\ key'[d] = key[d] /\ frame'[d] = frame[d]

Outside(c) ==
    /\ pc[c] \notin Stages
    /\ pc'[c] \notin Stages
    /\ Others(c)
    /\ UNCHANGED <<lock, cache, offered, abandoned>>

Enter(c) ==
    /\ pc[c] \notin Stages
    /\ pc'[c] = "start"
    /\ lock = NoCaller
    /\ lock' = c
    /\ Others(c)
    /\ UNCHANGED <<key, cache, offered, abandoned>>

Advance(c) ==
    /\ pc[c] \in Stages \ {"propose"}
    /\ pc'[c] \in Stages \ {"propose", "start"}
    /\ pc[c] = "start" => ~IsCached(key[c])
    /\ IsSettling(c)' = IsSettling(c)
    /\ IsSettling(c) => frame'[c].receipts = frame[c].receipts
    /\ Others(c)
    /\ UNCHANGED <<key, lock, cache, offered, abandoned>>

Return(c) ==
    /\ pc[c] \in Stages
    /\ pc'[c] = "returned"
    /\ lock' = NoCaller
    /\ Others(c)
    /\ UNCHANGED <<key, offered>>

Exit(c) ==
    /\ Return(c)
    /\ pc[c] # "propose"
    /\ UNCHANGED <<cache, abandoned>>

GiveUp(c) ==
    /\ Return(c)
    /\ pc[c] = "propose"
    /\ Cancellable
    /\ abandoned' = [abandoned EXCEPT ![key[c]] = @ + 1]
    /\ UNCHANGED cache

HandOver(c) ==
    /\ pc[c] = "sign"
    /\ pc'[c] = "propose"
    /\ \E p \in Packages : offered' = [offered EXCEPT ![key[c]] = Append(@, p)]
    /\ Others(c)
    /\ UNCHANGED <<key, lock, cache, abandoned>>

Conclude(c) ==
    /\ pc[c] = "propose"
    /\ IsSettling(c)'
    /\ \E r \in Results : /\ IsDelivery(r)
                          /\ r.receipts \subseteq frame'[c].receipts
                          /\ cache' = [cache EXCEPT ![key[c]] = r]
    /\ Others(c)
    /\ UNCHANGED <<key, lock, offered, abandoned>>

Shut(c) ==
    /\ Return(c)
    /\ pc[c] = "record"
    /\ ~IsSettling(c)
    /\ \E r \in Results : /\ r.status \in {"rejected", "no_candidate"}
                          /\ cache' = [cache EXCEPT ![key[c]] = r]
    /\ UNCHANGED abandoned

Confirm(c) ==
    /\ Return(c)
    /\ IsSettling(c)
    /\ \E r \in Results : /\ r.status = cache[key[c]].status
                          /\ r.package = cache[key[c]].package
                          /\ r.receipt = cache[key[c]].receipt
                          /\ cache[key[c]].receipts \subseteq r.receipts
                          /\ cache' = [cache EXCEPT ![key[c]] = r]
    /\ UNCHANGED abandoned

Elsewhere == UNCHANGED <<pc, key, frame, lock, cache, offered, abandoned>>

StepKind ==
    \/ \E c \in Callers :
           \/ Outside(c) \/ Enter(c) \/ Advance(c) \/ Exit(c) \/ GiveUp(c)
           \/ HandOver(c) \/ Conclude(c) \/ Shut(c) \/ Confirm(c)
    \/ Elsewhere

LEMMA GotoOthers ==
    ASSUME TypeOK, NEW c \in Callers, NEW s, Goto(c, s), UNCHANGED key,
           UNCHANGED frame \/ \E f : SetFrame(c, f)
    PROVE  Others(c) /\ pc'[c] = s
  BY DEF TypeOK, Others, Goto, SetFrame

LEMMA RecordAdvances ==
    ASSUME TypeOK, NEW c \in Callers, NEW t \in EventTypes, StartRecord(c, t),
           pc[c] \in Stages \ {"propose", "start", "record"},
           t \notin {"decision.proposed", "decision.delivery_unknown"},
           UNCHANGED <<key, kernelVars, worldVars, hostVars>>
    PROVE  Advance(c)
  <1>1. Others(c) /\ pc'[c] = "record"
    BY GotoOthers DEF StartRecord
  <1>2. frame'[c].type = t
    BY DEF StartRecord, SetFrame, TypeOK, Frames
  <1>. QED
    BY <1>1, <1>2 DEF Advance, Stages, IsSettling, kernelVars, worldVars, hostVars

LEMMA RejectAdvances ==
    ASSUME TypeOK, NEW c \in Callers, NEW v, Reject(c, v),
           pc[c] \in Stages \ {"propose", "start", "record"},
           UNCHANGED <<key, kernelVars, worldVars, hostVars>>
    PROVE  Advance(c)
  <1>1. Others(c) /\ pc'[c] = "record"
    BY GotoOthers DEF Reject
  <1>2. frame'[c].type = "decision.rejected"
    BY DEF Reject, SetFrame, TypeOK, Frames
  <1>. QED
    BY <1>1, <1>2 DEF Advance, Stages, IsSettling, kernelVars, worldVars, hostVars

LEMMA GotoAdvances ==
    ASSUME TypeOK, NEW c \in Callers,
           NEW s \in Stages \ {"propose", "start", "record"}, Goto(c, s),
           pc[c] \in Stages \ {"propose"}, ~IsSettling(c),
           pc[c] = "start" => ~IsCached(key[c]),
           UNCHANGED frame \/ \E f : SetFrame(c, f),
           UNCHANGED <<key, kernelVars, worldVars, hostVars>>
    PROVE  Advance(c)
  <1>1. Others(c) /\ pc'[c] = s
    BY GotoOthers
  <1>. QED
    BY <1>1 DEF Advance, IsSettling, kernelVars, worldVars, hostVars

LEMMA LeaveReturns ==
    ASSUME TypeOK, NEW c \in Callers, NEW k, NEW r, NEW x, Leave(c, k, r, x),
           pc[c] \in Stages, UNCHANGED <<key, offered>>
    PROVE  Return(c)
  <1>1. Others(c) /\ pc'[c] = "returned"
    BY GotoOthers DEF Leave
  <1>. QED
    BY <1>1 DEF Return, Leave

LEMMA StepKinds == IInv /\ [Next]_vars => StepKind
  <1> SUFFICES ASSUME IInv, [Next]_vars PROVE StepKind
    OBVIOUS
  <1>0. TypeOK
    BY DEF IInv
  <1>1. ASSUME NEW c \in Callers, NEW b \in Batches, Submit(c, b) PROVE Outside(c)
    BY <1>0, <1>1 DEF Submit, Outside, Others, Goto, TypeOK, Stages, worldVars
  <1>2. ASSUME NEW c \in Callers, CancelWaiting(c) PROVE Outside(c)
    BY <1>0, <1>2 DEF CancelWaiting, Outside, Others, Goto, TypeOK, Stages, worldVars
  <1>3. ASSUME NEW c \in Callers, Acquire(c) PROVE Enter(c)
    BY <1>0, <1>3 DEF Acquire, Enter, Others, Goto, TypeOK, Stages, worldVars, hostVars
  <1>4. ASSUME NEW c \in Callers, Refuse(c) PROVE Exit(c)
    BY <1>0, <1>4, LeaveReturns DEF Refuse, Exit, Raise, Stages, worldVars, hostVars
  <1>5. ASSUME NEW c \in Callers, PortRaises(c) PROVE Exit(c)
    BY <1>0, <1>5, LeaveReturns DEF PortRaises, Exit, Raise, Stages, worldVars, hostVars
  <1>6. ASSUME NEW c \in Callers, Replay(c) PROVE Exit(c)
    BY <1>0, <1>6, LeaveReturns DEF Replay, Exit, Stages, worldVars, hostVars
  <1>7. ASSUME NEW c \in Callers, FailClosed(c) PROVE Exit(c)
    BY <1>0, <1>7, LeaveReturns DEF FailClosed, RecorderRaises, Exit, Raise, Stages
  <1>8. ASSUME NEW c \in Callers, LeaveUnrecorded(c) PROVE Exit(c)
    BY <1>0, <1>8, LeaveReturns DEF LeaveUnrecorded, RecorderRaises, Exit, Stages
  <1>9. ASSUME NEW c \in Callers, CancelInside(c) PROVE Exit(c) \/ GiveUp(c)
    BY <1>0, <1>9, LeaveReturns DEF CancelInside, Exit, GiveUp, Awaits, Stages, worldVars
  <1>10. ASSUME NEW c \in Callers, Begin(c) PROVE Advance(c)
    BY <1>0, <1>10, GotoAdvances DEF Begin, IsSettling, Stages
  <1>11. ASSUME NEW c \in Callers, EvidenceDone(c) PROVE Advance(c)
    BY <1>0, <1>11, GotoAdvances DEF EvidenceDone, IsSettling, Stages
  <1>12. ASSUME NEW c \in Callers, NEW produced \in 0 .. MaxConstraints, Classify(c, produced) PROVE Advance(c)
    BY <1>0, <1>12 DEF Classify, Advance, Others, SetFrame, TypeOK, IsSettling, Stages,
       kernelVars, worldVars, hostVars
  <1>13. ASSUME NEW c \in Callers, NEW a \in Actions, SelectAction(c, a) PROVE Advance(c)
    BY <1>0, <1>13, GotoAdvances DEF SelectAction, IsSettling, Stages
  <1>14. ASSUME NEW c \in Callers, AcceptEvidence(c) PROVE Advance(c)
    BY <1>0, <1>14, RecordAdvances DEF AcceptEvidence, EventTypes, Stages
  <1>15. ASSUME NEW c \in Callers, RejectEvidence(c) PROVE Advance(c)
    BY <1>0, <1>15, RecordAdvances DEF RejectEvidence, EventTypes, Stages
  <1>16. ASSUME NEW c \in Callers, InterpretObjective(c) PROVE Advance(c)
    BY <1>0, <1>16, RecordAdvances DEF InterpretObjective, EventTypes, Stages
  <1>17. ASSUME NEW c \in Callers, NoPlan(c) PROVE Advance(c)
    BY <1>0, <1>17, RejectAdvances DEF NoPlan, Stages
  <1>18. ASSUME NEW c \in Callers, PoliciesDone(c) PROVE Advance(c)
    BY <1>0, <1>18, RejectAdvances, GotoAdvances DEF PoliciesDone, IsSettling, Stages
  <1>19. ASSUME NEW c \in Callers, ClassifiersDone(c) PROVE Advance(c)
    BY <1>0, <1>19, RejectAdvances, GotoAdvances DEF ClassifiersDone, IsSettling, Stages
  <1>20. ASSUME NEW c \in Callers, ChecksDone(c) PROVE Advance(c)
    BY <1>0, <1>20, RejectAdvances, GotoAdvances DEF ChecksDone, IsSettling, Stages
  <1>21. ASSUME NEW c \in Callers, RecordConstraint(c) PROVE Advance(c)
    BY <1>0, <1>21, RecordAdvances, GotoAdvances
       DEF RecordConstraint, IsSettling, EventTypes, Stages
  <1>22. ASSUME NEW c \in Callers, NEW allowed \in BOOLEAN, EvaluatePolicy(c, allowed) PROVE Advance(c)
    <2>1. Others(c) /\ pc'[c] = "record"
      BY <1>0, <1>22, GotoOthers DEF EvaluatePolicy
    <2>2. frame'[c].type = "policy.evaluated"
      BY <1>0, <1>22 DEF EvaluatePolicy, SetFrame, TypeOK, Frames
    <2>. QED
      BY <1>22, <2>1, <2>2 DEF EvaluatePolicy, Advance, IsSettling, Stages, kernelVars, worldVars, hostVars
  <1>23. ASSUME NEW c \in Callers, NEW survives \in BOOLEAN, Challenge(c, survives) PROVE Advance(c)
    <2>1. Others(c) /\ pc'[c] = "record"
      BY <1>0, <1>23, GotoOthers DEF Challenge
    <2>2. frame'[c].type = "falsification.completed"
      BY <1>0, <1>23 DEF Challenge, SetFrame, TypeOK, Frames
    <2>. QED
      BY <1>23, <2>1, <2>2 DEF Challenge, Advance, IsSettling, Stages, kernelVars, worldVars, hostVars
  <1>24. ASSUME NEW c \in Callers, Store(c) PROVE Advance(c)
    <2>1. Others(c) /\ pc'[c] = "record"
      BY <1>0, <1>24 DEF Store, SetFrame, Others, TypeOK
    <2>2. frame'[c].type = frame[c].type /\ frame'[c].receipts = frame[c].receipts
      BY <1>0, <1>24 DEF Store, SetFrame, TypeOK, Frames
    <2>. QED
      BY <1>24, <2>1, <2>2 DEF Store, Advance, IsSettling, Stages, kernelVars, hostVars
  <1>25. ASSUME NEW c \in Callers, Recorded(c) PROVE Advance(c)
    <2>1. frame[c].type \in EventTypes
      BY <1>0, FrameFields DEF TypeOK
    <2>2. Resume[frame[c].type] \in Stages \ {"propose", "start", "record"}
      BY <1>25, <2>1 DEF Recorded, Resume, EventTypes, Stages
    <2>3. ~IsSettling(c)
      BY <1>25, <2>1 DEF Recorded, Resume, EventTypes, IsSettling
    <2>. QED
      BY <1>0, <1>25, <2>2, <2>3, GotoAdvances DEF Recorded, RecordDone, Stages
  <1>26. ASSUME NEW c \in Callers, RecordedEvidenceRejection(c) PROVE Advance(c)
    <2>1. Others(c) /\ pc'[c] = "record"
      BY <1>0, <1>26 DEF RecordedEvidenceRejection, RecordDone, SetFrame, Others, TypeOK
    <2>2. frame'[c].type = "decision.rejected"
      BY <1>0, <1>26 DEF RecordedEvidenceRejection, SetFrame, TypeOK, Frames
    <2>. QED
      BY <1>26, <2>1, <2>2
         DEF RecordedEvidenceRejection, RecordDone, Advance, IsSettling, Stages,
             kernelVars, worldVars, hostVars
  <1>27. ASSUME NEW c \in Callers, SignAndPropose(c) PROVE HandOver(c)
    <2>1. PICK e \in Expiries(key[c], frame[c].now) :
              offered' = [offered EXCEPT ![key[c]] = Append(@, PackageOf(c, e))]
      BY <1>27 DEF SignAndPropose
    <2>2. PackageOf(c, e) \in Packages
      BY <1>0, PackageType
    <2>3. Others(c) /\ pc'[c] = "propose"
      BY <1>0, <1>27, GotoOthers DEF SignAndPropose
    <2>. QED
      BY <1>27, <2>1, <2>2, <2>3 DEF SignAndPropose, HandOver, kernelVars, hostVars
  <1>28. ASSUME NEW c \in Callers, SinkAcknowledges(c) PROVE Conclude(c)
    <2>1. Others(c) /\ pc'[c] = "record"
      BY <1>0, <1>28, GotoOthers DEF SinkAcknowledges
    <2>2. /\ frame'[c].type = "decision.proposed"
          /\ frame'[c].receipts = frame[c].receipts
      BY <1>0, <1>28 DEF SinkAcknowledges, SetFrame, TypeOK, Frames
    <2>3. Settled(c, "proposed", "matching") \in Results
      BY <1>0, <1>28, SettledType DEF SinkAcknowledges, IInv
    <2>. QED
      BY <1>28, <2>1, <2>2, <2>3
         DEF SinkAcknowledges, Conclude, IsSettling, Settled, IsDelivery, Put,
             worldVars, hostVars
  <1>29. ASSUME NEW c \in Callers, NEW receipt \in {"none", "mismatched"}, SinkUncertain(c, receipt) PROVE Conclude(c)
    <2>1. Others(c) /\ pc'[c] = "record"
      BY <1>0, <1>29, GotoOthers DEF SinkUncertain
    <2>2. /\ frame'[c].type = "decision.delivery_unknown"
          /\ frame'[c].receipts = frame[c].receipts
      BY <1>0, <1>29 DEF SinkUncertain, SetFrame, TypeOK, Frames
    <2>3. Settled(c, "delivery_unknown", receipt) \in Results
      BY <1>0, <1>29, SettledType DEF SinkUncertain, IInv
    <2>. QED
      BY <1>29, <2>1, <2>2, <2>3
         DEF SinkUncertain, Conclude, IsSettling, Settled, IsDelivery, Put,
             worldVars, hostVars
  <1>30. ASSUME NEW c \in Callers, RecordedRejection(c) PROVE Shut(c)
    <2>1. frame[c].verdict \in {"rejected", "no_candidate"}
      BY <1>0, FrameFields DEF TypeOK
    <2>2. [NoResult EXCEPT !.status = frame[c].verdict, !.receipts = ReceiptsOf(c)]
              \in Results
      BY <1>0, <2>1, EntryTypes, NoPackageType DEF NoResult, Results, Statuses
    <2>3. [NoResult EXCEPT !.status = frame[c].verdict,
                           !.receipts = ReceiptsOf(c)].status = frame[c].verdict
      BY DEF NoResult
    <2>4. Return(c)
      BY <1>0, <1>30, LeaveReturns DEF RecordedRejection, RecordDone, Stages, worldVars
    <2>. QED
      BY <1>30, <2>1, <2>2, <2>3, <2>4
         DEF RecordedRejection, RecordDone, Shut, IsSettling, Put
  <1>31. ASSUME NEW c \in Callers, RecordedDelivery(c) PROVE Confirm(c)
    <2> DEFINE r == [cache[key[c]] EXCEPT !.receipts = ReceiptsOf(c)]
    <2>0. IsSettling(c)
      BY <1>31 DEF RecordedDelivery, RecordDone, IsSettling
    <2>7. IsDelivery(cache[key[c]]) /\ cache[key[c]].receipts \subseteq frame[c].receipts
      BY <2>0 DEF IInv, SettledWhileRecording
    <2>8. cache[key[c]] \in Results \union {NoResult}
      BY <1>0 DEF TypeOK
    <2>1. cache[key[c]] \in Results /\ cache[key[c]].receipts \subseteq frame[c].receipts
      BY <2>7, <2>8, NoResultFacts
    <2>2. r \in Results
      BY <1>0, <2>1, EntryTypes DEF Results
    <2>3. /\ r.status = cache[key[c]].status /\ r.package = cache[key[c]].package
          /\ r.receipt = cache[key[c]].receipt /\ r.receipts = ReceiptsOf(c)
      BY <2>1 DEF Results
    <2>4. Return(c)
      BY <1>0, <1>31, LeaveReturns DEF RecordedDelivery, RecordDone, Stages, worldVars
    <2>5. cache[key[c]].receipts \subseteq r.receipts
      BY <2>1, <2>3 DEF ReceiptsOf
    <2>6. cache' = [cache EXCEPT ![key[c]] = r]
      BY <1>31 DEF RecordedDelivery, Put
    <2> HIDE DEF r
    <2>. QED
      BY <1>31, <2>2, <2>3, <2>4, <2>5, <2>6
         DEF RecordedDelivery, RecordDone, Confirm, IsSettling
  <1>32. ASSUME NEW c \in Callers, ReportUnproved(c) PROVE Confirm(c)
    <2> DEFINE r == [cache[key[c]] EXCEPT !.unproved = TRUE]
    <2>1. cache[key[c]] \in Results
      BY <1>32, NoResultFacts DEF ReportUnproved, RecorderRaises, IInv, TypeOK,
         SettledWhileRecording, IsSettling
    <2>2. r \in Results
      BY <2>1 DEF Results
    <2>3. /\ r.status = cache[key[c]].status /\ r.package = cache[key[c]].package
          /\ r.receipt = cache[key[c]].receipt
          /\ r.receipts = cache[key[c]].receipts
      BY <2>1 DEF Results
    <2>4. Return(c)
      BY <1>0, <1>32, LeaveReturns DEF ReportUnproved, RecorderRaises, Stages
    <2>5. cache' = [cache EXCEPT ![key[c]] = r]
      BY <1>32 DEF ReportUnproved, WithFailure, Put
    <2> HIDE DEF r
    <2>. QED
      BY <1>32, <2>2, <2>3, <2>4, <2>5
         DEF ReportUnproved, RecorderRaises, Confirm, IsSettling
  <1>33. ASSUME NEW b \in Batches, NEW k \in 1 .. LastOffer(b), Land(b, k) PROVE Elsewhere
    BY <1>33 DEF Land, Elsewhere, kernelVars, hostVars
  <1>34. ASSUME Tick \/ Rest \/ UNCHANGED vars PROVE Elsewhere
    BY <1>34 DEF Tick, Rest, vars, Elsewhere, kernelVars, worldVars, hostVars
  <1>. QED
    BY <1>1, <1>2, <1>3, <1>4, <1>5, <1>6, <1>7, <1>8, <1>9, <1>10, <1>11,
       <1>12, <1>13, <1>14, <1>15, <1>16, <1>17, <1>18, <1>19, <1>20, <1>21, <1>22,
       <1>23, <1>24, <1>25, <1>26, <1>27, <1>28, <1>29, <1>30, <1>31, <1>32, <1>33,
       <1>34 DEF Next, Proceed, StepKind

-----------------------------------------------------------------------------
(* The invariant is inductive. *)

(* The one call that may be offering is the holder of the lock. *)
LEMMA OfferingIsHolder ==
    ASSUME LockHeld, NEW c \in Callers, pc[c] \in Stages, NEW b
    PROVE  IsOffering(b) <=> pc[c] = "propose" /\ key[c] = b
  BY DEF LockHeld, IsOffering, Stages

LEMMA NoHolderNoOffer ==
    ASSUME LockHeld, lock \notin Callers, NEW b
    PROVE  ~IsOffering(b)
  BY DEF LockHeld, IsOffering, Stages

LEMMA LockStep == IInv /\ StepKind => LockHeld'
  <1> SUFFICES ASSUME IInv, StepKind PROVE LockHeld'
    OBVIOUS
  <1>1. ASSUME NEW c \in Callers, Outside(c) PROVE LockHeld'
    BY <1>1 DEF IInv, LockHeld, Outside, Others
  <1>2. ASSUME NEW c \in Callers, Enter(c) PROVE LockHeld'
    BY <1>2, CallersAssumption DEF IInv, LockHeld, Enter, Others, Stages
  <1>3. ASSUME NEW c \in Callers, Advance(c) PROVE LockHeld'
    BY <1>3 DEF IInv, LockHeld, Advance, Others
  <1>4. ASSUME NEW c \in Callers, Return(c) PROVE LockHeld'
    BY <1>4, CallersAssumption DEF IInv, LockHeld, Return, Others, Stages
  <1>5. ASSUME NEW c \in Callers, HandOver(c) PROVE LockHeld'
    BY <1>5 DEF IInv, LockHeld, HandOver, Others, Stages
  <1>6. ASSUME NEW c \in Callers, Conclude(c) PROVE LockHeld'
    BY <1>6 DEF IInv, LockHeld, Conclude, Others, IsSettling, Stages
  <1>7. CASE Elsewhere
    BY <1>7 DEF IInv, LockHeld, Elsewhere
  <1>. QED
    BY <1>1, <1>2, <1>3, <1>4, <1>5, <1>6, <1>7
       DEF StepKind, Exit, GiveUp, Shut, Confirm

LEMMA OpenStep == IInv /\ StepKind => OpenWhileRunning'
  <1> SUFFICES ASSUME IInv, StepKind, LockHeld', NEW d \in Callers,
                      (pc[d] \in Stages \ {"start"} /\ ~IsSettling(d))'
               PROVE  ~IsCached(key[d])'
    BY LockStep DEF OpenWhileRunning
  <1> USE DEF IInv, LockHeld, OpenWhileRunning, IsCached, IsSettling, Others
  <1>1. ASSUME NEW c \in Callers, Outside(c) PROVE ~IsCached(key[d])'
    BY <1>1 DEF Outside
  <1>2. ASSUME NEW c \in Callers, Enter(c) PROVE ~IsCached(key[d])'
    BY <1>2 DEF Enter, Stages
  <1>3. ASSUME NEW c \in Callers, Advance(c) PROVE ~IsCached(key[d])'
    BY <1>3 DEF Advance
  <1>4. ASSUME NEW c \in Callers, Return(c) PROVE ~IsCached(key[d])'
    BY <1>4, CallersAssumption DEF Return, Stages
  <1>5. ASSUME NEW c \in Callers, HandOver(c) PROVE ~IsCached(key[d])'
    BY <1>5 DEF HandOver, Stages
  <1>6. ASSUME NEW c \in Callers, Conclude(c) PROVE ~IsCached(key[d])'
    BY <1>6 DEF Conclude, Stages
  <1>7. CASE Elsewhere
    BY <1>7 DEF Elsewhere
  <1>. QED
    BY <1>1, <1>2, <1>3, <1>4, <1>5, <1>6, <1>7
       DEF StepKind, Exit, GiveUp, Shut, Confirm

LEMMA SettledStep == IInv /\ StepKind => SettledWhileRecording'
  <1> SUFFICES ASSUME IInv, StepKind, LockHeld', NEW d \in Callers, IsSettling(d)'
               PROVE  (/\ IsDelivery(cache[key[d]])
                       /\ cache[key[d]].receipts \subseteq frame[d].receipts)'
    BY LockStep DEF SettledWhileRecording
  <1> DEFINE Goal == (/\ IsDelivery(cache[key[d]])
                      /\ cache[key[d]].receipts \subseteq frame[d].receipts)'
  <1> USE DEF IInv, LockHeld, SettledWhileRecording, IsSettling, Others
  <1>1. ASSUME NEW c \in Callers, Outside(c) PROVE Goal
    BY <1>1 DEF Outside, IsDelivery, Stages
  <1>2. ASSUME NEW c \in Callers, Enter(c) PROVE Goal
    BY <1>2 DEF Enter, Stages, IsDelivery
  <1>3. ASSUME NEW c \in Callers, Advance(c) PROVE Goal
    BY <1>3 DEF Advance, IsDelivery
  <1>4. ASSUME NEW c \in Callers, Return(c) PROVE Goal
    BY <1>4, CallersAssumption DEF Return, Stages
  <1>5. ASSUME NEW c \in Callers, HandOver(c) PROVE Goal
    BY <1>5 DEF HandOver, Stages, IsDelivery
  <1>6. ASSUME NEW c \in Callers, Conclude(c) PROVE Goal
    BY <1>6 DEF Conclude, Stages, IsDelivery, TypeOK
  <1>7. CASE Elsewhere
    BY <1>7 DEF Elsewhere, IsDelivery
  <1>. QED
    BY <1>1, <1>2, <1>3, <1>4, <1>5, <1>6, <1>7
       DEF StepKind, Exit, GiveUp, Shut, Confirm

LEMMA OffersStep == IInv /\ StepKind => OffersAccounted'
  <1> SUFFICES ASSUME IInv, StepKind, LockHeld', NEW b \in Batches
               PROVE  (/\ LastOffer(b) = abandoned[b]
                              + (IF IsDelivery(cache[b]) THEN 1 ELSE 0)
                              + (IF IsOffering(b) THEN 1 ELSE 0)
                       /\ IsOffering(b) => ~IsCached(b))'
    BY LockStep DEF OffersAccounted
  <1> DEFINE Goal == (/\ LastOffer(b) = abandoned[b]
                              + (IF IsDelivery(cache[b]) THEN 1 ELSE 0)
                              + (IF IsOffering(b) THEN 1 ELSE 0)
                      /\ IsOffering(b) => ~IsCached(b))'
  <1>0. /\ TypeOK /\ LockHeld
        /\ LastOffer(b) = abandoned[b] + (IF IsDelivery(cache[b]) THEN 1 ELSE 0)
                                       + (IF IsOffering(b) THEN 1 ELSE 0)
        /\ IsOffering(b) => ~IsCached(b)
        /\ abandoned[b] \in Nat
    BY DEF IInv, OffersAccounted, TypeOK
  <1>a. ASSUME UNCHANGED <<cache, offered, abandoned>>, IsOffering(b)' = IsOffering(b)
        PROVE  Goal
    BY <1>0, <1>a DEF LastOffer, IsDelivery, IsCached
  <1>1. ASSUME NEW c \in Callers, Outside(c) PROVE Goal
    <2>1. IsOffering(b)' = IsOffering(b)
      BY <1>1 DEF Outside, Others, IsOffering, Stages
    <2>. QED
      BY <1>1, <1>a, <2>1 DEF Outside
  <1>2. ASSUME NEW c \in Callers, Enter(c) PROVE Goal
    <2>1. IsOffering(b)' = IsOffering(b)
      BY <1>2 DEF Enter, Others, IsOffering, Stages
    <2>. QED
      BY <1>2, <1>a, <2>1 DEF Enter
  <1>3. ASSUME NEW c \in Callers, Advance(c) PROVE Goal
    <2>1. IsOffering(b)' = IsOffering(b)
      BY <1>3 DEF Advance, Others, IsOffering
    <2>. QED
      BY <1>3, <1>a, <2>1 DEF Advance
  <1>4. ASSUME NEW c \in Callers, Exit(c) PROVE Goal
    <2>1. IsOffering(b)' = IsOffering(b)
      BY <1>4 DEF Exit, Return, Others, IsOffering
    <2>. QED
      BY <1>4, <1>a, <2>1 DEF Exit, Return
  <1>5. ASSUME NEW c \in Callers, GiveUp(c) PROVE Goal
    <2>1. IsOffering(b) <=> b = key[c]
      BY <1>0, <1>5, OfferingIsHolder DEF GiveUp, Return
    <2>2. ~IsOffering(b)'
      BY <1>5, CallersAssumption DEF GiveUp, Return, LockHeld, IsOffering, Stages
    <2>3. abandoned'[b] = IF b = key[c] THEN abandoned[b] + 1 ELSE abandoned[b]
      BY <1>0, <1>5 DEF GiveUp, TypeOK
    <2>4. /\ LastOffer(b)' = LastOffer(b)
          /\ IsDelivery(cache[b])' = IsDelivery(cache[b])
      BY <1>5 DEF GiveUp, Return, LastOffer, IsDelivery
    <2>. QED
      BY <1>0, <2>1, <2>2, <2>3, <2>4
  <1>6. ASSUME NEW c \in Callers, HandOver(c) PROVE Goal
    <2>1. ~IsOffering(b)
      BY <1>0, <1>6, OfferingIsHolder DEF HandOver, Stages
    <2>2. IsOffering(b)' <=> b = key[c]
      <3>1. \A d \in Callers : pc'[d] = "propose" => d = c
        BY <1>0, <1>6 DEF HandOver, Others, LockHeld, Stages
      <3>. QED
        BY <1>6, <3>1 DEF HandOver, IsOffering
    <2>3. LastOffer(b)' = IF b = key[c] THEN LastOffer(b) + 1 ELSE LastOffer(b)
      BY <1>0, <1>6 DEF HandOver, LastOffer, TypeOK
    <2>4. b = key[c] => ~IsCached(b)
      BY <1>6 DEF HandOver, IInv, OpenWhileRunning, IsSettling, Stages
    <2>5. /\ abandoned'[b] = abandoned[b]
          /\ IsDelivery(cache[b])' = IsDelivery(cache[b])
          /\ IsCached(b)' = IsCached(b)
      BY <1>6 DEF HandOver, IsDelivery, IsCached
    <2>. QED
      BY <1>0, <2>1, <2>2, <2>3, <2>4, <2>5
  <1>7. ASSUME NEW c \in Callers, Conclude(c) PROVE Goal
    <2>1. IsOffering(b) <=> b = key[c]
      BY <1>0, <1>7, OfferingIsHolder DEF Conclude, Stages
    <2>2. ~IsOffering(b)'
      <3>1. \A d \in Callers : pc'[d] # "propose"
        BY <1>0, <1>7 DEF Conclude, Others, LockHeld, IsSettling, Stages
      <3>. QED
        BY <3>1 DEF IsOffering
    <2>3. b = key[c] => ~IsDelivery(cache[b]) /\ IsDelivery(cache[b])'
      BY <1>0, <1>7, <2>1, NoResultFacts DEF Conclude, IsCached, IsDelivery, TypeOK
    <2>4. b # key[c] => IsDelivery(cache[b])' = IsDelivery(cache[b])
      BY <1>0, <1>7 DEF Conclude, IsDelivery, TypeOK
    <2>5. abandoned'[b] = abandoned[b] /\ LastOffer(b)' = LastOffer(b)
      BY <1>7 DEF Conclude, LastOffer
    <2>. QED
      BY <1>0, <2>1, <2>2, <2>3, <2>4, <2>5
  <1>8. ASSUME NEW c \in Callers, Shut(c) \/ Confirm(c) PROVE Goal
    <2>1. ~IsOffering(b)
      BY <1>0, <1>8, OfferingIsHolder DEF Shut, Confirm, Return, IsSettling
    <2>2. ~IsOffering(b)'
      BY <1>8, CallersAssumption DEF Shut, Confirm, Return, LockHeld, IsOffering, Stages
    <2>3. IsDelivery(cache[b])' = IsDelivery(cache[b])
      <3>1. CASE Shut(c)
        <4>1. ~IsDelivery(cache[key[c]])
          BY <1>0, <3>1, NoResultFacts
             DEF Shut, Return, IInv, OpenWhileRunning, IsCached
        <4>2. ~IsDelivery(cache[key[c]])'
          BY <1>0, <3>1 DEF Shut, Return, IsDelivery, TypeOK
        <4>. QED
          BY <1>0, <3>1, <4>1, <4>2 DEF Shut, Return, IsDelivery, TypeOK
      <3>2. CASE Confirm(c)
        BY <1>0, <3>2 DEF Confirm, Return, IsDelivery, TypeOK
      <3>. QED
        BY <1>8, <3>1, <3>2
    <2>4. abandoned'[b] = abandoned[b] /\ LastOffer(b)' = LastOffer(b)
      BY <1>8 DEF Shut, Confirm, Return, LastOffer
    <2>. QED
      BY <1>0, <2>1, <2>2, <2>3, <2>4
  <1>9. CASE Elsewhere
    <2>1. IsOffering(b)' = IsOffering(b)
      BY <1>9 DEF Elsewhere, IsOffering
    <2>. QED
      BY <1>9, <1>a, <2>1 DEF Elsewhere
  <1>. QED
    BY <1>1, <1>2, <1>3, <1>4, <1>5, <1>6, <1>7, <1>8, <1>9 DEF StepKind

(* The inductive invariant holds: one call at a time is inside the cycle, its *)
(* key undecided until it settles it (kernel.py:201-219), and every offer is  *)
(* accounted for.                                                             *)
THEOREM Invariance == Spec => []IInv
  <1>1. IInv /\ [Next]_vars => IInv'
    BY TypeStep, StepKinds, LockStep, OpenStep, SettledStep, OffersStep DEF IInv
  <1>. QED
    BY InitInv, <1>1, PTL DEF Spec

(* The type invariant TypeOK holds for every number of callers, recorders,  *)
(* policies and classifiers of kernel.py, with or without cancellation.     *)
THEOREM TypeCorrect == Spec => []TypeOK
  <1>1. IInv => TypeOK
    BY DEF IInv
  <1>. QED
    BY Invariance, <1>1, PTL

(* Every package handed to the sink is the cached delivery of its key, the  *)
(* one in flight, or one the host cancelled: for every value of the         *)
(* constants, no retry of kernel.py's run offers a decided key again.       *)
THEOREM OffersAreAccounted == Spec => []OffersAccounted
  <1>1. IInv => OffersAccounted
    BY DEF IInv
  <1>. QED
    BY Invariance, <1>1, PTL

-----------------------------------------------------------------------------
(* Consequences. *)

NothingAbandoned == \A b \in Batches : abandoned[b] = 0

(* When the host cancels nothing, a cycle key is offered to the sink at most *)
(* once, however often and from however many tasks it is retried, whichever  *)
(* port, recorder or delivery fails (docs/architecture.md, exact retry).     *)
THEOREM RetriesNeverRedeliver ==
    ASSUME ~Cancellable
    PROVE  Spec => []OfferedAtMostOnce
  <1>1. Init => NothingAbandoned
    BY DEF Init, NothingAbandoned
  <1>2. IInv /\ [Next]_vars /\ NothingAbandoned => NothingAbandoned'
    BY StepKinds DEF StepKind, NothingAbandoned, Outside, Enter, Advance, Exit,
       GiveUp, HandOver, Conclude, Shut, Confirm, Elsewhere
  <1>3. IInv /\ NothingAbandoned => OfferedAtMostOnce
    <2> SUFFICES ASSUME IInv, NothingAbandoned, NEW b \in Batches
                 PROVE  LastOffer(b) <= 1
      BY DEF OfferedAtMostOnce
    <2>1. /\ LastOffer(b) = 0 + (IF IsDelivery(cache[b]) THEN 1 ELSE 0)
                              + (IF IsOffering(b) THEN 1 ELSE 0)
          /\ IsOffering(b) => ~IsCached(b)
      BY DEF IInv, OffersAccounted, NothingAbandoned
    <2>2. IsOffering(b) => ~IsDelivery(cache[b])
      BY <2>1, NoResultFacts DEF IsCached
    <2>. QED
      BY <2>1, <2>2
  <1>. QED
    BY Invariance, <1>1, <1>2, <1>3, PTL DEF Spec

(* No kind of step takes back a cached verdict. *)
LEMMA KindsKeepVerdicts ==
    ASSUME IInv, StepKind, NEW b \in Batches, IsCached(b)
    PROVE  /\ cache'[b].status = cache[b].status
           /\ cache'[b].package = cache[b].package
           /\ cache'[b].receipt = cache[b].receipt
           /\ cache[b].receipts \subseteq cache'[b].receipts
  <1>1. CASE UNCHANGED cache
    BY <1>1
  <1>2. ASSUME NEW c \in Callers, Conclude(c) PROVE b # key[c]
    BY <1>2 DEF Conclude, IInv, OpenWhileRunning, IsSettling, Stages
  <1>3. ASSUME NEW c \in Callers, Shut(c) PROVE b # key[c]
    BY <1>3 DEF Shut, IInv, OpenWhileRunning, Stages
  <1>4. ASSUME NEW c \in Callers, Conclude(c) \/ Shut(c) PROVE cache'[b] = cache[b]
    BY <1>2, <1>3, <1>4 DEF Conclude, Shut, IInv, TypeOK
  <1>5. ASSUME NEW c \in Callers, Confirm(c)
        PROVE  /\ cache'[b].status = cache[b].status
               /\ cache'[b].package = cache[b].package
               /\ cache'[b].receipt = cache[b].receipt
               /\ cache[b].receipts \subseteq cache'[b].receipts
    BY <1>5 DEF Confirm, IInv, TypeOK
  <1>. QED
    BY <1>1, <1>4, <1>5
       DEF StepKind, Outside, Enter, Advance, Exit, GiveUp, HandOver, Elsewhere

(* The cache entry of a key is final in all but what is proved of it: for   *)
(* every value of the constants, no step changes the status, the package or *)
(* the receipt of a cached result, or drops one of its proof receipts.      *)
THEOREM VerdictsAreFinal == Spec => VerdictIsFinal
  <1> DEFINE Kept == \A b \in Batches : cache[b] # NoResult =>
                         /\ cache'[b].status = cache[b].status
                         /\ cache'[b].package = cache[b].package
                         /\ cache'[b].receipt = cache[b].receipt
                         /\ cache[b].receipts \subseteq cache'[b].receipts
  <1>1. IInv /\ [Next]_vars => Kept
    BY StepKinds, KindsKeepVerdicts DEF IsCached
  <1>2. IInv /\ [Next]_vars => [Kept]_vars
    BY <1>1
  <1>. QED
    BY Invariance, <1>2, PTL DEF Spec, VerdictIsFinal

(* The kernel implements the ledger of keys: each key is closed without a   *)
(* proposal, or offered and settled, and once decided stays decided; only   *)
(* the host reopens an offered key (kernel.py:201-219, 478-568).            *)
THEOREM KernelImplementsLedger == Spec => ImplementsLedger
  <1>1. Init => Ledger!LedgerInit
    BY NoResultFacts
       DEF Init, Ledger!LedgerInit, PhaseOf, IsCached, IsOffering, LastOffer
  <1>2. IInv /\ IInv' /\ [Next]_vars => [Ledger!LedgerNext]_Ledger!ledgerVars
    <2> SUFFICES ASSUME IInv, LockHeld', StepKind
                 PROVE  [Ledger!LedgerNext]_Ledger!ledgerVars
      BY StepKinds DEF IInv
    <2>0. TypeOK /\ LockHeld
      BY DEF IInv
    <2>a. ASSUME \A b \in Batches : PhaseOf(b)' = PhaseOf(b) /\ LastOffer(b)' = LastOffer(b)
          PROVE  UNCHANGED Ledger!ledgerVars
      BY <2>a DEF Ledger!ledgerVars
    <2>b. ASSUME UNCHANGED <<cache, offered>>,
                 \A b \in Batches : IsOffering(b)' = IsOffering(b)
          PROVE  UNCHANGED Ledger!ledgerVars
      <3>1. \A b \in Batches : PhaseOf(b)' = PhaseOf(b) /\ LastOffer(b)' = LastOffer(b)
        BY <2>b DEF PhaseOf, IsCached, LastOffer
      <3>. QED
        BY <3>1, <2>a
    <2>1. ASSUME NEW c \in Callers,
                 Outside(c) \/ Enter(c) \/ Advance(c) \/ Exit(c)
          PROVE  UNCHANGED Ledger!ledgerVars
      <3>1. \A b \in Batches : IsOffering(b)' = IsOffering(b)
        BY <2>1 DEF Outside, Enter, Advance, Exit, Return, Others, IsOffering, Stages
      <3>. QED
        BY <2>1, <2>b, <3>1 DEF Outside, Enter, Advance, Exit, Return
    <2>2. CASE Elsewhere
      <3>1. \A b \in Batches : IsOffering(b)' = IsOffering(b)
        BY <2>2 DEF Elsewhere, IsOffering
      <3>. QED
        BY <2>2, <2>b, <3>1 DEF Elsewhere
    <2>3. ASSUME NEW c \in Callers, GiveUp(c) PROVE Ledger!Abandon(key[c])
      <3>1. \A b \in Batches : IsOffering(b) <=> b = key[c]
        BY <2>0, <2>3, OfferingIsHolder DEF GiveUp, Return
      <3>2. \A b \in Batches : ~IsOffering(b)'
        BY <2>3, CallersAssumption DEF GiveUp, Return, LockHeld, IsOffering, Stages
      <3>3. ~IsCached(key[c])
        BY <2>3 DEF GiveUp, IInv, OpenWhileRunning, IsSettling, Stages
      <3>4. \A b \in Batches : /\ LastOffer(b)' = LastOffer(b)
                               /\ IsCached(b)' = IsCached(b)
                               /\ cache'[b] = cache[b]
        BY <2>3 DEF GiveUp, Return, LastOffer, IsCached
      <3>5. \A b \in Batches : PhaseOf(b)' = IF b = key[c] THEN "open" ELSE PhaseOf(b)
        BY <3>1, <3>2, <3>3, <3>4 DEF PhaseOf, IsCached
      <3>6. key[c] \in Batches /\ PhaseOf(key[c]) = "offered"
        BY <2>0, <3>1, <3>3 DEF PhaseOf, IsCached, TypeOK
      <3>. QED
        BY <2>3, <3>4, <3>5, <3>6 DEF Ledger!Abandon, GiveUp
    <2>4. ASSUME NEW c \in Callers, HandOver(c) PROVE Ledger!Offer(key[c])
      <3>1. \A b \in Batches : ~IsOffering(b)
        BY <2>0, <2>4, OfferingIsHolder DEF HandOver, Stages
      <3>2. \A b \in Batches : IsOffering(b)' <=> b = key[c]
        <4>1. \A d \in Callers : pc'[d] = "propose" => d = c
          BY <2>0, <2>4 DEF HandOver, Others, LockHeld, Stages
        <4>. QED
          BY <2>4, <4>1 DEF HandOver, IsOffering
      <3>3. ~IsCached(key[c])
        BY <2>4 DEF HandOver, IInv, OpenWhileRunning, IsSettling, Stages
      <3>4. \A b \in Batches :
                /\ LastOffer(b)' = IF b = key[c] THEN LastOffer(b) + 1 ELSE LastOffer(b)
                /\ IsCached(b)' = IsCached(b)
                /\ cache'[b] = cache[b]
        BY <2>0, <2>4 DEF HandOver, LastOffer, IsCached, TypeOK
      <3>5. \A b \in Batches : PhaseOf(b)' = IF b = key[c] THEN "offered" ELSE PhaseOf(b)
        BY <3>1, <3>2, <3>3, <3>4 DEF PhaseOf, IsCached
      <3>6. key[c] \in Batches /\ PhaseOf(key[c]) = "open"
        BY <2>0, <3>1, <3>3 DEF PhaseOf, IsCached, TypeOK
      <3>. QED
        BY <3>4, <3>5, <3>6 DEF Ledger!Offer
    <2>5. ASSUME NEW c \in Callers, Conclude(c)
          PROVE  \E outcome \in Ledger!Outcomes : Ledger!Settle(key[c], outcome)
      <3>1. PICK r \in Results : IsDelivery(r) /\ cache' = [cache EXCEPT ![key[c]] = r]
        BY <2>5 DEF Conclude
      <3>2. \A b \in Batches : IsOffering(b) <=> b = key[c]
        BY <2>0, <2>5, OfferingIsHolder DEF Conclude, Stages
      <3>3. \A b \in Batches : ~IsOffering(b)'
        <4>1. \A d \in Callers : pc'[d] # "propose"
          BY <2>0, <2>5 DEF Conclude, Others, LockHeld, IsSettling, Stages
        <4>. QED
          BY <4>1 DEF IsOffering
      <3>4. key[c] \in Batches /\ ~IsCached(key[c])
        BY <2>5 DEF Conclude, IInv, TypeOK, OpenWhileRunning, IsSettling, Stages
      <3>5. \A b \in Batches : /\ cache'[b] = IF b = key[c] THEN r ELSE cache[b]
                               /\ IsCached(b)' = (b = key[c] \/ IsCached(b))
                               /\ LastOffer(b)' = LastOffer(b)
        BY <2>0, <2>5, <3>1, NoResultFacts DEF Conclude, IsCached, LastOffer, TypeOK
      <3>6. \A b \in Batches : PhaseOf(b)' = IF b = key[c] THEN r.status ELSE PhaseOf(b)
        BY <3>2, <3>3, <3>5 DEF PhaseOf, IsCached
      <3>7. PhaseOf(key[c]) = "offered"
        BY <3>2, <3>4 DEF PhaseOf, IsCached
      <3>8. r.status \in Ledger!Outcomes
        BY <3>1 DEF IsDelivery, Ledger!Outcomes
      <3>9. Ledger!Settle(key[c], r.status)
        BY <3>4, <3>5, <3>6, <3>7 DEF Ledger!Settle
      <3>. QED
        BY <3>8, <3>9
    <2>6. ASSUME NEW c \in Callers, Shut(c)
          PROVE  \E verdict \in Ledger!Refusals : Ledger!Close(key[c], verdict)
      <3>1. PICK r \in Results : /\ r.status \in {"rejected", "no_candidate"}
                                 /\ cache' = [cache EXCEPT ![key[c]] = r]
        BY <2>6 DEF Shut
      <3>2. \A b \in Batches : ~IsOffering(b) /\ ~IsOffering(b)'
        <4>1. \A b \in Batches : ~IsOffering(b)
          BY <2>0, <2>6, OfferingIsHolder DEF Shut, Return
        <4>2. \A b \in Batches : ~IsOffering(b)'
          BY <2>6, CallersAssumption DEF Shut, Return, LockHeld, IsOffering, Stages
        <4>. QED
          BY <4>1, <4>2
      <3>3. key[c] \in Batches /\ ~IsCached(key[c])
        BY <2>6 DEF Shut, Return, IInv, TypeOK, OpenWhileRunning, Stages
      <3>4. \A b \in Batches : /\ cache'[b] = IF b = key[c] THEN r ELSE cache[b]
                               /\ IsCached(b)' = (b = key[c] \/ IsCached(b))
                               /\ LastOffer(b)' = LastOffer(b)
        BY <2>0, <2>6, <3>1, NoResultFacts DEF Shut, Return, IsCached, LastOffer, TypeOK
      <3>5. \A b \in Batches : PhaseOf(b)' = IF b = key[c] THEN r.status ELSE PhaseOf(b)
        BY <3>2, <3>4 DEF PhaseOf, IsCached
      <3>6. PhaseOf(key[c]) = "open"
        BY <3>2, <3>3 DEF PhaseOf, IsCached
      <3>7. r.status \in Ledger!Refusals
        BY <3>1 DEF Ledger!Refusals
      <3>8. Ledger!Close(key[c], r.status)
        BY <3>3, <3>4, <3>5, <3>6 DEF Ledger!Close
      <3>. QED
        BY <3>7, <3>8
    <2>7. ASSUME NEW c \in Callers, Confirm(c) PROVE UNCHANGED Ledger!ledgerVars
      <3>1. PICK r \in Results : /\ r.status = cache[key[c]].status
                                 /\ cache' = [cache EXCEPT ![key[c]] = r]
        BY <2>7 DEF Confirm
      <3>2. \A b \in Batches : ~IsOffering(b) /\ ~IsOffering(b)'
        <4>1. \A b \in Batches : ~IsOffering(b)
          BY <2>0, <2>7, OfferingIsHolder DEF Confirm, Return, IsSettling
        <4>2. \A b \in Batches : ~IsOffering(b)'
          BY <2>7, CallersAssumption DEF Confirm, Return, LockHeld, IsOffering, Stages
        <4>. QED
          BY <4>1, <4>2
      <3>3. IsCached(key[c])
        BY <2>7, NoResultFacts DEF Confirm, IInv, SettledWhileRecording, IsCached
      <3>4. \A b \in Batches : /\ cache'[b] = IF b = key[c] THEN r ELSE cache[b]
                               /\ IsCached(b)' = IsCached(b)
                               /\ LastOffer(b)' = LastOffer(b)
        BY <2>0, <2>7, <3>1, <3>3, NoResultFacts
           DEF Confirm, Return, IsCached, LastOffer, TypeOK
      <3>5. \A b \in Batches : PhaseOf(b)' = PhaseOf(b)
        BY <3>1, <3>2, <3>3, <3>4 DEF PhaseOf, IsCached
      <3>. QED
        BY <2>a, <3>4, <3>5
    <2>8. ASSUME NEW c \in Callers PROVE key[c] \in Batches
      BY <2>0 DEF TypeOK
    <2>. QED
      BY <2>1, <2>2, <2>3, <2>4, <2>5, <2>6, <2>7, <2>8 DEF StepKind, Ledger!LedgerNext
  <1>. QED
    BY Invariance, <1>1, <1>2, PTL DEF Spec, ImplementsLedger, Ledger!LedgerSpec

=============================================================================
