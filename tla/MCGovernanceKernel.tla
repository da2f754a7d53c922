-------------------------- MODULE MCGovernanceKernel --------------------------
(* Small instances of the kernel: "good" passes its gates early on, "late"   *)
(* holds evidence that is fresh only later, "foreign" evidence of another    *)
(* scope, "twice" the same evidence id twice, "empty" none.  The check that  *)
(* "merge" requires is not configured.                                       *)
EXTENDS GovernanceKernel, TLC

MCItem(id, inScope, observed, expires) ==
    [id |-> id, correlation |-> 1, inScope |-> inScope,
     observed |-> observed, expires |-> expires]

MCEvidence ==
    [good    |-> <<MCItem(1, TRUE, 0, 2), MCItem(2, TRUE, 0, 3)>>,
     late    |-> <<MCItem(1, TRUE, 1, 4)>>,
     foreign |-> <<MCItem(1, FALSE, 0, 2)>>,
     twice   |-> <<MCItem(1, TRUE, 0, 2), MCItem(1, TRUE, 0, 2)>>,
     empty   |-> <<>>]

MCBatchGood == {"good"}
MCBatchesMixed == {"good", "late"}
MCBatchesAll == DOMAIN MCEvidence
MCRequiredChecks == [review |-> <<"freshness">>, hold |-> <<"freshness", "impact">>,
                     merge |-> <<"absent">>]
MCActions == {"review", "merge"}
MCActionsWithHold == {"review", "hold"}
MCConfiguredChecks == {"freshness", "impact"}
MCSymmetry == Permutations(Callers)
===============================================================================
