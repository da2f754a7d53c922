------------------------------ MODULE MCCycleGates ------------------------------
(* A small instance of the gates.  "dx" is an artifact outside every cycle,   *)
(* and among the answers of each port is one that each of its gates refuses.  *)
EXTENDS CycleGates

MCItem(id, artifact, expires) == [id |-> id, artifact |-> artifact, expires |-> expires]
MCCycles == {<<MCItem(1, "d1", 5)>>, <<MCItem(1, "d1", 9), MCItem(2, "d1", 7)>>}

MCRefs == {{"d1"}, {"dx"}}
MCPolicyAnswers ==
    [check : {"confidence", "adapter"}, allowed : BOOLEAN, refs : {{}, {"dx"}}]

MCConstraint(id, hard, ref) == [id |-> id, hard |-> hard, refs |-> {ref}]
MCConstraintValues ==
    {MCConstraint(1, TRUE, "d1"), MCConstraint(2, FALSE, "d1"), MCConstraint(3, TRUE, "dx")}
MCClassifierAnswers ==
    {<<>>, <<MCConstraint(3, TRUE, "dx")>>, <<MCConstraint(2, FALSE, "d1")>>,
     <<MCConstraint(1, TRUE, "d1")>>,
     <<MCConstraint(1, TRUE, "d1"), MCConstraint(2, FALSE, "d1")>>}

MCObjectives ==
    [weights : {[risk |-> 2, intervention |-> 1], [risk |-> 3]},
     constraints : {{1}, {2}, {1, 2}}, refs : MCRefs]

MCReview(constraints) ==
    [id |-> "r", action |-> "review", consequence |-> "medium", parameters |-> "queue",
     values |-> [risk |-> 4, intervention |-> 2], constraints |-> constraints,
     refs |-> {"d1"}]
MCHold ==
    [id |-> "h", action |-> "hold", consequence |-> "high", parameters |-> "subjects",
     values |-> [risk |-> 1, intervention |-> 9], constraints |-> {1}, refs |-> {"d1"}]
MCCandidates ==
    {MCReview({1}), MCReview({2}), MCReview({1, 2}), MCHold,
     [MCHold EXCEPT !.values = [risk |-> 1, intervention |-> 2]],
     [MCHold EXCEPT !.values = [risk |-> 1]],
     [MCHold EXCEPT !.consequence = "low"],
     [MCHold EXCEPT !.parameters = "queue"],
     [MCHold EXCEPT !.action = "merge"],
     [MCHold EXCEPT !.action = "erase"],
     [MCHold EXCEPT !.refs = {"dx"}]}
MCPlan(candidates, chosen) ==
    [candidates |-> candidates, selected |-> chosen.id,
     rejected |-> candidates \ {chosen}]
MCPlans ==
    {MCPlan({c}, c) : c \in MCCandidates}
        \union {MCPlan({p[1], p[2]}, p[1]) :
                    p \in {q \in MCCandidates \X MCCandidates : q[1].id # q[2].id}}

MCCheckAnswers ==
    [candidate : {"r", "h"}, check : {"freshness", "impact"}, survives : BOOLEAN,
     refs : MCRefs]

MCActions == {"review", "hold", "merge"}
MCAllowedConsequences ==
    [review |-> {"low", "medium"}, hold |-> {"high", "critical"}, merge |-> {"high"}]
MCSchemas == [review |-> {"queue"}, hold |-> {"subjects"}, merge |-> {"subjects"}]
MCRequiredChecks ==
    [review |-> <<"freshness">>, hold |-> <<"freshness", "impact">>,
     merge |-> <<"absent">>]
MCConfiguredChecks == {"freshness", "impact"}
=============================================================================
