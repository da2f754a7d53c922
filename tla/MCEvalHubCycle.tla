---------------------------- MODULE MCEvalHubCycle ----------------------------
(* Jobs of every state and test result, with no, some and all benchmarks      *)
(* pinned, updated before, at and after the times the host lives through.     *)
(* Hosts trust the hub they ask, another one, or a URL above, at, below or    *)
(* beside the jobs they ask for, and run a cycle of the scope or another.     *)
EXTENDS EvalHubCycle

MCBenchmark(id, oci) == [id |-> id, oci |-> oci]
MCOne(oci) == <<MCBenchmark("b1", oci)>>
MCTwo(first, second) == <<MCBenchmark("b1", first), MCBenchmark("b2", second)>>

MCJob(resource, state, test, benchmarks, updated) ==
    [resource |-> resource, state |-> state, test |-> test, benchmarks |-> benchmarks,
     updated |-> updated, collection |-> resource = "j1", wellFormed |-> TRUE,
     inTenant |-> TRUE, hasResults |-> state # "failed" \/ benchmarks # <<>>,
     raw |-> <<resource, state, test>> \o
                 FlattenSeq([i \in DOMAIN benchmarks |-> <<benchmarks[i].oci>>])]
MCBase == MCJob("j1", "completed", "pass", MCOne("o1"), 1)
MCUnfit ==
    {MCJob("j1", "running", "none", <<>>, 1),
     MCJob("j1", "completed", "pass", MCOne("invalid"), 1),
     [MCBase EXCEPT !.wellFormed = FALSE], [MCBase EXCEPT !.inTenant = FALSE],
     [MCBase EXCEPT !.hasResults = FALSE, !.benchmarks = <<>>]}

(* Two jobs, all benchmarks of some shapes, updated while the host runs. *)
MCJobs ==
    MCUnfit \union
    {MCJob(r, s, t, b, 1) :
        r \in {"j1", "j2"}, s \in Terminal, t \in {"none", "pass", "fail"},
        b \in {<<>>, MCOne("none"), MCOne("o1"), MCTwo("o1", "none"), MCTwo("o1", "o2")}}

(* One job, verified: shared and distinct artifacts, updated early or late. *)
MCVerifiedJobs ==
    MCUnfit \union
    {MCJob("j1", s, t, b, u) :
        s \in Terminal, t \in {"none", "pass", "fail"},
        b \in {<<>>, MCOne("o1"), MCTwo("o1", "o1"), MCTwo("o1", "o2"), MCTwo("o1", "none")},
        u \in 0 .. 3}

(* Hosts of two jobs, and of one job that they have verified or not. *)
MCHubs ==
    [any |-> MCJobs, pinned |-> MCVerifiedJobs,
     passing |-> {MCBase, MCJob("j2", "completed", "pass", MCOne("o2"), 1)}]
MCHost(requests, hub, isCorrelated, isVerifying, requiresVerified) ==
    [requests |-> requests, hub |-> hub, isCorrelated |-> isCorrelated,
     source |-> <<"hub">>, trusted |-> <<"hub">>, scope |-> "staging", cycle |-> "staging",
     confidence |-> 100, isVerifying |-> isVerifying,
     requiresOci |-> TRUE, requiresVerified |-> requiresVerified]
MCJobsUrl == <<"hub", "api", "v1", "evaluations", "jobs">>
MCTrustedUrls ==
    {<<"hub.example">>, <<"hub", "ap">>, <<"hub", "api">>, MCJobsUrl,
     Append(MCJobsUrl, 1), Append(MCJobsUrl, 2), MCJobsUrl \o <<1, "events">>}
MCHosts ==
    {MCHost(2, "any", TRUE, FALSE, FALSE), MCHost(2, "any", FALSE, FALSE, FALSE),
     MCHost(1, "pinned", FALSE, TRUE, TRUE), MCHost(1, "pinned", FALSE, FALSE, TRUE),
     [MCHost(1, "any", FALSE, FALSE, FALSE) EXCEPT !.requiresOci = FALSE],
     [MCHost(1, "any", FALSE, FALSE, FALSE) EXCEPT !.confidence = 99],
     [MCHost(1, "any", FALSE, FALSE, FALSE) EXCEPT !.cycle = "production"],
     [MCHost(1, "any", FALSE, FALSE, FALSE) EXCEPT !.source = <<"hub", "mirror">>,
                                                   !.trusted = MCJobsUrl],
     [MCHost(2, "passing", TRUE, FALSE, FALSE) EXCEPT !.trusted = Append(MCJobsUrl, 1)]}
        \union {[MCHost(1, "any", FALSE, FALSE, FALSE) EXCEPT !.trusted = url] :
                    url \in MCTrustedUrls}

MCNone == {}
MCConfiguredChecks == {"evidence-freshness"}
MCPromotionNames == {"promotion-review-required"}
MCTrusted == {"oci-distribution"}
MCReceipts ==
    {[verifier |-> "oci-distribution", hasContent |-> TRUE],
     [verifier |-> "oci-distribution", hasContent |-> FALSE],
     [verifier |-> "other", hasContent |-> TRUE]}
=============================================================================
