---------------------------- MODULE MCTrustyAiCycle ----------------------------
(* One request of every kind and variant, and pairs of requests.  Numbers are *)
(* below, at and above each bound; verdicts fit them or not; responses of     *)
(* every shape answer every request.                                          *)
EXTENDS TrustyAiCycle

MCDrift(value, isDetected) ==
    [status |-> "success", value |-> value, drift_detected |-> isDetected]
MCPValue(p, alpha, isDetected) ==
    [status |-> "success", value |-> 1, drift_detected |-> isDetected,
     p_value |-> p, alpha |-> alpha]
MCThreshold(value, isDetected) ==
    [status |-> "success", value |-> value, drift_detected |-> isDetected, threshold |-> 1]
MCJensenShannon(statistic, distance, divergence, isDetected) ==
    [status |-> "success", value |-> distance, drift_detected |-> isDetected,
     threshold |-> 1, statistic |-> statistic, distance |-> distance,
     divergence |-> divergence]
MCFairness(name, value, lower, upper, isOutside) ==
    [name |-> name, value |-> value, type |-> "metric", lower |-> lower, upper |-> upper,
     outside |-> isOutside]

MCResponses ==
    {MCDrift(1, FALSE), [MCThreshold(2, TRUE) EXCEPT !.status = "error"]}
    \union {MCPValue(p, a, d) : p \in 0 .. 3, a \in {1, 2}, d \in BOOLEAN}
    \union {MCThreshold(v, d) : v \in 0 .. 2, d \in BOOLEAN}
    \union {MCJensenShannon(s, x, y, d) :
        s \in {"distance", "divergence"}, x \in 0 .. 2, y \in {1, 2}, d \in BOOLEAN}
    \union {MCFairness(n, v, b[1], b[2], o) :
        n \in {"SPD", "DIR"}, v \in 0 .. 3, b \in {<<1, 2>>, <<2, 2>>, <<2, 1>>},
        o \in BOOLEAN}

MCRequest(kind, statistic) ==
    [kind |-> kind, endpoint |-> kind, model |-> "m", isIdentified |-> TRUE,
     metricName |-> <<>>, statistic |-> statistic]
MCPlain(kind) == MCRequest(kind, <<>>)
MCDivergence == MCRequest("jensenshannon", <<"divergence">>)
MCNamed(name) == [MCPlain("mmd") EXCEPT !.metricName = <<name>>]

MCHost(requests, isCorrelated) ==
    [requests |-> requests, isCorrelated |-> isCorrelated, confidence |-> 100,
     isTrusted |-> TRUE]
MCBase == MCHost(<<MCPlain("kstest")>>, FALSE)

MCHosts ==
    {MCHost(<<MCPlain(k)>>, FALSE) : k \in Kinds}
    \union {MCHost(<<r>>, FALSE) : r \in
        {MCDivergence, MCNamed("MMD"), MCNamed("SPD"),
         [MCPlain("mmd") EXCEPT !.isIdentified = FALSE],
         [MCPlain("mmd") EXCEPT !.endpoint = "kstest"]}}
    \union {[MCBase EXCEPT !.confidence = 99], [MCBase EXCEPT !.isTrusted = FALSE]}
    \union {MCHost(p, c) : c \in BOOLEAN, p \in
        {<<MCPlain("kstest"), MCPlain("spd")>>, <<MCPlain("kstest"), MCPlain("kstest")>>,
         <<MCDivergence, MCPlain("mmd")>>}}

MCNone == {}
MCConfiguredChecks == {"evidence-freshness"}
MCRuntimeNames == {"runtime-review-required"}
=============================================================================
