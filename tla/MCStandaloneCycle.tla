--------------------------- MODULE MCStandaloneCycle ---------------------------
(* Every cycle of one to three envelopes over three artifact digests, a       *)
(* confidence at or below the floor, and every measurement status.            *)
EXTENDS StandaloneCycle

MCItem(id, artifact, confidence, status) ==
    [id |-> id, artifact |-> artifact, confidence |-> confidence, status |-> status,
     subject |-> "model", observed |-> 0, expires |-> 5]
MCItems(id) ==
    {MCItem(id, a, c, s) : a \in {"d1", "d2", "d3"}, c \in {79, 80},
                           s \in {"passed", "failed", "warning", "unknown"}}
MCCycles ==
    {<<x>> : x \in MCItems(1)}
        \union {<<x, y>> : x \in MCItems(1), y \in MCItems(2)}
        \union {<<x, y, z>> : x \in MCItems(1), y \in MCItems(2),
                              z \in {m \in MCItems(3) : m.confidence = 80}}
MCReviewNames == {"review-required"}
MCOtherNames == {"promotion-review-required"}
MCConfiguredChecks == {"evidence-freshness"}
MCNone == {}
=============================================================================
