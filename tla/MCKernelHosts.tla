----------------------------- MODULE MCKernelHosts -----------------------------
(* Two loops of one process and a third: of a process of its own with its    *)
(* own cache, or with a cache that it shares and that outlives them both.    *)
(* The consumers differ in what they pin.                                    *)
EXTENDS KernelHosts, TLC

CONSTANTS l1, l2, l3, p, q, x, y, k1

MCProcessOf == (l1 :> p) @@ (l2 :> p) @@ (l3 :> q)
MCHost(ofP, ofQ, durable) ==
    [processOf |-> MCProcessOf, cacheOf |-> (p :> ofP) @@ (q :> ofQ), durable |-> durable]
MCHosts == {MCHost(x, y, {}), MCHost(x, y, {y}), MCHost(x, x, {x})}

MCWindows == [k \in Keys |-> {[observed |-> 0, expires |-> 3],
                              [observed |-> 1, expires |-> 4]}]
MCScopeOf == [k \in Keys |-> "orders"]
MCIdentity ==
    (p :> [keyId |-> "a", seed |-> 1, domain |-> "local"])
 @@ (q :> [keyId |-> "b", seed |-> 2, domain |-> "local"])
MCConsumers ==
    {[keyId |-> Anything, scope |-> Anything, domain |-> Anything, seed |-> 1],
     [keyId |-> "b", scope |-> "orders", domain |-> "local", seed |-> 2]}
===============================================================================
