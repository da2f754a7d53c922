------------------------------ MODULE KernelHosts ------------------------------
(***************************************************************************)
(* Kernels in more than one execution context: processes with several      *)
(* event loops, processes that restart, caches that several of them share. *)
(* The run lock of a kernel belongs to one event loop (kernel.py:150-203), *)
(* so a loop is in one cycle at a time, and nothing keeps two loops out of *)
(* the same cycle but what each reads from the replay cache.               *)
(*                                                                         *)
(* Of a cycle only what touches the cache and the sink is kept; the rest   *)
(* is in GovernanceKernel.  Clocks are wall clocks: a reading is any       *)
(* instant.  A package that has left the kernel may reach its consumer at  *)
(* any time and any number of times, from the sink or from the host that   *)
(* passes on a replayed result, so what the consumer accepts is a          *)
(* predicate of the package and the instant (SignedDecisionPackage.verify).*)
(***************************************************************************)
EXTENDS Integers, FiniteSets

CONSTANTS
    Processes,     \* processes, one kernel and one signer each
    Loops,         \* event loops
    Caches,        \* replay caches
    Hosts,         \* what runs where: the process of each loop, the cache that
                   \* each process was given, the caches that outlive a process
    Keys,          \* cycle keys
    Windows,       \* of each key, the validity windows of its evidence
    ScopeOf,       \* of each key
    Identity,      \* of each process: key id, signing seed and trust domain
    Consumers,     \* what consumers pass to verify
    Anything,      \* an expectation a consumer leaves out
    Ttl,           \* decision_ttl
    MaxTime,       \* bound: the last instant
    MaxAbandoned,  \* bound: cancelled proposals per loop and key
    MaxRestarts    \* bound: restarts of processes

(* The default cache is a dictionary of its process. *)
ASSUME HostsAssumption ==
    \A h \in Hosts :
        /\ h.processOf \in [Loops -> Processes]
        /\ h.cacheOf \in [Processes -> Caches]
        /\ h.durable \subseteq Caches
        /\ \A p, q \in Processes :
               p # q /\ h.cacheOf[p] = h.cacheOf[q] => h.cacheOf[p] \in h.durable
ASSUME WindowsAssumption ==
    /\ Keys # {}
    /\ \A k \in Keys : \A w \in Windows[k] : w.observed \in Nat /\ w.expires \in Nat
ASSUME NumbersAssumption ==
    {Ttl, MaxTime, MaxAbandoned, MaxRestarts} \subseteq Nat /\ Ttl > 0

VARIABLES
    host,       \* a member of Hosts
    cache,      \* of each cache and key, the result it holds
    stage,      \* how far each loop is in its cycle
    task,       \* the key, the instant now and the result of that cycle
    sent,       \* packages passed to a sink or a caller
    offers,     \* history: proposals of each loop and key while its cache lasts
    abandoned,  \* history: those that were cancelled or cut off in flight
    restarts

vars == <<host, cache, stage, task, sent, offers, abandoned, restarts>>

-----------------------------------------------------------------------------

Instants == 0 .. MaxTime
Statuses == {"rejected", "no_candidate", "proposed", "delivery_unknown"}
Packages == [key : Keys, from : Processes, created : Nat, expires : Nat]
NoPackage == [expires |-> 0]
Results == [status : Statuses, package : Packages \union {NoPackage}]
Open == [status |-> "open", package |-> NoPackage]
Tasks == [key : Keys, now : Nat,
          result : [status : Statuses \union {"open"}, package : Packages \union {NoPackage}]]

Stages == {"idle", "missed", "stale", "running", "offering", "recording"}

CacheUsed(l) == host.cacheOf[host.processOf[l]]
KeyOf(l) == task[l].key
IsOffering(l, k) == stage[l] = "offering" /\ KeyOf(l) = k

IsCachedOnlyIfProposed(x, k) == cache[x][k].status = "proposed"   \* mutant
IsCached(x, k) == cache[x][k] # Open

IsFresh(k, t) == \A w \in Windows[k] : w.observed <= t /\ t < w.expires

TtlOnly(k, t) == {t + Ttl}   \* mutant
Expiries(k, t) == {t + Ttl} \union {w.expires : w \in Windows[k]}

Goto(l, s) == stage' = [stage EXCEPT ![l] = s]
NoTask == [key |-> CHOOSE k \in Keys : TRUE, now |-> 0, result |-> Open]
End(l) == Goto(l, "idle") /\ task' = [task EXCEPT ![l] = NoTask]

PutUndecided(l, result) ==   \* mutant
    cache' = [cache EXCEPT ![CacheUsed(l)][KeyOf(l)] = [result EXCEPT !.status = "open"]]
Put(l, result) == cache' = [cache EXCEPT ![CacheUsed(l)][KeyOf(l)] = result]

-----------------------------------------------------------------------------
(* One cycle of a loop. *)

Replay(l, k) ==
    /\ stage[l] = "idle"
    /\ IsCached(CacheUsed(l), k)
    /\ sent' = sent \union ({cache[CacheUsed(l)][k].package} \ {NoPackage})
    /\ UNCHANGED <<host, cache, stage, task, offers, abandoned, restarts>>

Lookup(l, k) ==
    /\ stage[l] = "idle"
    /\ ~IsCached(CacheUsed(l), k)
    /\ Goto(l, "missed")
    /\ task' = [task EXCEPT ![l] = [key |-> k, now |-> 0, result |-> Open]]
    /\ UNCHANGED <<host, cache, sent, offers, abandoned, restarts>>

Begin(l, t) ==
    /\ stage[l] = "missed"
    /\ Goto(l, IF IsFresh(KeyOf(l), t) THEN "running" ELSE "stale")
    /\ task' = [task EXCEPT ![l].now = t]
    /\ UNCHANGED <<host, cache, sent, offers, abandoned, restarts>>

Refuse(l, verdict) ==
    /\ stage[l] \in {"stale", "running"}
    /\ stage[l] = "stale" => verdict = "rejected"
    /\ End(l)
    /\ Put(l, [status |-> verdict, package |-> NoPackage])
    /\ UNCHANGED <<host, sent, offers, abandoned, restarts>>

(* A port or recorder raises, or the call is cancelled, before the offer. *)
GiveUp(l) ==
    /\ stage[l] \in {"missed", "stale", "running"}
    /\ End(l)
    /\ UNCHANGED <<host, cache, sent, offers, abandoned, restarts>>

Offer(l) ==
    /\ stage[l] = "running"
    /\ Goto(l, "offering")
    /\ \E e \in Expiries(KeyOf(l), task[l].now) :
           /\ \A f \in Expiries(KeyOf(l), task[l].now) : e <= f
           /\ LET package == [key |-> KeyOf(l), from |-> host.processOf[l],
                              created |-> task[l].now, expires |-> e] IN
                  /\ sent' = sent \union {package}
                  /\ task' = [task EXCEPT ![l].result = [Open EXCEPT !.package = package]]
    /\ offers' = [offers EXCEPT ![l][KeyOf(l)] = @ + 1]
    /\ UNCHANGED <<host, cache, abandoned, restarts>>

Settle(l, status) ==
    /\ stage[l] = "offering"
    /\ Goto(l, "recording")
    /\ LET result == [status |-> status, package |-> task[l].result.package] IN
           /\ Put(l, result)
           /\ task' = [task EXCEPT ![l].result = result]
    /\ UNCHANGED <<host, sent, offers, abandoned, restarts>>

Abandon(l) ==
    /\ stage[l] = "offering"
    /\ abandoned[l][KeyOf(l)] < MaxAbandoned
    /\ End(l)
    /\ abandoned' = [abandoned EXCEPT ![l][KeyOf(l)] = @ + 1]
    /\ UNCHANGED <<host, cache, sent, offers, restarts>>

(* The result is put once more with its last receipts, or, cancelled or     *)
(* when an uncertain delivery could not be recorded, is left as it is.      *)
Finish(l) ==
    /\ stage[l] = "recording"
    /\ End(l)
    /\ Put(l, task[l].result) \/ UNCHANGED cache
    /\ UNCHANGED <<host, sent, offers, abandoned, restarts>>

(* A process stops at any point and starts again.  Its loops are gone, and  *)
(* so is the cache unless it is durable.                                    *)
Restart(p) ==
    /\ restarts < MaxRestarts
    /\ restarts' = restarts + 1
    /\ stage' = [l \in Loops |-> IF host.processOf[l] = p THEN "idle" ELSE stage[l]]
    /\ task' = [l \in Loops |-> IF host.processOf[l] = p THEN NoTask ELSE task[l]]
    /\ IF host.cacheOf[p] \in host.durable
       THEN /\ abandoned' = [l \in Loops |-> [k \in Keys |->
                   IF host.processOf[l] = p /\ IsOffering(l, k)
                   THEN abandoned[l][k] + 1 ELSE abandoned[l][k]]]
            /\ UNCHANGED <<cache, offers>>
       ELSE LET None == [k \in Keys |-> 0]
                Wiped(history) ==
                    [l \in Loops |-> IF host.processOf[l] = p THEN None ELSE history[l]]
            IN  /\ cache' = [cache EXCEPT ![host.cacheOf[p]] = [k \in Keys |-> Open]]
                /\ offers' = Wiped(offers)
                /\ abandoned' = Wiped(abandoned)
    /\ UNCHANGED <<host, sent>>

Init ==
    /\ host \in Hosts
    /\ cache = [x \in Caches |-> [k \in Keys |-> Open]]
    /\ stage = [l \in Loops |-> "idle"]
    /\ task = [l \in Loops |-> NoTask]
    /\ sent = {}
    /\ offers = [l \in Loops |-> [k \in Keys |-> 0]]
    /\ abandoned = [l \in Loops |-> [k \in Keys |-> 0]]
    /\ restarts = 0

Cycle(l) ==
    \/ \E k \in Keys : Replay(l, k) \/ Lookup(l, k)
    \/ \E t \in Instants : Begin(l, t)
    \/ \E verdict \in {"rejected", "no_candidate"} : Refuse(l, verdict)
    \/ GiveUp(l) \/ Offer(l)
    \/ \E status \in {"proposed", "delivery_unknown"} : Settle(l, status)
    \/ Abandon(l) \/ Finish(l)

Next == (\E l \in Loops : Cycle(l)) \/ (\E p \in Processes : Restart(p))

Spec == Init /\ [][Next]_vars

-----------------------------------------------------------------------------
(* SignedDecisionPackage.verify, as a consumer calls it at an instant.      *)

NotExpired(package, t) == t < package.expires   \* mutant
IsCurrent(package, t) == package.created <= t /\ t < package.expires

IsVerified(package, consumer, t) ==
    LET signer == Identity[package.from] IN
    /\ consumer.keyId \in {Anything, signer.keyId}
    /\ consumer.scope \in {Anything, ScopeOf[package.key]}
    /\ consumer.domain \in {Anything, signer.domain}
    /\ IsCurrent(package, t)
    /\ consumer.seed = signer.seed

-----------------------------------------------------------------------------
(* The type invariant (KernelResult, SignedDecisionPackage). *)
TypeOK ==
    /\ host \in Hosts
    /\ cache \in [Caches -> [Keys -> Results \union {Open}]]
    /\ stage \in [Loops -> Stages]
    /\ task \in [Loops -> Tasks]
    /\ sent \subseteq Packages
    /\ offers \in [Loops -> [Keys -> Nat]]
    /\ abandoned \in [Loops -> [Keys -> Nat]]
    /\ restarts \in Nat

(* "Serializing each kernel instance prevents concurrent retries from       *)
(* delivering the same proposal twice" (kernel.py:197-200) is true of each  *)
(* event loop: whatever other loops and processes write to the same cache,  *)
(* a loop proposes a key again only after a cancelled or interrupted        *)
(* proposal, as long as the cache lasts.                                    *)
OncePerLoop ==
    \A l \in Loops, k \in Keys : offers[l][k] <= abandoned[l][k] + 1

(* A loop that has its cache to itself keeps the whole promise of the       *)
(* ledger, across restarts too if the cache is durable; if it is not, a     *)
(* restart begins a new ledger (kernel.py:61-72, docs/architecture.md:103). *)
PhaseOf(l) ==
    [k \in Keys |-> IF IsOffering(l, k) THEN "offered" ELSE cache[CacheUsed(l)][k].status]

Ledger(l) == INSTANCE ProposalLedger WITH
    MayAbandon <- TRUE, phase <- PhaseOf(l), offers <- offers[l]

IsAlone(l) == \A other \in Loops : CacheUsed(other) = CacheUsed(l) => other = l

LoneLoopsKeepLedgers ==
    [][\A l \in Loops : IsAlone(l) =>
           \/ Ledger(l)!LedgerNext
           \/ CacheUsed(l) \notin host.durable /\ (Ledger(l)!LedgerInit)'
           \/ UNCHANGED <<PhaseOf(l), offers[l]>>]_vars

(* A package is replayed long after it was made, and its consumer knows     *)
(* neither the evidence nor decision_ttl: what verify accepts at an instant *)
(* is within every evidence window and within the ttl at that instant       *)
(* (kernel.py:445-448, contracts.py:406-413).                               *)
VerifiedIsCurrent ==
    \A package \in sent, consumer \in Consumers, t \in Instants :
        IsVerified(package, consumer, t) =>
            /\ IsFresh(package.key, t)
            /\ t < package.created + Ttl

=============================================================================
