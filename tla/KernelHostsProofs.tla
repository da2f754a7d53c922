--------------------------- MODULE KernelHostsProofs ---------------------------
(***************************************************************************)
(* What holds of any number of processes, loops, caches and keys, whatever *)
(* runs where.  That a loop proposes a key once rests on what it knows of  *)
(* the key from the moment it found it undecided (Accounted), although     *)
(* other loops may decide that key, and decide it again, in the meantime.  *)
(* That a verified package is current rests on every package that anybody  *)
(* holds being one that was sent (Traced), made at an instant when its     *)
(* evidence was fresh and expiring with the first of it (Faithful).        *)
(***************************************************************************)
EXTENDS KernelHosts, TLAPS

USE HostsAssumption, WindowsAssumption, NumbersAssumption

(* The loop has found the key undecided and has not proposed it yet. *)
IsDeciding(l, k) == stage[l] \in {"missed", "stale", "running"} /\ KeyOf(l) = k

AccountedAt(l, k) ==
    /\ offers[l][k] <= abandoned[l][k] + 1
    /\ IsOffering(l, k) => offers[l][k] = abandoned[l][k] + 1
    /\ IsDeciding(l, k) => offers[l][k] = abandoned[l][k]
    /\ ~IsOffering(l, k) /\ ~IsCached(CacheUsed(l), k) => offers[l][k] = abandoned[l][k]

Accounted == \A l \in Loops, k \in Keys : AccountedAt(l, k)

SettledIsResult ==
    \A l \in Loops : stage[l] = "recording" => task[l].result.status \in Statuses

Faithful(package) ==
    /\ package.expires <= package.created + Ttl
    /\ \A w \in Windows[package.key] :
           w.observed <= package.created /\ package.expires <= w.expires

Traced ==
    /\ \A package \in sent : Faithful(package)
    /\ \A l \in Loops : task[l].result.package \in sent \union {NoPackage}
    /\ \A x \in Caches, k \in Keys : cache[x][k].package \in sent \union {NoPackage}
    /\ \A l \in Loops : stage[l] = "running" => IsFresh(KeyOf(l), task[l].now)

(* The inductive invariant. *)
IInv == TypeOK /\ SettledIsResult /\ Accounted /\ Traced

-----------------------------------------------------------------------------

LEMMA TableUpdate ==
    ASSUME NEW A, NEW B, NEW C, NEW f \in [A -> [B -> C]],
           NEW a \in A, NEW b \in B, NEW c \in C
    PROVE  LET g == [f EXCEPT ![a][b] = c] IN
           /\ g \in [A -> [B -> C]]
           /\ \A i \in A, j \in B :
                  g[i][j] = IF i = a /\ j = b THEN c ELSE f[i][j]
  <1> DEFINE row == [f[a] EXCEPT ![b] = c]
             g == [f EXCEPT ![a] = row]
  <1>1. row \in [B -> C] /\ \A j \in B : row[j] = IF j = b THEN c ELSE f[a][j]
    OBVIOUS
  <1> HIDE DEF row
  <1>2. g \in [A -> [B -> C]] /\ \A i \in A : g[i] = IF i = a THEN row ELSE f[i]
    BY <1>1
  <1>3. \A i \in A, j \in B : g[i][j] = IF i = a /\ j = b THEN c ELSE f[i][j]
    BY <1>1, <1>2
  <1> QED BY <1>2, <1>3 DEF row

LEMMA HostFacts ==
    ASSUME TypeOK, NEW l \in Loops
    PROVE  /\ host.processOf[l] \in Processes
           /\ CacheUsed(l) \in Caches
  BY DEF TypeOK, CacheUsed

LEMMA OpenFacts ==
    /\ Open \notin Results
    /\ Open.package = NoPackage
    /\ Open.status = "open"
    /\ NoTask \in Tasks
    /\ NoTask.result = Open
  <1>1. Open.package = NoPackage /\ Open.status = "open"
    BY DEF Open
  <1>2. Open \notin Results
    BY DEF Open, Results, Statuses
  <1>3. NoTask \in Tasks /\ NoTask.result = Open
    <2>1. (CHOOSE k \in Keys : TRUE) \in Keys
      OBVIOUS
    <2> QED BY <2>1 DEF NoTask, Tasks, Open
  <1> QED BY <1>1, <1>2, <1>3

LEMMA TaskFacts ==
    ASSUME TypeOK, NEW l \in Loops
    PROVE  /\ task[l] \in Tasks
           /\ KeyOf(l) \in Keys
           /\ task[l].now \in Nat
           /\ task[l].result.status \in Statuses \union {"open"}
           /\ task[l].result.package \in Packages \union {NoPackage}
           /\ task[l].result = [status |-> task[l].result.status,
                                package |-> task[l].result.package]
  BY DEF TypeOK, Tasks, KeyOf

(* The package that Offer builds from a fresh reading of the clock. *)
LEMMA MadePackage ==
    ASSUME NEW k \in Keys, NEW f \in Processes, NEW t \in Nat, NEW e \in Expiries(k, t),
           \A other \in Expiries(k, t) : e <= other
    PROVE  LET package == [key |-> k, from |-> f, created |-> t, expires |-> e] IN
           /\ package \in Packages
           /\ IsFresh(k, t) => Faithful(package)
  <1> DEFINE package == [key |-> k, from |-> f, created |-> t, expires |-> e]
  <1>1. \A other \in Expiries(k, t) : other \in Nat
    BY DEF Expiries
  <1>2. t + Ttl \in Expiries(k, t) /\ \A w \in Windows[k] : w.expires \in Expiries(k, t)
    BY DEF Expiries
  <1>3. package \in Packages
    BY <1>1 DEF Packages
  <1>4. ASSUME IsFresh(k, t) PROVE Faithful(package)
    BY <1>2, <1>4 DEF Faithful, IsFresh
  <1> QED BY <1>3, <1>4

-----------------------------------------------------------------------------

LEMMA InitIInv == Init => IInv
  <1> SUFFICES ASSUME Init PROVE IInv
    OBVIOUS
  <1> USE OpenFacts
  <1>1. TypeOK
    BY DEF Init, TypeOK, Stages
  <1>2. SettledIsResult
    BY DEF Init, SettledIsResult
  <1>3. Accounted
    BY DEF Init, Accounted, AccountedAt, IsOffering, IsDeciding
  <1>4. Traced
    BY DEF Init, Traced
  <1> QED BY <1>1, <1>2, <1>3, <1>4 DEF IInv

LEMMA TypeStep ==
    ASSUME TypeOK, SettledIsResult, [Next]_vars
    PROVE  TypeOK' /\ SettledIsResult'
  <1> USE OpenFacts DEF TypeOK, SettledIsResult, Stages
  <1>1. ASSUME NEW l \in Loops, NEW k \in Keys, Replay(l, k)
        PROVE  TypeOK' /\ SettledIsResult'
    <2>1. cache[CacheUsed(l)][k].package \in Packages \union {NoPackage}
      BY HostFacts DEF Results, Open
    <2> QED BY <1>1, <2>1 DEF Replay
  <1>2. ASSUME NEW l \in Loops, NEW k \in Keys, Lookup(l, k)
        PROVE  TypeOK' /\ SettledIsResult'
    <2>1. [key |-> k, now |-> 0, result |-> Open] \in Tasks
      BY DEF Tasks, Open
    <2> QED BY <1>2, <2>1 DEF Lookup, Goto
  <1>3. ASSUME NEW l \in Loops, NEW t \in Instants, Begin(l, t)
        PROVE  TypeOK' /\ SettledIsResult'
    <2>1. t \in Nat /\ task[l] \in Tasks
      BY DEF Instants
    <2>2. [task[l] EXCEPT !.now = t] \in Tasks
      BY <2>1 DEF Tasks
    <2>3. task' = [task EXCEPT ![l] = [task[l] EXCEPT !.now = t]]
      BY <1>3 DEF Begin
    <2> QED BY <1>3, <2>2, <2>3 DEF Begin, Goto
  <1>4. ASSUME NEW l \in Loops, NEW verdict \in {"rejected", "no_candidate"},
               Refuse(l, verdict)
        PROVE  TypeOK' /\ SettledIsResult'
    <2>1. [status |-> verdict, package |-> NoPackage] \in Results
      BY DEF Results, Statuses
    <2> QED BY <1>4, <2>1, HostFacts, TaskFacts DEF Refuse, Put, End, Goto
  <1>5. ASSUME NEW l \in Loops, GiveUp(l) PROVE TypeOK' /\ SettledIsResult'
    BY <1>5 DEF GiveUp, End, Goto
  <1>6. ASSUME NEW l \in Loops, Offer(l) PROVE TypeOK' /\ SettledIsResult'
    <2>1. PICK e \in Expiries(KeyOf(l), task[l].now) :
              /\ \A f \in Expiries(KeyOf(l), task[l].now) : e <= f
              /\ LET package == [key |-> KeyOf(l), from |-> host.processOf[l],
                                 created |-> task[l].now, expires |-> e] IN
                     /\ sent' = sent \union {package}
                     /\ task' = [task EXCEPT ![l].result = [Open EXCEPT !.package = package]]
      BY <1>6 DEF Offer
    <2> DEFINE package == [key |-> KeyOf(l), from |-> host.processOf[l],
                           created |-> task[l].now, expires |-> e]
    <2>2. package \in Packages
      BY <2>1, MadePackage, HostFacts, TaskFacts
    <2>3. [task[l] EXCEPT !.result = [Open EXCEPT !.package = package]] \in Tasks
      BY <2>2, TaskFacts DEF Tasks, Open
    <2>4. task' = [task EXCEPT ![l] =
                      [task[l] EXCEPT !.result = [Open EXCEPT !.package = package]]]
      BY <2>1
    <2> HIDE DEF package
    <2>5. task' \in [Loops -> Tasks] /\ sent' \subseteq Packages
      BY <2>1, <2>2, <2>3, <2>4 DEF package
    <2>6. offers' \in [Loops -> [Keys -> Nat]]
      <3> DEFINE key == KeyOf(l)
      <3>0. key \in Keys
        BY TaskFacts
      <3> HIDE DEF key
      <3>1. offers[l][key] + 1 \in Nat
        BY <3>0
      <3>2. offers' = [offers EXCEPT ![l][key] = offers[l][key] + 1]
        BY <1>6 DEF Offer, key
      <3> QED BY <3>0, <3>1, <3>2, TableUpdate
    <2> QED BY <1>6, <2>5, <2>6, <2>4 DEF Offer, Goto
  <1>7. ASSUME NEW l \in Loops, NEW status \in {"proposed", "delivery_unknown"},
               Settle(l, status)
        PROVE  TypeOK' /\ SettledIsResult'
    <2> DEFINE result == [status |-> status, package |-> task[l].result.package]
    <2>1. result \in Results
      BY TaskFacts DEF Results, Statuses
    <2>2. [task[l] EXCEPT !.result = result] \in Tasks
      BY <2>1, TaskFacts DEF Tasks, Results
    <2>3. task' = [task EXCEPT ![l] = [task[l] EXCEPT !.result = result]]
      BY <1>7 DEF Settle
    <2>4. cache' \in [Caches -> [Keys -> Results \union {Open}]]
      BY <1>7, <2>1, HostFacts, TaskFacts DEF Settle, Put
    <2>5. result.status \in Statuses
      BY DEF Statuses
    <2> HIDE DEF result
    <2>6. task' \in [Loops -> Tasks]
      BY <2>2, <2>3
    <2>7. task'[l].result = result /\ \A o \in Loops \ {l} : task'[o] = task[o]
      BY <2>3, TaskFacts DEF Tasks
    <2>8. stage' \in [Loops -> Stages] /\ \A o \in Loops \ {l} : stage'[o] = stage[o]
      BY <1>7 DEF Settle, Goto
    <2>9. SettledIsResult'
      BY <2>5, <2>7, <2>8
    <2> QED BY <1>7, <2>4, <2>6, <2>8, <2>9 DEF Settle
  <1>8. ASSUME NEW l \in Loops, Abandon(l) PROVE TypeOK' /\ SettledIsResult'
    <2> DEFINE key == KeyOf(l)
    <2>0. key \in Keys
      BY TaskFacts
    <2> HIDE DEF key
    <2>1. abandoned[l][key] + 1 \in Nat
      BY <2>0
    <2>2. abandoned' = [abandoned EXCEPT ![l][key] = abandoned[l][key] + 1]
      BY <1>8 DEF Abandon, key
    <2>3. abandoned' \in [Loops -> [Keys -> Nat]]
      BY <2>0, <2>1, <2>2, TableUpdate
    <2> QED BY <1>8, <2>3 DEF Abandon, End, Goto
  <1>9. ASSUME NEW l \in Loops, Finish(l) PROVE TypeOK' /\ SettledIsResult'
    <2>1. task[l].result \in Results
      <3>1. task[l].result.status \in Statuses
        BY <1>9 DEF Finish
      <3>2. [status |-> task[l].result.status, package |-> task[l].result.package] \in Results
        BY <3>1, TaskFacts DEF Results
      <3> QED BY <3>2, TaskFacts
    <2>2. cache' \in [Caches -> [Keys -> Results \union {Open}]]
      <3>1. CASE Put(l, task[l].result)
        <4>1. KeyOf(l) \in Keys /\ CacheUsed(l) \in Caches
          BY HostFacts, TaskFacts
        <4> QED BY <2>1, <3>1, <4>1 DEF Put
      <3> QED BY <1>9, <3>1 DEF Finish
    <2> QED BY <1>9, <2>2 DEF Finish, End, Goto
  <1>10. ASSUME NEW p \in Processes, Restart(p) PROVE TypeOK' /\ SettledIsResult'
    <2>1. /\ stage' \in [Loops -> Stages] /\ task' \in [Loops -> Tasks]
          /\ host' \in Hosts /\ sent' \subseteq Packages /\ restarts' \in Nat
          /\ SettledIsResult'
      BY <1>10 DEF Restart
    <2>2. /\ cache' \in [Caches -> [Keys -> Results \union {Open}]]
          /\ offers' \in [Loops -> [Keys -> Nat]]
          /\ abandoned' \in [Loops -> [Keys -> Nat]]
      <3>1. CASE host.cacheOf[p] \in host.durable
        <4>1. abandoned' \in [Loops -> [Keys -> Nat]]
          BY <1>10, <3>1 DEF Restart
        <4> QED BY <1>10, <3>1, <4>1 DEF Restart
      <3>2. CASE host.cacheOf[p] \notin host.durable
        BY <1>10, <3>2 DEF Restart
      <3> QED BY <3>1, <3>2
    <2> QED BY <2>1, <2>2
  <1>11. CASE UNCHANGED vars
    BY <1>11 DEF vars
  <1> QED
    BY <1>1, <1>2, <1>3, <1>4, <1>5, <1>6, <1>7, <1>8, <1>9, <1>10, <1>11 DEF Next, Cycle

(* What a step does that proposes nothing of a loop and a key. *)
LEMMA KeptAccount ==
    ASSUME NEW l \in Loops, NEW k \in Keys, AccountedAt(l, k),
           UNCHANGED <<offers[l][k], abandoned[l][k]>>,
           IsOffering(l, k)' <=> IsOffering(l, k),
           IsDeciding(l, k)' => \/ IsDeciding(l, k)
                                \/ ~IsOffering(l, k) /\ ~IsCached(CacheUsed(l), k),
           ~IsCached(CacheUsed(l), k)' => ~IsCached(CacheUsed(l), k)
    PROVE  AccountedAt(l, k)'
  BY DEF AccountedAt

(* Put decides keys and never reopens one. *)
LEMMA PutDecides ==
    ASSUME TypeOK, NEW l \in Loops, NEW result \in Results, Put(l, result),
           UNCHANGED host
    PROVE  \A x \in Caches, k \in Keys :
               /\ ~IsCached(x, k)' => ~IsCached(x, k)
               /\ x = CacheUsed(l) /\ k = KeyOf(l) => IsCached(x, k)'
  <1>1. CacheUsed(l) \in Caches /\ KeyOf(l) \in Keys /\ CacheUsed(l)' = CacheUsed(l)
    BY HostFacts, TaskFacts DEF CacheUsed
  <1>2. cache \in [Caches -> [Keys -> Results \union {Open}]]
    BY DEF TypeOK
  <1>3. result # Open
    BY OpenFacts
  <1>4. \A x \in Caches, k \in Keys :
            cache'[x][k] = IF x = CacheUsed(l) /\ k = KeyOf(l) THEN result ELSE cache[x][k]
    <2> HIDE DEF Results
    <2> QED BY <1>1, <1>2, TableUpdate DEF Put
  <1> QED BY <1>1, <1>3, <1>4 DEF IsCached

LEMMA AccountedStep ==
    ASSUME TypeOK, SettledIsResult, Accounted, [Next]_vars
    PROVE  Accounted'
  <1> SUFFICES ASSUME NEW m \in Loops, NEW j \in Keys PROVE AccountedAt(m, j)'
    BY DEF Accounted
  <1>0. AccountedAt(m, j) /\ CacheUsed(m) \in Caches
    BY HostFacts DEF Accounted
  <1>1. ASSUME NEW l \in Loops, NEW k \in Keys, Replay(l, k) PROVE AccountedAt(m, j)'
    BY <1>0, <1>1 DEF Replay, AccountedAt, IsOffering, IsDeciding, IsCached, CacheUsed, KeyOf
  <1>2. ASSUME NEW l \in Loops, NEW k \in Keys, Lookup(l, k) PROVE AccountedAt(m, j)'
    <2>1. /\ UNCHANGED <<host, cache, offers, abandoned>>
          /\ stage[l] = "idle" /\ ~IsCached(CacheUsed(l), k)
          /\ stage'[l] = "missed" /\ task'[l].key = k
          /\ l # m => stage'[m] = stage[m] /\ task'[m] = task[m]
      BY <1>2 DEF Lookup, Goto, TypeOK
    <2>2. /\ (IsOffering(m, j)' <=> IsOffering(m, j))
          /\ IsDeciding(m, j)' => \/ IsDeciding(m, j)
                                  \/ ~IsOffering(m, j) /\ ~IsCached(CacheUsed(m), j)
      BY <2>1 DEF IsOffering, IsDeciding, KeyOf
    <2>3. IsCached(CacheUsed(m), j)' = IsCached(CacheUsed(m), j)
      BY <2>1 DEF IsCached, CacheUsed
    <2> QED BY <1>0, <2>1, <2>2, <2>3, KeptAccount
  <1>3. ASSUME NEW l \in Loops, NEW t \in Instants, Begin(l, t) PROVE AccountedAt(m, j)'
    <2>1. /\ UNCHANGED <<host, cache, offers, abandoned>>
          /\ stage[l] = "missed" /\ stage'[l] \in {"running", "stale"}
          /\ l # m => stage'[m] = stage[m]
          /\ task'[m].key = task[m].key
      BY <1>3 DEF Begin, Goto, TypeOK, Tasks
    <2>2. (IsOffering(m, j)' <=> IsOffering(m, j)) /\ IsDeciding(m, j)' = IsDeciding(m, j)
      BY <2>1 DEF IsOffering, IsDeciding, KeyOf
    <2>3. IsCached(CacheUsed(m), j)' = IsCached(CacheUsed(m), j)
      BY <2>1 DEF IsCached, CacheUsed
    <2> QED BY <1>0, <2>1, <2>2, <2>3, KeptAccount
  <1>4. ASSUME NEW l \in Loops, NEW verdict \in {"rejected", "no_candidate"},
               Refuse(l, verdict)
        PROVE  AccountedAt(m, j)'
    <2>1. /\ UNCHANGED <<host, offers, abandoned>>
          /\ stage[l] \in {"stale", "running"} /\ stage'[l] = "idle"
          /\ l # m => stage'[m] = stage[m] /\ task'[m] = task[m]
      BY <1>4 DEF Refuse, End, Goto, TypeOK
    <2>2. (IsOffering(m, j)' <=> IsOffering(m, j)) /\ (IsDeciding(m, j)' => IsDeciding(m, j))
      BY <2>1 DEF IsOffering, IsDeciding, KeyOf
    <2>3. [status |-> verdict, package |-> NoPackage] \in Results
      BY DEF Results, Statuses
    <2>4. CacheUsed(m)' = CacheUsed(m)
      BY <2>1 DEF CacheUsed
    <2>5. ~IsCached(CacheUsed(m), j)' => ~IsCached(CacheUsed(m), j)
      BY <1>0, <1>4, <2>1, <2>3, <2>4, PutDecides DEF Refuse, IsCached
    <2> QED BY <1>0, <2>1, <2>2, <2>5, KeptAccount
  <1>5. ASSUME NEW l \in Loops, GiveUp(l) PROVE AccountedAt(m, j)'
    <2>1. /\ UNCHANGED <<host, cache, offers, abandoned>>
          /\ stage[l] \in {"missed", "stale", "running"} /\ stage'[l] = "idle"
          /\ l # m => stage'[m] = stage[m] /\ task'[m] = task[m]
      BY <1>5 DEF GiveUp, End, Goto, TypeOK
    <2>2. (IsOffering(m, j)' <=> IsOffering(m, j)) /\ (IsDeciding(m, j)' => IsDeciding(m, j))
      BY <2>1 DEF IsOffering, IsDeciding, KeyOf
    <2>3. IsCached(CacheUsed(m), j)' = IsCached(CacheUsed(m), j)
      BY <2>1 DEF IsCached, CacheUsed
    <2> QED BY <1>0, <2>1, <2>2, <2>3, KeptAccount
  <1>6. ASSUME NEW l \in Loops, Offer(l) PROVE AccountedAt(m, j)'
    <2>1. /\ UNCHANGED <<host, cache, abandoned>>
          /\ stage[l] = "running" /\ stage'[l] = "offering"
          /\ l # m => stage'[m] = stage[m]
          /\ task'[m].key = task[m].key
      BY <1>6 DEF Offer, Goto, TypeOK, Tasks
    <2> DEFINE key == KeyOf(l)
    <2>2. key \in Keys /\ offers' = [offers EXCEPT ![l][key] = offers[l][key] + 1]
      BY <1>6, TaskFacts DEF Offer
    <2>3. /\ abandoned[l][key] \in Nat /\ offers \in [Loops -> [Keys -> Nat]]
          /\ AccountedAt(l, key)
      BY <2>2 DEF TypeOK, Accounted
    <2>4. offers'[m][j] = IF m = l /\ j = key THEN offers[m][j] + 1 ELSE offers[m][j]
      <3> HIDE DEF key
      <3> QED BY <2>2, <2>3
    <2>5. CASE m = l /\ j = key
      <3>1. IsDeciding(m, j) /\ IsOffering(m, j)'
        BY <2>1, <2>5 DEF IsDeciding, IsOffering, KeyOf
      <3>2. ~IsDeciding(m, j)'
        BY <2>1, <2>5 DEF IsDeciding
      <3> QED BY <2>1, <2>3, <2>4, <2>5, <3>1, <3>2 DEF AccountedAt
    <2>6. CASE ~(m = l /\ j = key)
      <3>1. (IsOffering(m, j)' <=> IsOffering(m, j)) /\ (IsDeciding(m, j)' => IsDeciding(m, j))
        BY <2>1, <2>6 DEF IsOffering, IsDeciding, KeyOf
      <3>2. IsCached(CacheUsed(m), j)' = IsCached(CacheUsed(m), j)
        BY <2>1 DEF IsCached, CacheUsed
      <3> QED BY <1>0, <2>1, <2>4, <2>6, <3>1, <3>2, KeptAccount
    <2> QED BY <2>5, <2>6
  <1>7. ASSUME NEW l \in Loops, NEW status \in {"proposed", "delivery_unknown"},
               Settle(l, status)
        PROVE  AccountedAt(m, j)'
    <2>1. /\ UNCHANGED <<host, offers, abandoned>>
          /\ stage[l] = "offering" /\ stage'[l] = "recording"
          /\ l # m => stage'[m] = stage[m]
          /\ task'[m].key = task[m].key
      BY <1>7 DEF Settle, Goto, TypeOK, Tasks
    <2>2. [status |-> status, package |-> task[l].result.package] \in Results
      BY TaskFacts DEF Results, Statuses
    <2>3. CacheUsed(m)' = CacheUsed(m)
      BY <2>1 DEF CacheUsed
    <2>4. /\ ~IsCached(CacheUsed(m), j)' => ~IsCached(CacheUsed(m), j)
          /\ m = l /\ j = KeyOf(l) => IsCached(CacheUsed(m), j)'
      BY <1>0, <1>7, <2>1, <2>2, <2>3, PutDecides DEF Settle, IsCached
    <2>5. /\ ~IsDeciding(m, j)' \/ IsDeciding(m, j)
          /\ IsOffering(m, j)' <=> (IsOffering(m, j) /\ m # l)
      BY <2>1 DEF IsOffering, IsDeciding, KeyOf
    <2>6. CASE m = l /\ j = KeyOf(l)
      <3>1. ~IsDeciding(m, j)'
        BY <2>1, <2>6 DEF IsDeciding
      <3> QED BY <1>0, <2>1, <2>4, <2>5, <2>6, <3>1 DEF AccountedAt
    <2>7. CASE ~(m = l /\ j = KeyOf(l))
      <3>1. (IsOffering(m, j)' <=> IsOffering(m, j))
        BY <2>1, <2>5, <2>7 DEF IsOffering
      <3> QED BY <1>0, <2>1, <2>4, <2>5, <3>1, KeptAccount
    <2> QED BY <2>6, <2>7
  <1>8. ASSUME NEW l \in Loops, Abandon(l) PROVE AccountedAt(m, j)'
    <2>1. /\ UNCHANGED <<host, cache, offers>>
          /\ stage[l] = "offering" /\ stage'[l] = "idle"
          /\ l # m => stage'[m] = stage[m] /\ task'[m] = task[m]
      BY <1>8 DEF Abandon, End, Goto, TypeOK
    <2> DEFINE key == KeyOf(l)
    <2>2. key \in Keys /\ abandoned' = [abandoned EXCEPT ![l][key] = abandoned[l][key] + 1]
      BY <1>8, TaskFacts DEF Abandon
    <2>3. /\ abandoned \in [Loops -> [Keys -> Nat]]
          /\ IsOffering(l, key) /\ AccountedAt(l, key)
      BY <2>1, <2>2 DEF TypeOK, Accounted, IsOffering
    <2>4. abandoned'[m][j] =
              IF m = l /\ j = key THEN abandoned[m][j] + 1 ELSE abandoned[m][j]
      <3> HIDE DEF key
      <3> QED BY <2>2, <2>3
    <2>5. CASE m = l /\ j = key
      <3>1. ~IsOffering(m, j)' /\ offers'[m][j] = abandoned'[m][j]
        BY <2>1, <2>3, <2>4, <2>5 DEF AccountedAt, IsOffering
      <3>2. abandoned'[m][j] \in Nat
        BY <2>3, <2>4
      <3> QED BY <3>1, <3>2 DEF AccountedAt
    <2>6. CASE ~(m = l /\ j = key)
      <3>1. (IsOffering(m, j)' <=> IsOffering(m, j)) /\ (IsDeciding(m, j)' => IsDeciding(m, j))
        BY <2>1, <2>6 DEF IsOffering, IsDeciding, KeyOf
      <3>2. IsCached(CacheUsed(m), j)' = IsCached(CacheUsed(m), j)
        BY <2>1 DEF IsCached, CacheUsed
      <3> QED BY <1>0, <2>1, <2>4, <2>6, <3>1, <3>2, KeptAccount
    <2> QED BY <2>5, <2>6
  <1>9. ASSUME NEW l \in Loops, Finish(l) PROVE AccountedAt(m, j)'
    <2>1. /\ UNCHANGED <<host, offers, abandoned>>
          /\ stage[l] = "recording" /\ stage'[l] = "idle"
          /\ l # m => stage'[m] = stage[m] /\ task'[m] = task[m]
      BY <1>9 DEF Finish, End, Goto, TypeOK
    <2>2. (IsOffering(m, j)' <=> IsOffering(m, j)) /\ (IsDeciding(m, j)' => IsDeciding(m, j))
      BY <2>1 DEF IsOffering, IsDeciding, KeyOf
    <2>3. CacheUsed(m)' = CacheUsed(m)
      BY <2>1 DEF CacheUsed
    <2>4. ~IsCached(CacheUsed(m), j)' => ~IsCached(CacheUsed(m), j)
      <3>1. CASE Put(l, task[l].result)
        <4>1. [status |-> task[l].result.status, package |-> task[l].result.package] \in Results
          BY <2>1, TaskFacts DEF Results, SettledIsResult
        <4> QED BY <1>0, <2>1, <2>3, <3>1, <4>1, TaskFacts, PutDecides DEF IsCached
      <3>2. CASE UNCHANGED cache
        BY <2>3, <3>2 DEF IsCached
      <3> QED BY <1>9, <3>1, <3>2 DEF Finish
    <2> QED BY <1>0, <2>1, <2>2, <2>4, KeptAccount
  <1>10. ASSUME NEW p \in Processes, Restart(p) PROVE AccountedAt(m, j)'
    <2>1. UNCHANGED host /\ CacheUsed(m)' = CacheUsed(m) /\ host.processOf[m] \in Processes
      BY <1>10, HostFacts DEF Restart, CacheUsed
    <2>2. /\ stage'[m] = IF host.processOf[m] = p THEN "idle" ELSE stage[m]
          /\ host.processOf[m] # p => task'[m] = task[m]
      BY <1>10 DEF Restart
    <2>3. /\ IsOffering(m, j)' <=> (IsOffering(m, j) /\ host.processOf[m] # p)
          /\ IsDeciding(m, j)' => IsDeciding(m, j) /\ host.processOf[m] # p
      BY <2>2 DEF IsOffering, IsDeciding, KeyOf
    <2>4. CASE host.cacheOf[p] \in host.durable
      <3>1. /\ UNCHANGED <<cache, offers>>
            /\ abandoned'[m][j] = IF host.processOf[m] = p /\ IsOffering(m, j)
                                  THEN abandoned[m][j] + 1 ELSE abandoned[m][j]
        BY <1>10, <2>4 DEF Restart
      <3>2. IsCached(CacheUsed(m), j)' = IsCached(CacheUsed(m), j)
        BY <2>1, <3>1 DEF IsCached
      <3>3. offers[m][j] \in Nat /\ abandoned[m][j] \in Nat
        BY DEF TypeOK
      <3> QED BY <1>0, <2>3, <3>1, <3>2, <3>3 DEF AccountedAt
    <2>5. CASE host.cacheOf[p] \notin host.durable
      <3>1. CASE host.processOf[m] = p
        <4>1. offers'[m][j] = 0 /\ abandoned'[m][j] = 0
          BY <1>10, <2>5, <3>1 DEF Restart
        <4> QED BY <2>3, <3>1, <4>1 DEF AccountedAt
      <3>2. CASE host.processOf[m] # p
        <4>1. offers'[m][j] = offers[m][j] /\ abandoned'[m][j] = abandoned[m][j]
          BY <1>10, <2>5, <3>2 DEF Restart
        <4>2. CacheUsed(m) # host.cacheOf[p]
          BY <2>1, <2>5, <3>2 DEF CacheUsed, TypeOK
        <4>3. cache' = [cache EXCEPT ![host.cacheOf[p]] = [k \in Keys |-> Open]]
          BY <1>10, <2>5 DEF Restart
        <4>4. cache'[CacheUsed(m)] = cache[CacheUsed(m)]
          BY <1>0, <4>2, <4>3 DEF TypeOK
        <4>5. IsCached(CacheUsed(m), j)' = IsCached(CacheUsed(m), j)
          BY <2>1, <4>4 DEF IsCached
        <4> QED BY <1>0, <2>3, <3>2, <4>1, <4>5, KeptAccount
      <3> QED BY <3>1, <3>2
    <2> QED BY <2>4, <2>5
  <1>11. CASE UNCHANGED vars
    BY <1>0, <1>11 DEF vars, AccountedAt, IsOffering, IsDeciding, IsCached, CacheUsed, KeyOf
  <1> QED
    BY <1>1, <1>2, <1>3, <1>4, <1>5, <1>6, <1>7, <1>8, <1>9, <1>10, <1>11 DEF Next, Cycle

-----------------------------------------------------------------------------

(* Put hands on a result whose package was sent. *)
LEMMA PutTraced ==
    ASSUME TypeOK, NEW l \in Loops, NEW result, NEW S,
           result.package \in S, Put(l, result),
           \A x \in Caches, k \in Keys : cache[x][k].package \in S
    PROVE  \A x \in Caches, k \in Keys : cache'[x][k].package \in S
  <1> DEFINE c == CacheUsed(l)
             row == [cache[c] EXCEPT ![KeyOf(l)] = result]
  <1>1. c \in Caches /\ cache' = [cache EXCEPT ![c] = row] /\ KeyOf(l) \in Keys
    BY HostFacts, TaskFacts DEF Put
  <1>2. \A k \in Keys : row[k] = IF k = KeyOf(l) THEN result ELSE cache[c][k]
    BY <1>1 DEF TypeOK
  <1> HIDE DEF row, c
  <1>3. \A x \in Caches : cache'[x] = IF x = c THEN row ELSE cache[x]
    BY <1>1 DEF TypeOK
  <1> QED BY <1>1, <1>2, <1>3

LEMMA TracedStep ==
    ASSUME TypeOK, Traced, [Next]_vars
    PROVE  Traced'
  <1> DEFINE Held(S) == /\ \A l \in Loops : task[l].result.package \in S \union {NoPackage}
                        /\ \A x \in Caches, k \in Keys :
                               cache[x][k].package \in S \union {NoPackage}
             Running == \A l \in Loops : stage[l] = "running" => IsFresh(KeyOf(l), task[l].now)
  <1>0. Held(sent) /\ Running /\ \A package \in sent : Faithful(package)
    BY DEF Traced
  <1>1. ASSUME NEW l \in Loops, NEW k \in Keys, Replay(l, k) PROVE Traced'
    <2>1. sent' = sent
      BY <1>0, <1>1, HostFacts DEF Replay
    <2> QED BY <1>0, <1>1, <2>1 DEF Replay, Traced, KeyOf
  <1>2. ASSUME NEW l \in Loops, NEW k \in Keys, Lookup(l, k) PROVE Traced'
    <2>1. \A m \in Loops : /\ task'[m].result = Open \/ task'[m] = task[m]
                           /\ stage'[m] = "running" => m # l /\ stage[m] = "running"
                           /\ m # l => task'[m] = task[m]
      BY <1>2 DEF Lookup, Goto, TypeOK
    <2> QED BY <1>0, <1>2, <2>1, OpenFacts DEF Lookup, Traced, KeyOf
  <1>3. ASSUME NEW l \in Loops, NEW t \in Instants, Begin(l, t) PROVE Traced'
    <2>1. \A m \in Loops : /\ task'[m].result = task[m].result
                           /\ task'[m].key = task[m].key
                           /\ m # l => task'[m] = task[m] /\ stage'[m] = stage[m]
      BY <1>3 DEF Begin, Goto, TypeOK, Tasks
    <2>2. task'[l].now = t /\ (stage'[l] = "running" => IsFresh(KeyOf(l), t))
      BY <1>3 DEF Begin, Goto, TypeOK, Tasks
    <2> QED BY <1>0, <1>3, <2>1, <2>2 DEF Begin, Traced, KeyOf
  <1>4. ASSUME NEW l \in Loops, End(l), UNCHANGED sent,
               \A x \in Caches, k \in Keys : cache'[x][k].package \in sent \union {NoPackage}
        PROVE  Traced'
    <2>1. \A m \in Loops : /\ task'[m].result = Open \/ task'[m] = task[m]
                           /\ stage'[m] = "running" => m # l /\ stage[m] = "running"
                           /\ m # l => task'[m] = task[m]
      BY <1>4, OpenFacts DEF End, Goto, TypeOK
    <2> QED BY <1>0, <1>4, <2>1, OpenFacts DEF Traced, KeyOf
  <1>5. ASSUME NEW l \in Loops, NEW verdict \in {"rejected", "no_candidate"},
               Refuse(l, verdict)
        PROVE  Traced'
    BY <1>0, <1>4, <1>5, PutTraced DEF Refuse
  <1>6. ASSUME NEW l \in Loops, GiveUp(l) \/ Abandon(l) PROVE Traced'
    BY <1>0, <1>4, <1>6 DEF GiveUp, Abandon
  <1>7. ASSUME NEW l \in Loops, Offer(l) PROVE Traced'
    <2>1. PICK e \in Expiries(KeyOf(l), task[l].now) :
              /\ \A f \in Expiries(KeyOf(l), task[l].now) : e <= f
              /\ LET package == [key |-> KeyOf(l), from |-> host.processOf[l],
                                 created |-> task[l].now, expires |-> e] IN
                     /\ sent' = sent \union {package}
                     /\ task' = [task EXCEPT ![l].result = [Open EXCEPT !.package = package]]
      BY <1>7 DEF Offer
    <2> DEFINE package == [key |-> KeyOf(l), from |-> host.processOf[l],
                           created |-> task[l].now, expires |-> e]
    <2>2. Faithful(package)
      BY <1>0, <1>7, <2>1, MadePackage, HostFacts, TaskFacts DEF Offer
    <2> HIDE DEF package
    <2>3. sent' = sent \union {package}
      BY <2>1 DEF package
    <2>4. \A m \in Loops : /\ task'[m].result = [Open EXCEPT !.package = package]
                                  \/ task'[m] = task[m]
                           /\ stage'[m] = "running" => m # l /\ stage[m] = "running"
                           /\ m # l => task'[m] = task[m]
      BY <1>7, <2>1 DEF Offer, Goto, TypeOK, Tasks, package
    <2>5. [Open EXCEPT !.package = package].package = package
      BY DEF Open
    <2> QED BY <1>0, <1>7, <2>2, <2>3, <2>4, <2>5 DEF Offer, Traced, KeyOf
  <1>8. ASSUME NEW l \in Loops, NEW status \in {"proposed", "delivery_unknown"},
               Settle(l, status)
        PROVE  Traced'
    <2> DEFINE result == [status |-> status, package |-> task[l].result.package]
    <2>1. result.package \in sent \union {NoPackage}
      BY <1>0
    <2>2. \A m \in Loops : /\ task'[m].result = result \/ task'[m] = task[m]
                           /\ stage'[m] = "running" => m # l /\ stage[m] = "running"
                           /\ m # l => task'[m] = task[m]
      BY <1>8 DEF Settle, Goto, TypeOK, Tasks
    <2> HIDE DEF result
    <2>3. \A x \in Caches, k \in Keys : cache'[x][k].package \in sent \union {NoPackage}
      BY <1>0, <1>8, <2>1, PutTraced DEF Settle, result
    <2> QED BY <1>0, <1>8, <2>1, <2>2, <2>3 DEF Settle, Traced, KeyOf
  <1>9. ASSUME NEW l \in Loops, Finish(l) PROVE Traced'
    <2>1. CASE Put(l, task[l].result)
      BY <1>0, <1>4, <1>9, <2>1, PutTraced DEF Finish
    <2>2. CASE UNCHANGED cache
      BY <1>0, <1>4, <1>9, <2>2 DEF Finish
    <2> QED BY <1>9, <2>1, <2>2 DEF Finish
  <1>10. ASSUME NEW p \in Processes, Restart(p) PROVE Traced'
    <2>1. \A m \in Loops : /\ task'[m] = NoTask \/ task'[m] = task[m]
                           /\ stage'[m] = "running" =>
                                  stage[m] = "running" /\ task'[m] = task[m]
      BY <1>10 DEF Restart
    <2>2. \A x \in Caches, k \in Keys : cache'[x][k] = cache[x][k] \/ cache'[x][k] = Open
      <3>1. CASE host.cacheOf[p] \in host.durable
        BY <1>10, <3>1 DEF Restart
      <3>2. CASE host.cacheOf[p] \notin host.durable
        <4>1. cache' = [cache EXCEPT ![host.cacheOf[p]] = [k \in Keys |-> Open]]
          BY <1>10, <3>2 DEF Restart
        <4>2. \A x \in Caches : cache'[x] = cache[x] \/ cache'[x] = [k \in Keys |-> Open]
          BY <4>1 DEF TypeOK
        <4> QED BY <4>2
      <3> QED BY <3>1, <3>2
    <2>3. sent' = sent
      BY <1>10 DEF Restart
    <2> QED BY <1>0, <2>1, <2>2, <2>3, OpenFacts DEF Traced, KeyOf
  <1>11. CASE UNCHANGED vars
    BY <1>11 DEF vars, Traced, KeyOf
  <1> QED
    BY <1>1, <1>2, <1>3, <1>5, <1>6, <1>7, <1>8, <1>9, <1>10, <1>11 DEF Next, Cycle

-----------------------------------------------------------------------------
(* A loop that has its cache to itself.                                      *)

(* What it holds of its cycle is what the cache holds of the key. *)
LoneAt(l) ==
    /\ stage[l] \in {"missed", "stale", "running", "offering"} =>
           ~IsCached(CacheUsed(l), KeyOf(l))
    /\ stage[l] = "recording" => cache[CacheUsed(l)][KeyOf(l)] = task[l].result

Lone == \A l \in Loops : IsAlone(l) => LoneAt(l)

(* The steps of others leave its cycle, its cache and its history alone, but *)
(* for a restart of its process, which ends the cycle.                       *)
LEMMA OthersKeepAway ==
    ASSUME TypeOK, SettledIsResult, NEW l \in Loops, IsAlone(l), NEW m \in Loops, m # l,
           Cycle(m)
    PROVE  UNCHANGED <<host, cache[CacheUsed(l)], stage[l], task[l], offers[l], abandoned[l]>>
  <1>1. CacheUsed(m) # CacheUsed(l) /\ CacheUsed(m) \in Caches /\ CacheUsed(l) \in Caches
    BY HostFacts DEF IsAlone
  <1>2. UNCHANGED host
    BY DEF Cycle, Replay, Lookup, Begin, Refuse, GiveUp, Offer, Settle, Abandon, Finish
  <1>3. stage'[l] = stage[l]
    BY DEF TypeOK, Goto, End, Cycle, Replay, Lookup, Begin, Refuse, GiveUp, Offer, Settle,
           Abandon, Finish
  <1>4. task'[l] = task[l]
    BY DEF TypeOK, End, Cycle, Replay, Lookup, Begin, Refuse, GiveUp, Offer, Settle,
           Abandon, Finish
  <1>5. ASSUME NEW result, Put(m, result) PROVE cache'[CacheUsed(l)] = cache[CacheUsed(l)]
    BY <1>1, <1>5 DEF Put, TypeOK
  <1>6. cache'[CacheUsed(l)] = cache[CacheUsed(l)]
    BY <1>5 DEF Cycle, Replay, Lookup, Begin, Refuse, GiveUp, Offer, Settle, Abandon, Finish
  <1>7. offers'[l] = offers[l]
    BY DEF TypeOK, Cycle, Replay, Lookup, Begin, Refuse, GiveUp, Offer, Settle, Abandon, Finish
  <1>8. abandoned'[l] = abandoned[l]
    BY DEF TypeOK, Cycle, Replay, Lookup, Begin, Refuse, GiveUp, Offer, Settle, Abandon, Finish
  <1> QED BY <1>2, <1>3, <1>4, <1>6, <1>7, <1>8, HostFacts DEF CacheUsed

LEMMA PutOwn ==
    ASSUME TypeOK, NEW l \in Loops, NEW result, Put(l, result), UNCHANGED host
    PROVE  \A k \in Keys :
               cache'[CacheUsed(l)'][k] = IF k = KeyOf(l) THEN result ELSE cache[CacheUsed(l)][k]
  <1>1. CacheUsed(l) \in Caches /\ CacheUsed(l)' = CacheUsed(l)
    BY HostFacts DEF CacheUsed
  <1> QED BY <1>1 DEF Put, TypeOK

LEMMA UndecidedIsOpen == ASSUME NEW x, NEW k, ~IsCached(x, k) PROVE cache[x][k].status = "open"
  BY OpenFacts DEF IsCached

(* Its own steps are steps of its ledger. *)
LEMMA OwnStep ==
    ASSUME TypeOK, SettledIsResult, NEW l \in Loops, LoneAt(l), Cycle(l)
    PROVE  /\ LoneAt(l)'
           /\ Ledger(l)!LedgerNext \/ UNCHANGED <<PhaseOf(l), offers[l]>>
  <1> DEFINE c == CacheUsed(l)
             key == KeyOf(l)
             Done == /\ LoneAt(l)'
                     /\ Ledger(l)!LedgerNext \/ UNCHANGED <<PhaseOf(l), offers[l]>>
  <1>0. UNCHANGED host /\ c' = c /\ c \in Caches /\ key \in Keys
    BY HostFacts, TaskFacts
       DEF Cycle, Replay, Lookup, Begin, Refuse, GiveUp, Offer, Settle, Abandon, Finish, CacheUsed
  <1>1. ASSUME UNCHANGED <<cache, offers>>, stage[l] # "offering", stage'[l] # "offering"
        PROVE  UNCHANGED <<PhaseOf(l), offers[l]>>
    BY <1>0, <1>1 DEF PhaseOf, IsOffering
  <1>2. ASSUME NEW k \in Keys, Replay(l, k) PROVE Done
    <2>1. LoneAt(l)'
      BY <1>0, <1>2 DEF Replay, LoneAt, IsCached, KeyOf
    <2> QED BY <1>1, <1>2, <2>1 DEF Replay
  <1>3. ASSUME NEW k \in Keys, Lookup(l, k) PROVE Done
    <2>1. stage'[l] = "missed" /\ task'[l].key = k /\ stage[l] = "idle"
      BY <1>3 DEF Lookup, Goto, TypeOK
    <2>2. LoneAt(l)'
      BY <1>0, <1>3, <2>1 DEF Lookup, LoneAt, IsCached, KeyOf
    <2> QED BY <1>1, <1>3, <2>1, <2>2 DEF Lookup
  <1>4. ASSUME NEW t \in Instants, Begin(l, t) PROVE Done
    <2>1. /\ stage'[l] \in {"running", "stale"} /\ stage[l] = "missed"
          /\ task'[l].key = task[l].key
      BY <1>4 DEF Begin, Goto, TypeOK, Tasks
    <2>2. LoneAt(l)'
      BY <1>0, <1>4, <2>1 DEF Begin, LoneAt, IsCached, KeyOf
    <2> QED BY <1>1, <1>4, <2>1, <2>2 DEF Begin
  <1>5. ASSUME NEW verdict \in {"rejected", "no_candidate"}, Refuse(l, verdict) PROVE Done
    <2>1. stage'[l] = "idle" /\ stage[l] \in {"stale", "running"} /\ offers' = offers
      BY <1>5 DEF Refuse, End, Goto, TypeOK
    <2>2. LoneAt(l)'
      BY <2>1 DEF LoneAt
    <2>3. \A k \in Keys : cache'[c'][k].status = IF k = key THEN verdict ELSE cache[c][k].status
      BY <1>0, <1>5, PutOwn DEF Refuse
    <2>4. PhaseOf(l)' = [PhaseOf(l) EXCEPT ![key] = verdict]
      BY <1>0, <2>1, <2>3 DEF PhaseOf, IsOffering
    <2>5. PhaseOf(l)[key] = "open"
      BY <1>0, <2>1, UndecidedIsOpen DEF PhaseOf, IsOffering, LoneAt
    <2>6. Ledger(l)!Close(key, verdict)
      BY <2>1, <2>4, <2>5 DEF Ledger!Close
    <2> QED BY <1>0, <2>2, <2>6 DEF Ledger!LedgerNext, Ledger!Refusals
  <1>6. ASSUME GiveUp(l) PROVE Done
    <2>1. stage'[l] = "idle" /\ stage[l] # "offering"
      BY <1>6 DEF GiveUp, End, Goto, TypeOK
    <2>2. LoneAt(l)'
      BY <2>1 DEF LoneAt
    <2> QED BY <1>1, <1>6, <2>1, <2>2 DEF GiveUp
  <1>7. ASSUME Offer(l) PROVE Done
    <2>1. /\ stage'[l] = "offering" /\ stage[l] = "running" /\ cache' = cache
          /\ task'[l].key = task[l].key
      BY <1>7 DEF Offer, Goto, TypeOK, Tasks
    <2>2. LoneAt(l)'
      BY <1>0, <2>1 DEF LoneAt, IsCached, KeyOf
    <2>3. PhaseOf(l)[key] = "open"
      BY <1>0, <2>1, UndecidedIsOpen DEF PhaseOf, IsOffering, LoneAt
    <2>4. PhaseOf(l)' = [PhaseOf(l) EXCEPT ![key] = "offered"]
      BY <1>0, <2>1 DEF PhaseOf, IsOffering, KeyOf
    <2>5. offers'[l] = [offers[l] EXCEPT ![key] = @ + 1]
      BY <1>7 DEF Offer, TypeOK
    <2>6. Ledger(l)!Offer(key)
      BY <2>3, <2>4, <2>5 DEF Ledger!Offer
    <2> QED BY <1>0, <2>2, <2>6 DEF Ledger!LedgerNext
  <1>8. ASSUME NEW status \in {"proposed", "delivery_unknown"}, Settle(l, status) PROVE Done
    <2> DEFINE result == [status |-> status, package |-> task[l].result.package]
    <2>1. /\ stage'[l] = "recording" /\ stage[l] = "offering" /\ offers' = offers
          /\ task'[l].key = task[l].key /\ task'[l].result = result
      BY <1>8 DEF Settle, Goto, TypeOK, Tasks
    <2>2. \A k \in Keys : cache'[c'][k] = IF k = key THEN result ELSE cache[c][k]
      BY <1>0, <1>8, PutOwn DEF Settle
    <2>3. LoneAt(l)'
      BY <1>0, <2>1, <2>2 DEF LoneAt, KeyOf
    <2>4. PhaseOf(l)[key] = "offered"
      BY <1>0, <2>1 DEF PhaseOf, IsOffering
    <2>5. PhaseOf(l)' = [PhaseOf(l) EXCEPT ![key] = status]
      <3>1. \A k \in Keys :
                cache'[c'][k].status = IF k = key THEN status ELSE cache[c][k].status
        BY <2>2
      <3>2. \A k \in Keys : PhaseOf(l)[k] = IF k = key THEN "offered" ELSE cache[c][k].status
        BY <2>1 DEF PhaseOf, IsOffering
      <3>3. PhaseOf(l)' = [k \in Keys |-> cache'[c'][k].status]
        BY <2>1 DEF PhaseOf, IsOffering
      <3> QED BY <1>0, <3>1, <3>2, <3>3 DEF PhaseOf
    <2>6. Ledger(l)!Settle(key, status)
      BY <2>1, <2>4, <2>5 DEF Ledger!Settle
    <2> QED BY <1>0, <2>3, <2>6 DEF Ledger!LedgerNext, Ledger!Outcomes
  <1>9. ASSUME Abandon(l) PROVE Done
    <2>1. stage'[l] = "idle" /\ stage[l] = "offering" /\ UNCHANGED <<cache, offers>>
      BY <1>9 DEF Abandon, End, Goto, TypeOK
    <2>2. LoneAt(l)'
      BY <2>1 DEF LoneAt
    <2>3. PhaseOf(l)[key] = "offered"
      BY <1>0, <2>1 DEF PhaseOf, IsOffering
    <2>4. PhaseOf(l)' = [PhaseOf(l) EXCEPT ![key] = "open"]
      BY <1>0, <2>1, UndecidedIsOpen DEF PhaseOf, IsOffering, LoneAt
    <2>5. Ledger(l)!Abandon(key)
      BY <2>1, <2>3, <2>4 DEF Ledger!Abandon
    <2> QED BY <1>0, <2>2, <2>5 DEF Ledger!LedgerNext
  <1>10. ASSUME Finish(l) PROVE Done
    <2>1. stage'[l] = "idle" /\ stage[l] = "recording" /\ offers' = offers
      BY <1>10 DEF Finish, End, Goto, TypeOK
    <2>2. LoneAt(l)'
      BY <2>1 DEF LoneAt
    <2>3. \A k \in Keys : cache'[c'][k] = cache[c][k]
      BY <1>0, <1>10, <2>1, PutOwn DEF Finish, LoneAt
    <2> QED BY <2>1, <2>2, <2>3 DEF PhaseOf, IsOffering
  <1> QED
    BY <1>2, <1>3, <1>4, <1>5, <1>6, <1>7, <1>8, <1>9, <1>10 DEF Cycle

LEMMA RestartStep ==
    ASSUME TypeOK, NEW l \in Loops, LoneAt(l), NEW p \in Processes, Restart(p)
    PROVE  /\ LoneAt(l)'
           /\ \/ Ledger(l)!LedgerNext
              \/ CacheUsed(l) \notin host.durable /\ (Ledger(l)!LedgerInit)'
              \/ UNCHANGED <<PhaseOf(l), offers[l]>>
  <1> DEFINE c == CacheUsed(l)
             key == KeyOf(l)
  <1>1. /\ UNCHANGED host /\ c' = c /\ c \in Caches /\ key \in Keys
        /\ host.processOf[l] \in Processes /\ host \in Hosts
    BY HostFacts, TaskFacts DEF Restart, CacheUsed, TypeOK
  <1>2. /\ stage'[l] = IF host.processOf[l] = p THEN "idle" ELSE stage[l]
        /\ host.processOf[l] # p => task'[l] = task[l]
    BY DEF Restart
  <1>3. CASE host.processOf[l] = p /\ c \in host.durable
    <2>1. stage'[l] = "idle" /\ UNCHANGED <<cache, offers>>
      BY <1>1, <1>2, <1>3 DEF Restart, CacheUsed
    <2>2. LoneAt(l)'
      BY <2>1 DEF LoneAt
    <2>3. CASE stage[l] = "offering"
      <3>1. PhaseOf(l)[key] = "offered"
        BY <1>1, <2>3 DEF PhaseOf, IsOffering
      <3>2. PhaseOf(l)' = [PhaseOf(l) EXCEPT ![key] = "open"]
        BY <1>1, <2>1, <2>3, UndecidedIsOpen DEF PhaseOf, IsOffering, LoneAt
      <3>3. Ledger(l)!Abandon(key)
        BY <2>1, <3>1, <3>2 DEF Ledger!Abandon
      <3> QED BY <1>1, <2>2, <3>3 DEF Ledger!LedgerNext
    <2>4. CASE stage[l] # "offering"
      BY <1>1, <2>1, <2>2, <2>4 DEF PhaseOf, IsOffering
    <2> QED BY <2>3, <2>4
  <1>4. CASE host.processOf[l] = p /\ c \notin host.durable
    <2>1. /\ stage'[l] = "idle" /\ offers'[l] = [k \in Keys |-> 0]
          /\ cache' = [cache EXCEPT ![c] = [k \in Keys |-> Open]]
      BY <1>1, <1>2, <1>4 DEF Restart, CacheUsed
    <2>2. LoneAt(l)'
      BY <2>1 DEF LoneAt
    <2>3. \A k \in Keys : cache'[c'][k].status = "open"
      BY <1>1, <2>1, OpenFacts DEF TypeOK
    <2>4. PhaseOf(l)' = [k \in Keys |-> "open"]
      BY <2>1, <2>3 DEF PhaseOf, IsOffering
    <2>5. (Ledger(l)!LedgerInit)'
      BY <2>1, <2>4 DEF Ledger!LedgerInit
    <2> QED BY <1>4, <2>2, <2>5
  <1>5. CASE host.processOf[l] # p
    <2>1. cache'[c] = cache[c] /\ offers'[l] = offers[l]
      <3>1. CASE host.cacheOf[p] \in host.durable
        BY <3>1 DEF Restart
      <3>2. CASE host.cacheOf[p] \notin host.durable
        <4>1. c # host.cacheOf[p]
          BY <1>1, <1>5, <3>2 DEF CacheUsed
        <4>2. /\ cache' = [cache EXCEPT ![host.cacheOf[p]] = [k \in Keys |-> Open]]
              /\ offers'[l] = offers[l]
          BY <1>5, <3>2 DEF Restart
        <4> QED BY <1>1, <4>1, <4>2 DEF TypeOK
      <3> QED BY <3>1, <3>2
    <2> QED
      BY <1>1, <1>2, <1>5, <2>1 DEF PhaseOf, IsOffering, LoneAt, IsCached, KeyOf
  <1> QED BY <1>3, <1>4, <1>5

LEMMA LoneStep ==
    ASSUME TypeOK, SettledIsResult, Lone, [Next]_vars
    PROVE  /\ Lone'
           /\ \A l \in Loops : IsAlone(l) =>
                  \/ Ledger(l)!LedgerNext
                  \/ CacheUsed(l) \notin host.durable /\ (Ledger(l)!LedgerInit)'
                  \/ UNCHANGED <<PhaseOf(l), offers[l]>>
  <1>1. UNCHANGED host
    BY DEF Next, Cycle, Replay, Lookup, Begin, Refuse, GiveUp, Offer, Settle, Abandon, Finish,
           Restart, vars
  <1>2. \A l \in Loops : IsAlone(l)' <=> IsAlone(l)
    BY <1>1 DEF IsAlone, CacheUsed
  <1>3. SUFFICES ASSUME NEW l \in Loops, IsAlone(l)
                 PROVE  /\ LoneAt(l)'
                        /\ \/ Ledger(l)!LedgerNext
                           \/ CacheUsed(l) \notin host.durable /\ (Ledger(l)!LedgerInit)'
                           \/ UNCHANGED <<PhaseOf(l), offers[l]>>
    BY <1>2 DEF Lone
  <1>4. LoneAt(l)
    BY <1>3 DEF Lone
  <1>5. ASSUME NEW m \in Loops, m # l, Cycle(m)
        PROVE  LoneAt(l)' /\ UNCHANGED <<PhaseOf(l), offers[l]>>
    <2>1. /\ UNCHANGED <<cache[CacheUsed(l)], stage[l], task[l], offers[l]>>
          /\ CacheUsed(l)' = CacheUsed(l)
      BY <1>1, <1>3, <1>5, OthersKeepAway DEF CacheUsed
    <2>2. cache'[CacheUsed(l)'] = cache[CacheUsed(l)]
      BY <2>1
    <2> QED BY <1>4, <2>1, <2>2 DEF LoneAt, PhaseOf, IsOffering, IsCached, KeyOf
  <1>6. CASE UNCHANGED vars
    BY <1>4, <1>6 DEF vars, LoneAt, PhaseOf, IsOffering, IsCached, KeyOf, CacheUsed
  <1> QED BY <1>4, <1>5, <1>6, OwnStep, RestartStep DEF Next

-----------------------------------------------------------------------------

(* The inductive invariant holds in every reachable state. *)
THEOREM KernelHostsIInv == Spec => []IInv
  <1>1. IInv /\ [Next]_vars => IInv'
    BY TypeStep, AccountedStep, TracedStep DEF IInv
  <1> QED BY InitIInv, <1>1, PTL DEF Spec

(* Every variable keeps its type, and the caches hold only verdicts         *)
(* (kernel.py:61-72).                                                       *)
THEOREM KernelHostsTypeOK == Spec => []TypeOK
  <1>1. IInv => TypeOK
    BY DEF IInv
  <1> QED BY KernelHostsIInv, <1>1, PTL

(* No event loop proposes a key a second time unless its proposal was       *)
(* cancelled or cut off, whatever other loops and processes do to the cache *)
(* (kernel.py:191-203, 216-219).                                            *)
THEOREM LoopsProposeOnce == Spec => []OncePerLoop
  <1>1. IInv => OncePerLoop
    BY DEF IInv, Accounted, AccountedAt, OncePerLoop
  <1> QED BY KernelHostsIInv, <1>1, PTL

(* Whoever verifies a package, at whatever instant, accepts it only while   *)
(* all its evidence is current and the ttl has not run out                  *)
(* (kernel.py:445-448, contracts.py:408-412, 474-504).                     *)
THEOREM VerifiedPackagesAreCurrent == Spec => []VerifiedIsCurrent
  <1>1. IInv => VerifiedIsCurrent
    <2> SUFFICES ASSUME IInv, NEW package \in sent, NEW t \in Instants,
                        IsCurrent(package, t)
                 PROVE  IsFresh(package.key, t) /\ t < package.created + Ttl
      BY DEF VerifiedIsCurrent, IsVerified
    <2>1. Faithful(package) /\ package \in Packages
      BY DEF IInv, Traced, TypeOK
    <2>2. package.key \in Keys /\ package.created \in Nat /\ package.expires \in Nat
      BY <2>1 DEF Packages
    <2>3. t \in Nat
      BY DEF Instants
    <2> QED BY <2>1, <2>2, <2>3 DEF Faithful, IsCurrent, IsFresh
  <1> QED BY KernelHostsIInv, <1>1, PTL

(* A loop that shares its cache with no other implements the ledger, over   *)
(* restarts as well if that cache is durable (kernel.py:197-200,            *)
(* docs/architecture.md:103-109).                                           *)
THEOREM LoneLoopsImplementLedgers == Spec => LoneLoopsKeepLedgers
  <1> DEFINE Kept == \A l \in Loops : IsAlone(l) =>
                        \/ Ledger(l)!LedgerNext
                        \/ CacheUsed(l) \notin host.durable /\ (Ledger(l)!LedgerInit)'
                        \/ UNCHANGED <<PhaseOf(l), offers[l]>>
  <1>1. Init => Lone
    BY DEF Init, Lone, LoneAt
  <1>2. IInv /\ Lone /\ [Next]_vars => Lone' /\ [Kept]_vars
    BY LoneStep DEF IInv
  <1>3. Spec => [][Kept]_vars
    <2> HIDE DEF Kept
    <2> QED BY KernelHostsIInv, <1>1, <1>2, PTL DEF Spec
  <1> QED BY <1>3 DEF LoneLoopsKeepLedgers
================================================================================
