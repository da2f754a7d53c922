SPECIFICATION Spec
CONSTANTS
    l1 = l1
    l2 = l2
    l3 = l3
    p = p
    q = q
    x = x
    y = y
    k1 = k1
    Anything = Anything
    Processes = {p, q}
    Loops = {l1, l2, l3}
    Caches = {x, y}
    Keys = {k1}
    Hosts <- MCHosts
    Windows <- MCWindows
    ScopeOf <- MCScopeOf
    Identity <- MCIdentity
    Consumers <- MCConsumers
    Ttl = 2
    MaxTime = 3
    MaxAbandoned = 1
    MaxRestarts = 1
INVARIANTS
    TypeOK
    OncePerLoop
    VerifiedIsCurrent
PROPERTIES
    LoneLoopsKeepLedgers
