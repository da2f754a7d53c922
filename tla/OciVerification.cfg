SPECIFICATION FairSpec
CONSTANTS
    t1 = t1
    t2 = t2
    Threads = {t1, t2}
    Requests <- MCAll
    Repositories <- MCRepositories
    Registries <- MCRegistries
    AuthHosts <- MCAuthHosts
    Realms <- MCRealms
    Bodies <- MCBodies
    SizeOf <- MCSizeOf
    Manifests <- MCManifests
    NoData = NoData
    IdentityTokens <- MCIdentityTokens
    Identity = Identity
    NoToken = NoToken
    AllowHttp = FALSE
    MaxManifest = 3
    MaxBlob = 2
    MaxTotal = 5
INVARIANTS
    ReceiptIsSound
    TokensKeepScope
    RefusedTokenIsFresh
PROPERTIES
    VerificationEnds
