---------------------------- MODULE MCOciVerifier ----------------------------
(* Two repositories of one registry.  Among the manifests: "m1" within every *)
(* limit, "m2" one byte over the total with inline data, "m3" and "m6" with a *)
(* blob declared too small and too large, "m4" with a blob over the blob      *)
(* limit, "m5" with a malformed descriptor.                                   *)
EXTENDS OciVerifier

MCDescriptor(digest, size, data, valid) ==
    [digest |-> digest, size |-> size, data |-> data, valid |-> valid]
MCBlob(digest, size) == MCDescriptor(digest, size, NoData, TRUE)

MCManifests ==
    [m1 |-> <<MCBlob("c", 1), MCBlob("c", 1)>>,
     m2 |-> <<MCDescriptor("c", 1, "c", TRUE), MCBlob("l", 2)>>,
     m3 |-> <<MCBlob("l", 1)>>,
     m4 |-> <<MCBlob("x", 4)>>,
     m5 |-> <<MCDescriptor("c", 1, NoData, FALSE)>>,
     m6 |-> <<MCBlob("c", 2)>>]
MCSizeOf == [m1 |-> 3, m2 |-> 3, m3 |-> 3, m4 |-> 3, m5 |-> 3, m6 |-> 3,
             c |-> 1, l |-> 2, z |-> 2, x |-> 4]
MCBodies == DOMAIN MCSizeOf

MCRepositoryA == <<"registry", "a">>
MCRepositoryB == <<"registry", "b">>
MCRepositories == {MCRepositoryA, MCRepositoryB}
MCRequest(repository, digest) ==
    [wellFormed |-> TRUE, repository |-> repository, scheme |-> "https",
     digest |-> digest, expected |-> digest]
MCPlain == {MCRequest(MCRepositoryA, "m1"), MCRequest(MCRepositoryB, "m1")}
MCMixed ==
    {MCRequest(MCRepositoryA, m) : m \in DOMAIN MCManifests}
        \union {[MCRequest(MCRepositoryA, "m1") EXCEPT !.scheme = "http"],
                [MCRequest(MCRepositoryA, "m1") EXCEPT !.expected = "m2"],
                MCRequest(<<"elsewhere", "a">>, "m1")}
MCAll == MCPlain \union MCMixed
MCRegistries == {"registry"}
MCAuthHosts == {"registry", "auth"}
MCRealms == {"auth", "other"}
CONSTANT Identity
MCIdentityTokens == [k \in MCRepositories \union {<<"elsewhere", "a">>} |->
                        IF k = MCRepositoryB THEN Identity ELSE NoToken]
=============================================================================
