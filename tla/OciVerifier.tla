------------------------------ MODULE OciVerifier ------------------------------
(***************************************************************************)
(* OCIRegistryVerifier (adapters/oci.py): concurrent verifications of      *)
(* digest-pinned artifacts.  verify runs _verify_sync in a worker thread   *)
(* (asyncio.to_thread), so the threads of one verifier share its bearer    *)
(* token cache without a lock.  A thread fetches the manifest, then walks  *)
(* its descriptors, and every fetch goes through _get: send with the       *)
(* cached token, and after a 401 exchange the challenge for a new token    *)
(* once and send again.                                                    *)
(*                                                                         *)
(* The registry and the token service are arbitrary: each request is       *)
(* answered with any body, a challenge or an error, so a token may expire  *)
(* between any two requests.  A body stands for its bytes and, sha256      *)
(* being collision free, for its digest.                                   *)
(***************************************************************************)
EXTENDS Integers, Sequences, Functions

CONSTANTS
    Threads,        \* worker threads, each verifying one artifact
    Requests,       \* verification requests, their references parsed
    Repositories,   \* registry and repository pairs
    Registries,     \* allowed_registries
    AuthHosts,      \* allowed_auth_hosts, the registries among them
    Realms,         \* hosts that challenges name
    Bodies,         \* what the registry can answer with
    SizeOf,         \* of each body, in bytes
    Manifests,      \* descriptors of the bodies that parse as leaf manifests
    NoData,         \* a descriptor without inline data
    IdentityTokens, \* the configured identity token of each repository, or NoToken
    NoToken,
    AllowHttp,      \* allow_insecure_http
    MaxManifest, MaxBlob, MaxTotal   \* size limits

(* A bearer token is known by the exchange that it came from: the           *)
(* repository it was granted for, the thread and the part of the artifact   *)
(* the thread was fetching (0 is the manifest).  An exchange happens at     *)
(* most once for each of these.                                             *)

ASSUME LimitsAssumption ==
    /\ {MaxManifest, MaxBlob, MaxTotal} \subseteq Nat \ {0}
    /\ MaxManifest <= MaxTotal
ASSUME HostsAssumption == Registries # {} /\ Registries \subseteq AuthHosts
ASSUME BodiesAssumption == \A b \in Bodies : SizeOf[b] \in Nat
ASSUME ManifestsAssumption ==
    /\ DOMAIN Manifests \subseteq Bodies
    /\ \A m \in DOMAIN Manifests :
           /\ SizeOf[m] > 0
           /\ Len(Manifests[m]) \in Nat \ {0}
           /\ DOMAIN Manifests[m] = 1 .. Len(Manifests[m])
           /\ \A i \in DOMAIN Manifests[m] :
                  LET data == Manifests[m][i].data IN
                  data # NoData => data \in Bodies /\ SizeOf[data] < SizeOf[m]
(* Whatever can pass the allowlist is a key of the token cache. *)
ASSUME RequestsAssumption ==
    \A r \in Requests : r.repository[1] \in Registries => r.repository \in Repositories

VARIABLES
    phase,    \* of each thread
    request,  \* what each thread verifies
    part,     \* the part it is at: 0 the manifest, then its descriptors
    token,    \* the bearer token of its current fetch
    total,    \* bytes of the parts it has accepted
    content,  \* the descriptors it has verified, in order
    reason,   \* why it failed
    tokens    \* the token cache, shared

threadVars == <<phase, request, part, token, total, content, reason>>
vars == <<threadVars, tokens>>

Phases == {"idle", "fetch", "sent", "exchange", "granted", "stored", "resent", "walk",
           "verified", "failed"}

-----------------------------------------------------------------------------

Repository(t) == request[t].repository
ManifestOf(t) == Manifests[request[t].digest]
Descriptor(t) == ManifestOf(t)[part[t]]

(* parse_oci_reference and the checks of _verify_sync before any request. *)
IsAdmissible(r) ==
    /\ r.wellFormed
    /\ r.digest = r.expected
    /\ r.repository[1] \in Registries
    /\ r.scheme = "https" \/ AllowHttp

Become(t, p) == phase' = [phase EXCEPT ![t] = p]
Fail(t, why) == Become(t, "failed") /\ reason' = [reason EXCEPT ![t] = why]

(* The most bytes that _send reads of this part. *)
Maximum(t) == IF part[t] = 0 THEN MaxManifest ELSE Descriptor(t).size

ExceedsTotal(sum) == sum > MaxTotal

AnySize(d, body) == body = d.digest   \* mutant
Matches(d, body) == SizeOf[body] = d.size /\ body = d.digest

(* Mutant: one token per registry. *)
CacheByRegistry(k, g) ==
    tokens' = [j \in Repositories |-> IF j[1] = k[1] THEN g ELSE tokens[j]]
CacheToken(k, g) == tokens' = [tokens EXCEPT ![k] = g]

(* The bytes of a descriptor are in hand: its checks, and the total. *)
AcceptContent(t, body) ==
    LET d == Descriptor(t)
        sum == total[t] + SizeOf[body]
    IN  IF Matches(d, body) /\ ~ExceedsTotal(sum)
        THEN /\ Become(t, "walk")
             /\ total' = [total EXCEPT ![t] = sum]
             /\ part' = [part EXCEPT ![t] = @ + 1]
             /\ content' = [content EXCEPT ![t] =
                               Append(@, [digest |-> d.digest, size |-> d.size])]
             /\ UNCHANGED reason
        ELSE Fail(t, "content") /\ UNCHANGED <<part, total, content>>

-----------------------------------------------------------------------------
(* _verify_sync. *)

(* Bad references, registries and schemes, and unreadable credentials, fail *)
(* before anything is sent.                                                 *)
Begin(t) ==
    /\ phase[t] = "idle"
    /\ \/ IsAdmissible(request[t]) /\ Become(t, "fetch") /\ UNCHANGED reason
       \/ Fail(t, "refused")
    /\ UNCHANGED <<request, part, token, total, content, tokens>>

(* _verify_descriptor: form and limit first, then inline data or a blob. *)
WalkOn(t) ==
    /\ phase[t] = "walk"
    /\ part[t] <= Len(ManifestOf(t))
    /\ LET d == Descriptor(t) IN
       \/ /\ ~d.valid \/ d.size > MaxBlob
          /\ Fail(t, "content")
          /\ UNCHANGED <<part, total, content>>
       \/ /\ d.valid /\ d.size <= MaxBlob
          /\ d.data = NoData
          /\ Become(t, "fetch")
          /\ UNCHANGED <<part, total, content, reason>>
       \/ /\ d.valid /\ d.size <= MaxBlob
          /\ d.data # NoData
          /\ AcceptContent(t, d.data)
    /\ UNCHANGED <<request, token, tokens>>

Finish(t) ==
    /\ phase[t] = "walk"
    /\ part[t] > Len(ManifestOf(t))
    /\ Become(t, "verified")
    /\ UNCHANGED <<request, part, token, total, content, reason, tokens>>

-----------------------------------------------------------------------------
(* _get and _send. *)

(* The cached token, or else the identity token, goes with the request. *)
Send(t) ==
    /\ phase[t] = "fetch"
    /\ LET cached == tokens[Repository(t)] IN
       token' = [token EXCEPT ![t] =
                    IF cached # NoToken THEN cached ELSE IdentityTokens[Repository(t)]]
    /\ Become(t, "sent")
    /\ UNCHANGED <<request, part, total, content, reason, tokens>>

(* A 200 with some body.  _send reads at most one byte more than it may. *)
Served(t, body) ==
    /\ phase[t] \in {"sent", "resent"}
    /\ IF SizeOf[body] > Maximum(t)
       THEN Fail(t, "size") /\ UNCHANGED <<part, total, content>>
       ELSE IF part[t] > 0
       THEN AcceptContent(t, body)
       ELSE /\ UNCHANGED content
            /\ IF body = request[t].digest /\ body \in DOMAIN Manifests
               THEN /\ Become(t, "walk")
                    /\ part' = [part EXCEPT ![t] = 1]
                    /\ total' = [total EXCEPT ![t] = SizeOf[body]]
                    /\ UNCHANGED reason
               ELSE Fail(t, "content") /\ UNCHANGED <<part, total>>
    /\ UNCHANGED <<request, token, tokens>>

(* Any other status or transport error, a redirect to another origin, a     *)
(* compressed body, or headers that do not fit the body.                    *)
RequestFails(t) ==
    /\ phase[t] \in {"sent", "resent"}
    /\ Fail(t, "transport")
    /\ UNCHANGED <<request, part, token, total, content, tokens>>

(* A 401 to the first request: only an allowed realm gets the credentials. *)
Challenged(t, realm) ==
    /\ phase[t] = "sent"
    /\ \/ realm \in AuthHosts /\ Become(t, "exchange") /\ UNCHANGED reason
       \/ realm \notin AuthHosts /\ Fail(t, "realm")
    /\ UNCHANGED <<request, part, token, total, content, tokens>>

(* The token service answers.  Its token is in the thread's hands first ... *)
Granted(t) ==
    /\ phase[t] = "exchange"
    /\ token' = [token EXCEPT ![t] =
           [repository |-> Repository(t), thread |-> t, part |-> part[t]]]
    /\ Become(t, "granted")
    /\ UNCHANGED <<request, part, total, content, reason, tokens>>

ExchangeFails(t) ==
    /\ phase[t] = "exchange"
    /\ Fail(t, "token")
    /\ UNCHANGED <<request, part, token, total, content, tokens>>

(* ... then in the cache, where another thread may replace it ... *)
Store(t) ==
    /\ phase[t] = "granted"
    /\ CacheToken(Repository(t), token[t])
    /\ Become(t, "stored")
    /\ UNCHANGED <<request, part, token, total, content, reason>>

(* ... and the request goes out again with the token in hand.               *)
ResendCached(t) ==   \* mutant: with the token the cache holds by then
    /\ phase[t] = "stored"
    /\ token' = [token EXCEPT ![t] = tokens[Repository(t)]]
    /\ Become(t, "resent")
    /\ UNCHANGED <<request, part, total, content, reason, tokens>>
Resend(t) ==
    /\ phase[t] = "stored"
    /\ Become(t, "resent")
    /\ UNCHANGED <<request, part, token, total, content, reason, tokens>>

(* A 401 to the request with the new token is final. *)
ExchangeAgain(t) ==   \* mutant: every 401 is exchanged
    /\ phase[t] = "resent"
    /\ Become(t, "exchange")
    /\ UNCHANGED <<request, part, token, total, content, reason, tokens>>
ChallengedAgain(t) ==
    /\ phase[t] = "resent"
    /\ Fail(t, "unauthorized")
    /\ UNCHANGED <<request, part, token, total, content, tokens>>

-----------------------------------------------------------------------------

Init ==
    /\ phase = [t \in Threads |-> "idle"]
    /\ request \in [Threads -> Requests]
    /\ part = [t \in Threads |-> 0]
    /\ token = [t \in Threads |-> NoToken]
    /\ total = [t \in Threads |-> 0]
    /\ content = [t \in Threads |-> <<>>]
    /\ reason = [t \in Threads |-> "none"]
    /\ tokens = [k \in Repositories |-> NoToken]

Step(t) ==
    \/ Begin(t) \/ WalkOn(t) \/ Finish(t)
    \/ Send(t) \/ RequestFails(t)
    \/ \E body \in Bodies : Served(t, body)
    \/ \E realm \in Realms : Challenged(t, realm)
    \/ Granted(t) \/ ExchangeFails(t) \/ Store(t) \/ Resend(t) \/ ChallengedAgain(t)

(* Every verification has ended. *)
Rest == (\A t \in Threads : phase[t] \in {"verified", "failed"}) /\ UNCHANGED vars

Next == (\E t \in Threads : Step(t)) \/ Rest

Spec == Init /\ [][Next]_vars

(* Every request is answered or times out, and threads are scheduled. *)
FairSpec == Spec /\ \A t \in Threads : WF_vars(Step(t))

-----------------------------------------------------------------------------
(* Properties. *)

(* A receipt stands for every descriptor of the manifest that the reference *)
(* pins, read in order at its declared digest and size, each within its     *)
(* limit (oci.py:347-482).                                                  *)
ReceiptIsComplete ==
    \A t \in Threads : phase[t] = "verified" =>
        LET n == Len(ManifestOf(t)) IN
        /\ IsAdmissible(request[t])
        /\ SizeOf[request[t].digest] <= MaxManifest
        /\ Len(content[t]) = n
        /\ \A i \in 1 .. n :
               /\ content[t][i].digest = ManifestOf(t)[i].digest
               /\ content[t][i].size = SizeOf[content[t][i].digest]
               /\ content[t][i].size <= MaxBlob

(* The bytes of the descriptors that a thread has verified. *)
ContentSize(t) == SumFunction([i \in DOMAIN content[t] |-> SizeOf[content[t][i].digest]])

(* "Verification failures never become receipts" (docs/architecture.md): a  *)
(* receipt is complete, and all it stands for is within the limit on the    *)
(* whole artifact, whatever the registry answered in between.               *)
ReceiptIsSound ==
    /\ ReceiptIsComplete
    /\ \A t \in Threads : phase[t] = "verified" =>
           SizeOf[request[t].digest] + ContentSize(t) <= MaxTotal

(* A bearer token goes only to the repository it was granted for, although  *)
(* all threads put theirs in one cache: each exchange asks for the pull     *)
(* scope of one repository (oci.py:615).                                    *)
TokensKeepScope ==
    \A t \in Threads : phase[t] \in {"sent", "resent"} =>
        \/ token[t] \in {NoToken, IdentityTokens[Repository(t)]}
        \/ token[t].repository = Repository(t)

(* No thread fails on a token of another: a verification ends unauthorized  *)
(* only when the registry refuses a token this very request was granted,    *)
(* never because the shared cache held an old one (oci.py:496-522).         *)
RefusedTokenIsFresh ==
    \A t \in Threads : reason[t] = "unauthorized" =>
        token[t] = [repository |-> Repository(t), thread |-> t, part |-> part[t]]

(* Every verification ends in a receipt or an error: one exchange and one   *)
(* resend per request, and one request per part.                            *)
VerificationEnds ==
    \A t \in Threads : phase[t] = "idle" ~> phase[t] \in {"verified", "failed"}

=============================================================================
