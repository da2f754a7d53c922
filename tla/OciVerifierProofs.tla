--------------------------- MODULE OciVerifierProofs ---------------------------
(***************************************************************************)
(* The threads of a verifier share their token cache, and still each       *)
(* answers for itself: a token stays with its repository, a refusal is of  *)
(* the thread's own token, and a receipt is complete.  The invariant is    *)
(* local to a thread but for one clause about the cache.                   *)
(***************************************************************************)
EXTENDS OciVerifier, TLAPS, FiniteSetTheorems, WellFoundedInduction

Grants == [repository : Repositories, thread : Threads, part : Nat]
Reasons == {"none", "refused", "size", "content", "transport", "realm", "token", "unauthorized"}
Identities == {IdentityTokens[k] : k \in Repositories}
Pieces == [digest : Bodies, size : Nat]

Typed ==
    /\ phase \in [Threads -> Phases]
    /\ request \in [Threads -> Requests]
    /\ part \in [Threads -> Nat]
    /\ token \in [Threads -> Grants \union Identities \union {NoToken}]
    /\ content \in [Threads -> Seq(Pieces)]
    /\ reason \in [Threads -> Reasons]
    /\ tokens \in [Repositories -> Grants \union {NoToken}]

(* The cache keeps each token under the repository it was granted for. *)
CacheKeepsScope ==
    \A k \in Repositories : tokens[k] = NoToken \/ tokens[k].repository = k

(* Phases of one fetch, and those in which its own token is in hand. *)
Fetching == {"fetch", "sent", "exchange", "granted", "stored", "resent"}
InHand == {"granted", "stored", "resent"}

OwnToken(t) == [repository |-> Repository(t), thread |-> t, part |-> part[t]]

(* What a thread knows of its token ... *)
HoldsItsToken(t) ==
    /\ phase[t] \notin {"idle", "failed"} => IsAdmissible(request[t])
    /\ phase[t] = "sent" =>
           \/ token[t] \in {NoToken, IdentityTokens[Repository(t)]}
           \/ token[t].repository = Repository(t)
    /\ phase[t] \in InHand => token[t] = OwnToken(t)
    /\ reason[t] # "none" => phase[t] = "failed"
    /\ reason[t] = "unauthorized" => token[t] = OwnToken(t)

(* ... and of the descriptors it has walked past.                            *)
HasRead(t) ==
    phase[t] # "failed" =>
        /\ part[t] = 0 =>
               phase[t] \notin {"walk", "verified"} /\ content[t] = <<>>
        /\ part[t] > 0 =>
               /\ phase[t] # "idle"
               /\ request[t].digest \in DOMAIN Manifests
               /\ SizeOf[request[t].digest] <= MaxManifest
               /\ Len(content[t]) = part[t] - 1
               /\ part[t] <= Len(ManifestOf(t)) + 1
               /\ \A i \in 1 .. part[t] - 1 :
                      /\ content[t][i].digest = ManifestOf(t)[i].digest
                      /\ content[t][i].size = SizeOf[content[t][i].digest]
                      /\ content[t][i].size <= MaxBlob
               /\ phase[t] \in Fetching =>
                      part[t] <= Len(ManifestOf(t)) /\ Descriptor(t).size <= MaxBlob
               /\ phase[t] = "verified" => part[t] = Len(ManifestOf(t)) + 1

ThreadInv(t) == HoldsItsToken(t) /\ HasRead(t)

VerifierInv == Typed /\ CacheKeepsScope /\ \A t \in Threads : ThreadInv(t)

LEMMA VerifierInit == Init => VerifierInv
  <1> SUFFICES ASSUME Init PROVE VerifierInv
    OBVIOUS
  <1>1. Typed
    <2>1. content \in [Threads -> Seq(Pieces)]
      <3>1. <<>> \in Seq(Pieces)
        OBVIOUS
      <3> QED
        BY <3>1 DEF Init
    <2>2. token \in [Threads -> Grants \union Identities \union {NoToken}]
      BY DEF Init
    <2>3. tokens \in [Repositories -> Grants \union {NoToken}]
      BY DEF Init
    <2>4. phase \in [Threads -> Phases] /\ request \in [Threads -> Requests]
      BY DEF Init, Phases
    <2>5. part \in [Threads -> Nat]
      BY DEF Init
    <2>6. reason \in [Threads -> Reasons]
      BY DEF Init, Reasons
    <2> QED
      BY <2>1, <2>2, <2>3, <2>4, <2>5, <2>6 DEF Typed
  <1>2. CacheKeepsScope
    BY DEF Init, CacheKeepsScope
  <1>3. \A t \in Threads : HoldsItsToken(t)
    BY DEF Init, HoldsItsToken, InHand
  <1>4. \A t \in Threads : HasRead(t)
    BY DEF Init, HasRead
  <1> QED
    BY <1>1, <1>2, <1>3, <1>4 DEF VerifierInv, ThreadInv

(* A step of one thread touches no other, but for the cache. *)
LEMMA OthersKept ==
    ASSUME Typed, NEW t \in Threads, Step(t), NEW u \in Threads, u # t
    PROVE  /\ phase'[u] = phase[u] /\ request'[u] = request[u] /\ part'[u] = part[u]
           /\ token'[u] = token[u] /\ content'[u] = content[u] /\ reason'[u] = reason[u]
  <1>1. CASE Begin(t) \/ Finish(t) \/ RequestFails(t) \/ ExchangeFails(t) \/ Granted(t)
             \/ Store(t) \/ Resend(t) \/ ChallengedAgain(t) \/ Send(t)
    BY <1>1 DEF Begin, Finish, RequestFails, ExchangeFails, Granted, Store, Resend,
       ChallengedAgain, Send, Become, Fail, Typed
  <1>2. ASSUME NEW realm \in Realms, Challenged(t, realm)
        PROVE  /\ phase'[u] = phase[u] /\ request'[u] = request[u] /\ part'[u] = part[u]
               /\ token'[u] = token[u] /\ content'[u] = content[u]
               /\ reason'[u] = reason[u]
    BY <1>2 DEF Challenged, Become, Fail, Typed
  <1>3. ASSUME NEW body, AcceptContent(t, body)
        PROVE  /\ phase'[u] = phase[u] /\ part'[u] = part[u]
               /\ content'[u] = content[u] /\ reason'[u] = reason[u]
    BY <1>3 DEF AcceptContent, Become, Fail, Typed
  <1>4. CASE WalkOn(t)
    BY <1>3, <1>4 DEF WalkOn, Become, Fail, Typed
  <1>5. ASSUME NEW body \in Bodies, Served(t, body)
        PROVE  /\ phase'[u] = phase[u] /\ request'[u] = request[u] /\ part'[u] = part[u]
               /\ token'[u] = token[u] /\ content'[u] = content[u]
               /\ reason'[u] = reason[u]
    BY <1>3, <1>5 DEF Served, Become, Fail, Typed
  <1> QED
    BY <1>1, <1>2, <1>4, <1>5 DEF Step

LEMMA OthersInv ==
    ASSUME VerifierInv, NEW t \in Threads, Step(t), NEW u \in Threads, u # t
    PROVE  ThreadInv(u)'
  <1>1. /\ phase'[u] = phase[u] /\ request'[u] = request[u] /\ part'[u] = part[u]
        /\ token'[u] = token[u] /\ content'[u] = content[u] /\ reason'[u] = reason[u]
    BY OthersKept DEF VerifierInv
  <1>2. HoldsItsToken(u)'
    BY <1>1 DEF VerifierInv, ThreadInv, HoldsItsToken, OwnToken, Repository
  <1>3. HasRead(u)'
    BY <1>1 DEF VerifierInv, ThreadInv, HasRead, ManifestOf, Descriptor
  <1> QED
    BY <1>2, <1>3 DEF ThreadInv

-----------------------------------------------------------------------------
(* The steps of one thread. *)

(* Any failure but a refused token. *)
LEMMA Failing ==
    ASSUME VerifierInv, NEW t \in Threads, NEW why \in Reasons, Fail(t, why),
           why # "unauthorized" \/ token[t] = OwnToken(t),
           UNCHANGED <<request, part, token, content, tokens>>
    PROVE  Typed' /\ CacheKeepsScope' /\ ThreadInv(t)'
  <1>1. phase' = [phase EXCEPT ![t] = "failed"] /\ reason' = [reason EXCEPT ![t] = why]
    BY DEF Fail, Become
  <1>2. Typed'
    BY <1>1 DEF VerifierInv, Typed, Phases
  <1>3. CacheKeepsScope'
    BY DEF VerifierInv, CacheKeepsScope
  <1>4. phase'[t] = "failed" /\ reason'[t] = why
    BY <1>1 DEF VerifierInv, Typed
  <1>5. HoldsItsToken(t)'
    BY <1>4 DEF HoldsItsToken, OwnToken, Repository, InHand
  <1>6. HasRead(t)'
    BY <1>4 DEF HasRead
  <1> QED
    BY <1>2, <1>3, <1>5, <1>6 DEF ThreadInv

(* A step that only moves the thread on within a fetch or to its end. *)
LEMMA Moving ==
    ASSUME VerifierInv, NEW t \in Threads, NEW p \in Phases, Become(t, p),
           UNCHANGED <<request, part, content, reason>>,
           token' \in [Threads -> Grants \union Identities \union {NoToken}],
           tokens' \in [Repositories -> Grants \union {NoToken}],
           CacheKeepsScope',
           p \notin {"idle", "failed"}, phase[t] # "failed", IsAdmissible(request[t]),
           p = "sent" => \/ token'[t] \in {NoToken, IdentityTokens[Repository(t)]}
                         \/ token'[t].repository = Repository(t),
           p \in InHand => token'[t] = OwnToken(t),
           part[t] = 0 => p \in Fetching,
           part[t] > 0 /\ p \in Fetching =>
               part[t] <= Len(ManifestOf(t)) /\ Descriptor(t).size <= MaxBlob,
           p = "verified" => part[t] = Len(ManifestOf(t)) + 1
    PROVE  Typed' /\ CacheKeepsScope' /\ ThreadInv(t)'
  <1>1. phase' = [phase EXCEPT ![t] = p] /\ phase'[t] = p
    BY DEF Become, VerifierInv, Typed
  <1>2. Typed'
    BY <1>1 DEF VerifierInv, Typed
  <1>3. HoldsItsToken(t)'
    <2>1. reason[t] = "none"
      BY DEF VerifierInv, ThreadInv, HoldsItsToken
    <2> QED
      BY <1>1, <2>1 DEF HoldsItsToken, OwnToken, Repository
  <1>4. HasRead(t)'
    <2>1. HasRead(t)
      BY DEF VerifierInv, ThreadInv
    <2> QED
      BY <1>1, <2>1 DEF HasRead, ManifestOf, Descriptor, Fetching
  <1> QED
    BY <1>2, <1>3, <1>4 DEF ThreadInv

(* The bytes of the descriptor the thread is at are accepted or not. *)
LEMMA Accepting ==
    ASSUME VerifierInv, NEW t \in Threads, NEW body \in Bodies, AcceptContent(t, body),
           UNCHANGED <<request, token, tokens>>,
           phase[t] # "failed", IsAdmissible(request[t]),
           part[t] > 0, part[t] <= Len(ManifestOf(t)), Descriptor(t).size <= MaxBlob
    PROVE  Typed' /\ CacheKeepsScope' /\ ThreadInv(t)'
  <1> DEFINE d == Descriptor(t)
  <1>1. CASE Fail(t, "content") /\ UNCHANGED <<part, total, content>>
    <2>1. "content" # "unauthorized" /\ UNCHANGED <<request, part, token, content, tokens>>
      BY <1>1
    <2>2. Fail(t, "content")
      BY <1>1
    <2> QED
      BY <2>1, <2>2, Failing DEF Reasons
  <1>2. CASE /\ Matches(d, body)
             /\ Become(t, "walk")
             /\ part' = [part EXCEPT ![t] = @ + 1]
             /\ content' = [content EXCEPT ![t] =
                               Append(@, [digest |-> d.digest, size |-> d.size])]
             /\ UNCHANGED reason
    <2> DEFINE piece == [digest |-> d.digest, size |-> d.size]
    <2>1. d.digest = body /\ d.size = SizeOf[body] /\ piece \in Pieces
      BY <1>2, BodiesAssumption DEF Matches, Pieces
    <2> HIDE DEF piece
    <2>2. /\ content[t] \in Seq(Pieces) /\ part[t] \in Nat
          /\ content' = [content EXCEPT ![t] = Append(content[t], piece)]
          /\ content'[t] = Append(content[t], piece)
          /\ phase' = [phase EXCEPT ![t] = "walk"] /\ phase'[t] = "walk"
          /\ part' = [part EXCEPT ![t] = part[t] + 1] /\ part'[t] = part[t] + 1
      BY <1>2 DEF VerifierInv, Typed, Become, piece
    <2>3. Append(content[t], piece) \in Seq(Pieces)
      BY <2>1, <2>2
    <2>4. Typed'
      BY <1>2, <2>2, <2>3 DEF VerifierInv, Typed, Phases
    <2>5. CacheKeepsScope'
      BY DEF VerifierInv, CacheKeepsScope
    <2>6. HoldsItsToken(t)'
      <3>1. reason[t] = "none"
        BY DEF VerifierInv, ThreadInv, HoldsItsToken
      <3> QED
        BY <1>2, <2>2, <3>1 DEF HoldsItsToken, OwnToken, Repository, InHand
    <2>7. HasRead(t)'
      <3>1. HasRead(t)
        BY DEF VerifierInv, ThreadInv
      <3>2. /\ request[t].digest \in DOMAIN Manifests
            /\ SizeOf[request[t].digest] <= MaxManifest
            /\ Len(content[t]) = part[t] - 1
            /\ \A i \in 1 .. part[t] - 1 :
                   /\ content[t][i].digest = ManifestOf(t)[i].digest
                   /\ content[t][i].size = SizeOf[content[t][i].digest]
                   /\ content[t][i].size <= MaxBlob
        BY <3>1 DEF HasRead
      <3>3. /\ Len(content'[t]) = part[t]
            /\ \A i \in 1 .. part[t] - 1 : content'[t][i] = content[t][i]
            /\ content'[t][part[t]] = piece
        BY <2>1, <2>2, <3>2
      <3>4. /\ piece.digest = ManifestOf(t)[part[t]].digest
            /\ piece.size = SizeOf[piece.digest]
            /\ piece.size <= MaxBlob
        BY <2>1 DEF piece, Descriptor
      <3>5. \A i \in 1 .. part[t] :
                /\ content'[t][i].digest = ManifestOf(t)[i].digest
                /\ content'[t][i].size = SizeOf[content'[t][i].digest]
                /\ content'[t][i].size <= MaxBlob
        <4> TAKE i \in 1 .. part[t]
        <4>1. CASE i = part[t]
          BY <3>3, <3>4, <4>1
        <4>2. CASE i \in 1 .. part[t] - 1
          BY <3>2, <3>3, <4>2
        <4>3. i = part[t] \/ i \in 1 .. part[t] - 1
          BY <2>2
        <4> QED
          BY <4>1, <4>2, <4>3
      <3>6. Len(ManifestOf(t)) \in Nat
        BY <3>2, ManifestsAssumption DEF ManifestOf
      <3> QED
        BY <2>2, <3>2, <3>3, <3>5, <3>6 DEF HasRead, ManifestOf, Fetching
    <2> QED
      BY <2>4, <2>5, <2>6, <2>7 DEF ThreadInv
  <1> QED
    BY <1>1, <1>2 DEF AcceptContent

LEMMA AdmittedIsKeyed ==
    ASSUME VerifierInv, NEW t \in Threads, phase[t] \notin {"idle", "failed"}
    PROVE  /\ IsAdmissible(request[t])
           /\ Repository(t) \in Repositories
  BY RequestsAssumption
     DEF VerifierInv, Typed, ThreadInv, HoldsItsToken, IsAdmissible, Repository

LEMMA BeginStep ==
    ASSUME VerifierInv, NEW t \in Threads, Begin(t)
    PROVE  Typed' /\ CacheKeepsScope' /\ ThreadInv(t)'
  <1>1. phase[t] = "idle" /\ UNCHANGED <<request, part, token, total, content, tokens>>
    BY DEF Begin
  <1>2. CASE Fail(t, "refused")
    <2>1. "refused" # "unauthorized"
      OBVIOUS
    <2> QED
      BY <1>1, <1>2, <2>1, Failing DEF Reasons
  <1>3. CASE IsAdmissible(request[t]) /\ Become(t, "fetch") /\ UNCHANGED reason
    <2>1. /\ token' \in [Threads -> Grants \union Identities \union {NoToken}]
          /\ tokens' \in [Repositories -> Grants \union {NoToken}]
          /\ CacheKeepsScope'
      BY <1>1 DEF VerifierInv, Typed, CacheKeepsScope
    <2>2. part[t] = 0
      <3>1. part[t] \in Nat /\ HasRead(t)
        BY <1>1 DEF VerifierInv, Typed, ThreadInv
      <3>2. ~(part[t] > 0)
        BY <1>1, <3>1 DEF HasRead
      <3> QED
        BY <3>1, <3>2
    <2>3. "fetch" \in Phases /\ "fetch" \notin InHand
      BY DEF Phases, InHand
    <2> QED
      BY <1>1, <1>3, <2>1, <2>2, <2>3, Moving DEF Fetching
  <1> QED
    BY <1>2, <1>3 DEF Begin

LEMMA WalkStep ==
    ASSUME VerifierInv, NEW t \in Threads, WalkOn(t)
    PROVE  Typed' /\ CacheKeepsScope' /\ ThreadInv(t)'
  <1> DEFINE d == Descriptor(t)
  <1>1. /\ phase[t] = "walk" /\ part[t] <= Len(ManifestOf(t))
        /\ UNCHANGED <<request, token, tokens>>
    BY DEF WalkOn
  <1>2. IsAdmissible(request[t])
    BY <1>1, AdmittedIsKeyed
  <1>3. part[t] > 0 /\ part[t] \in Nat /\ request[t].digest \in DOMAIN Manifests
    BY <1>1 DEF VerifierInv, Typed, ThreadInv, HasRead
  <1>4. CASE Fail(t, "content") /\ UNCHANGED <<part, total, content>>
    <2>1. "content" # "unauthorized" /\ UNCHANGED <<request, part, token, content, tokens>>
      BY <1>1, <1>4
    <2> QED
      BY <1>4, <2>1, Failing DEF Reasons
  <1>5. CASE d.size <= MaxBlob /\ Become(t, "fetch") /\ UNCHANGED <<part, total, content, reason>>
    <2>1. /\ token' \in [Threads -> Grants \union Identities \union {NoToken}]
          /\ tokens' \in [Repositories -> Grants \union {NoToken}]
          /\ CacheKeepsScope'
      BY <1>1 DEF VerifierInv, Typed, CacheKeepsScope
    <2>2. "fetch" \in Phases /\ "fetch" \notin InHand
      BY DEF Phases, InHand
    <2> QED
      BY <1>1, <1>2, <1>3, <1>5, <2>1, <2>2, Moving
  <1>6. CASE d.size <= MaxBlob /\ d.data # NoData /\ AcceptContent(t, d.data)
    <2>1. part[t] \in DOMAIN ManifestOf(t)
      BY <1>1, <1>3, ManifestsAssumption DEF ManifestOf
    <2>2. d.data \in Bodies
      BY <1>3, <1>6, <2>1, ManifestsAssumption DEF ManifestOf, Descriptor
    <2> QED
      BY <1>1, <1>2, <1>3, <1>6, <2>2, Accepting
  <1> QED
    BY <1>4, <1>5, <1>6 DEF WalkOn

LEMMA FinishStep ==
    ASSUME VerifierInv, NEW t \in Threads, Finish(t)
    PROVE  Typed' /\ CacheKeepsScope' /\ ThreadInv(t)'
  <1>1. /\ phase[t] = "walk" /\ part[t] > Len(ManifestOf(t)) /\ Become(t, "verified")
        /\ UNCHANGED <<request, part, token, total, content, reason, tokens>>
    BY DEF Finish
  <1>2. IsAdmissible(request[t])
    BY <1>1, AdmittedIsKeyed
  <1>3. /\ part[t] > 0 /\ part[t] \in Nat /\ request[t].digest \in DOMAIN Manifests
        /\ part[t] <= Len(ManifestOf(t)) + 1
    BY <1>1 DEF VerifierInv, Typed, ThreadInv, HasRead
  <1>4. part[t] = Len(ManifestOf(t)) + 1
    <2>1. Len(ManifestOf(t)) \in Nat
      BY <1>3, ManifestsAssumption DEF ManifestOf
    <2> QED
      BY <1>1, <1>3, <2>1
  <1>5. /\ token' \in [Threads -> Grants \union Identities \union {NoToken}]
        /\ tokens' \in [Repositories -> Grants \union {NoToken}]
        /\ CacheKeepsScope'
    BY <1>1 DEF VerifierInv, Typed, CacheKeepsScope
  <1>6. "verified" \in Phases /\ "verified" \notin InHand /\ "verified" \notin Fetching
    BY DEF Phases, InHand, Fetching
  <1> QED
    BY <1>1, <1>2, <1>3, <1>4, <1>5, <1>6, Moving

LEMMA SendStep ==
    ASSUME VerifierInv, NEW t \in Threads, Send(t)
    PROVE  Typed' /\ CacheKeepsScope' /\ ThreadInv(t)'
  <1> DEFINE k == Repository(t)
  <1> DEFINE sent == IF tokens[k] # NoToken THEN tokens[k] ELSE IdentityTokens[k]
  <1>1. /\ phase[t] = "fetch" /\ Become(t, "sent") /\ token' = [token EXCEPT ![t] = sent]
        /\ UNCHANGED <<request, part, total, content, reason, tokens>>
    BY DEF Send
  <1>2. IsAdmissible(request[t]) /\ k \in Repositories
    BY <1>1, AdmittedIsKeyed
  <1>3. /\ sent \in Grants \union Identities \union {NoToken}
        /\ sent \in {NoToken, IdentityTokens[k]} \/ sent.repository = k
    BY <1>2 DEF VerifierInv, Typed, CacheKeepsScope, Identities
  <1> HIDE DEF sent
  <1>4. /\ token' \in [Threads -> Grants \union Identities \union {NoToken}]
        /\ token'[t] = sent
    BY <1>1, <1>3 DEF VerifierInv, Typed
  <1>5. tokens' \in [Repositories -> Grants \union {NoToken}] /\ CacheKeepsScope'
    BY <1>1 DEF VerifierInv, Typed, CacheKeepsScope
  <1>6. part[t] > 0 => part[t] <= Len(ManifestOf(t)) /\ Descriptor(t).size <= MaxBlob
    BY <1>1 DEF VerifierInv, ThreadInv, HasRead, Fetching
  <1>7. "sent" \in Phases /\ "sent" \notin InHand /\ "sent" \in Fetching
    BY DEF Phases, InHand, Fetching
  <1> QED
    BY <1>1, <1>2, <1>3, <1>4, <1>5, <1>6, <1>7, Moving

(* What a thread within a fetch knows. *)
LEMMA FetchFacts ==
    ASSUME VerifierInv, NEW t \in Threads, phase[t] \in Fetching
    PROVE  /\ IsAdmissible(request[t]) /\ Repository(t) \in Repositories
           /\ phase[t] # "failed" /\ part[t] \in Nat
           /\ part[t] > 0 => part[t] <= Len(ManifestOf(t)) /\ Descriptor(t).size <= MaxBlob
  <1>1. phase[t] \notin {"idle", "failed"}
    BY DEF Fetching
  <1> QED
    BY <1>1, AdmittedIsKeyed DEF VerifierInv, Typed, ThreadInv, HasRead

LEMMA ServedStep ==
    ASSUME VerifierInv, NEW t \in Threads, NEW body \in Bodies, Served(t, body)
    PROVE  Typed' /\ CacheKeepsScope' /\ ThreadInv(t)'
  <1>1. phase[t] \in {"sent", "resent"} /\ UNCHANGED <<request, token, tokens>>
    BY DEF Served
  <1>2. /\ IsAdmissible(request[t]) /\ phase[t] # "failed" /\ part[t] \in Nat
        /\ part[t] > 0 => part[t] <= Len(ManifestOf(t)) /\ Descriptor(t).size <= MaxBlob
    BY <1>1, FetchFacts DEF Fetching
  <1>3. ASSUME NEW why \in {"size", "content"}, Fail(t, why), UNCHANGED <<part, content>>
        PROVE  Typed' /\ CacheKeepsScope' /\ ThreadInv(t)'
    <2>1. why \in Reasons /\ why # "unauthorized"
      BY <1>3 DEF Reasons
    <2> QED
      BY <1>1, <1>3, <2>1, Failing
  <1>4. CASE part[t] > 0 /\ AcceptContent(t, body)
    BY <1>1, <1>2, <1>4, Accepting
  <1>5. CASE /\ part[t] = 0 /\ SizeOf[body] <= Maximum(t)
             /\ body = request[t].digest /\ body \in DOMAIN Manifests
             /\ Become(t, "walk") /\ part' = [part EXCEPT ![t] = 1]
             /\ UNCHANGED <<content, reason>>
    <2>1. /\ phase' = [phase EXCEPT ![t] = "walk"] /\ phase'[t] = "walk"
          /\ part' = [part EXCEPT ![t] = 1] /\ part'[t] = 1
      BY <1>5 DEF Become, VerifierInv, Typed
    <2>2. Typed'
      BY <1>1, <1>5, <2>1 DEF VerifierInv, Typed, Phases
    <2>3. CacheKeepsScope'
      BY <1>1 DEF VerifierInv, CacheKeepsScope
    <2>4. reason[t] = "none"
      BY <1>2 DEF VerifierInv, ThreadInv, HoldsItsToken
    <2>5. HoldsItsToken(t)'
      BY <1>1, <1>2, <1>5, <2>1, <2>4 DEF HoldsItsToken, InHand
    <2>6. content[t] = <<>> /\ SizeOf[request[t].digest] <= MaxManifest
      BY <1>2, <1>5 DEF VerifierInv, ThreadInv, HasRead, Maximum
    <2>7. Len(Manifests[request[t].digest]) \in Nat \ {0}
      BY <1>5, ManifestsAssumption
    <2>8. HasRead(t)'
      <3>1. Len(content'[t]) = 0
        BY <1>5, <2>6
      <3> QED
        BY <1>1, <1>5, <2>1, <2>6, <2>7, <3>1 DEF HasRead, ManifestOf, Fetching
    <2> QED
      BY <2>2, <2>3, <2>5, <2>8 DEF ThreadInv
  <1>6. CASE SizeOf[body] > Maximum(t)
    <2>1. Fail(t, "size") /\ UNCHANGED <<part, content>>
      BY <1>6 DEF Served
    <2> QED
      BY <1>3, <2>1
  <1>7. CASE ~(SizeOf[body] > Maximum(t)) /\ part[t] = 0
    <2>1. CASE body = request[t].digest /\ body \in DOMAIN Manifests
      <3>1. SizeOf[body] <= Maximum(t)
        BY <1>7, BodiesAssumption, LimitsAssumption DEF Maximum
      <3> QED
        BY <1>5, <1>7, <2>1, <3>1 DEF Served
    <2>2. CASE ~(body = request[t].digest /\ body \in DOMAIN Manifests)
      <3>1. Fail(t, "content") /\ UNCHANGED <<part, content>>
        BY <1>7, <2>2 DEF Served
      <3> QED
        BY <1>3, <3>1
    <2> QED
      BY <2>1, <2>2
  <1>8. CASE ~(SizeOf[body] > Maximum(t)) /\ part[t] > 0
    BY <1>4, <1>8 DEF Served
  <1> QED
    BY <1>2, <1>6, <1>7, <1>8

(* The rest of a fetch: the challenge, the exchange and what may fail. *)
LEMMA FetchStep ==
    ASSUME VerifierInv, NEW t \in Threads,
           \/ RequestFails(t) \/ ExchangeFails(t) \/ ChallengedAgain(t)
           \/ Granted(t) \/ Store(t) \/ Resend(t)
           \/ \E realm \in Realms : Challenged(t, realm)
    PROVE  Typed' /\ CacheKeepsScope' /\ ThreadInv(t)'
  <1>. DEFINE Goal == Typed' /\ CacheKeepsScope' /\ ThreadInv(t)'
  <1>1. phase[t] \in Fetching /\ UNCHANGED <<request, part, content>>
    BY DEF RequestFails, ExchangeFails, ChallengedAgain, Granted, Store, Resend, Challenged,
       Fetching
  <1>2. /\ IsAdmissible(request[t]) /\ Repository(t) \in Repositories
        /\ phase[t] # "failed" /\ part[t] \in Nat
        /\ part[t] > 0 => part[t] <= Len(ManifestOf(t)) /\ Descriptor(t).size <= MaxBlob
    BY <1>1, FetchFacts
  <1>3. phase[t] \in InHand => token[t] = OwnToken(t)
    BY DEF VerifierInv, ThreadInv, HoldsItsToken
  <1>4. ASSUME NEW why \in Reasons, Fail(t, why), why # "unauthorized", UNCHANGED <<token, tokens>>
        PROVE  Goal
    BY <1>1, <1>4, Failing
  <1>5. ASSUME NEW p \in {"exchange", "resent"}, Become(t, p), p = "resent" => phase[t] \in InHand,
               UNCHANGED <<token, tokens, reason>>
        PROVE  Goal
    <2>1. /\ token' \in [Threads -> Grants \union Identities \union {NoToken}]
          /\ tokens' \in [Repositories -> Grants \union {NoToken}]
          /\ CacheKeepsScope'
      BY <1>5 DEF VerifierInv, Typed, CacheKeepsScope
    <2>2. /\ p \in Phases /\ p \in Fetching /\ p \notin {"idle", "failed", "sent", "verified"}
          /\ p \in InHand => token'[t] = OwnToken(t)
      BY <1>3, <1>5 DEF Phases, Fetching, InHand
    <2> QED
      BY <1>1, <1>2, <1>5, <2>1, <2>2, Moving
  <1>6. CASE RequestFails(t) \/ ExchangeFails(t)
    <2>1. \/ Fail(t, "transport") /\ UNCHANGED <<token, tokens>>
          \/ Fail(t, "token") /\ UNCHANGED <<token, tokens>>
      BY <1>6 DEF RequestFails, ExchangeFails
    <2> QED
      BY <1>4, <2>1 DEF Reasons
  <1>7. CASE ChallengedAgain(t)
    <2>1. phase[t] = "resent" /\ Fail(t, "unauthorized") /\ UNCHANGED <<token, tokens>>
      BY <1>7 DEF ChallengedAgain
    <2>2. token[t] = OwnToken(t) /\ "unauthorized" \in Reasons
      BY <1>3, <2>1 DEF InHand, Reasons
    <2> QED
      BY <1>1, <2>1, <2>2, Failing
  <1>8. CASE \E realm \in Realms : Challenged(t, realm)
    <2>1. /\ UNCHANGED <<token, tokens>>
          /\ \/ Become(t, "exchange") /\ UNCHANGED reason
             \/ Fail(t, "realm")
      BY <1>8 DEF Challenged
    <2> QED
      BY <1>4, <1>5, <2>1 DEF Reasons
  <1>9. CASE Resend(t)
    BY <1>5, <1>9 DEF Resend, InHand
  <1>10. CASE Granted(t)
    <2>1. /\ token' = [token EXCEPT ![t] = OwnToken(t)] /\ Become(t, "granted")
          /\ UNCHANGED <<reason, tokens>>
      BY <1>10 DEF Granted, OwnToken
    <2>2. OwnToken(t) \in Grants
      BY <1>2 DEF OwnToken, Grants
    <2>3. /\ token' \in [Threads -> Grants \union Identities \union {NoToken}]
          /\ token'[t] = OwnToken(t)
      BY <2>1, <2>2 DEF VerifierInv, Typed
    <2>4. tokens' \in [Repositories -> Grants \union {NoToken}] /\ CacheKeepsScope'
      BY <2>1 DEF VerifierInv, Typed, CacheKeepsScope
    <2>5. "granted" \in Phases /\ "granted" \in Fetching
      BY DEF Phases, Fetching
    <2> QED
      BY <1>1, <1>2, <2>1, <2>3, <2>4, <2>5, Moving
  <1>11. CASE Store(t)
    <2>1. /\ phase[t] = "granted" /\ Become(t, "stored")
          /\ tokens' = [tokens EXCEPT ![Repository(t)] = token[t]]
          /\ UNCHANGED <<token, reason>>
      BY <1>11 DEF Store, CacheToken
    <2>2. token[t] = OwnToken(t)
      BY <1>3, <2>1 DEF InHand
    <2>3. token[t] \in Grants /\ token[t].repository = Repository(t)
      BY <1>2, <2>2 DEF OwnToken, Grants
    <2>4. tokens' \in [Repositories -> Grants \union {NoToken}] /\ CacheKeepsScope'
      BY <1>2, <2>1, <2>3 DEF VerifierInv, Typed, CacheKeepsScope
    <2>5. token' \in [Threads -> Grants \union Identities \union {NoToken}]
      BY <2>1 DEF VerifierInv, Typed
    <2>6. "stored" \in Phases /\ "stored" \in Fetching
      BY DEF Phases, Fetching
    <2> QED
      BY <1>1, <1>2, <2>1, <2>2, <2>4, <2>5, <2>6, Moving
  <1> QED
    BY <1>6, <1>7, <1>8, <1>9, <1>10, <1>11

LEMMA VerifierStep == VerifierInv /\ [Next]_vars => VerifierInv'
  <1> SUFFICES ASSUME VerifierInv, [Next]_vars
               PROVE  VerifierInv'
    OBVIOUS
  <1>1. ASSUME NEW t \in Threads, Step(t)
        PROVE  VerifierInv'
    <2>1. Typed' /\ CacheKeepsScope' /\ ThreadInv(t)'
      BY <1>1, BeginStep, WalkStep, FinishStep, SendStep, ServedStep, FetchStep DEF Step
    <2> QED
      BY <1>1, <2>1, OthersInv DEF VerifierInv
  <1>2. CASE UNCHANGED vars
    <2>1. Typed' /\ CacheKeepsScope'
      BY <1>2 DEF vars, threadVars, VerifierInv, Typed, CacheKeepsScope
    <2>2. ASSUME NEW t \in Threads
          PROVE  ThreadInv(t)'
      <3>1. HoldsItsToken(t)'
        BY <1>2 DEF vars, threadVars, VerifierInv, ThreadInv, HoldsItsToken, OwnToken, Repository
      <3>2. HasRead(t)'
        BY <1>2 DEF vars, threadVars, VerifierInv, ThreadInv, HasRead, ManifestOf, Descriptor
      <3> QED
        BY <3>1, <3>2 DEF ThreadInv
    <2> QED
      BY <2>1, <2>2 DEF VerifierInv
  <1> QED
    BY <1>1, <1>2 DEF Next, Rest

THEOREM VerifierInvariance == Spec => []VerifierInv
  BY VerifierInit, VerifierStep, PTL DEF Spec

(* Whatever the threads put in their shared cache, a bearer token goes only *)
(* to the repository it was granted for (oci.py:496-498, 514, 615).         *)
THEOREM TokensStayInScope == Spec => []TokensKeepScope
  <1>1. ASSUME VerifierInv, NEW t \in Threads, phase[t] \in {"sent", "resent"}
        PROVE  \/ token[t] \in {NoToken, IdentityTokens[Repository(t)]}
               \/ token[t].repository = Repository(t)
    <2>1. HoldsItsToken(t)
      BY <1>1 DEF VerifierInv, ThreadInv
    <2>2. OwnToken(t).repository = Repository(t)
      BY DEF OwnToken
    <2> QED
      BY <1>1, <2>1, <2>2 DEF HoldsItsToken, InHand
  <1>2. VerifierInv => TokensKeepScope
    BY <1>1 DEF TokensKeepScope
  <1> QED
    BY <1>2, VerifierInvariance, PTL

(* A verification is refused only for a token it was itself granted, at the *)
(* part it was fetching (oci.py:499-522).                                   *)
THEOREM RefusalsAreOwn == Spec => []RefusedTokenIsFresh
  <1>1. VerifierInv => RefusedTokenIsFresh
    BY DEF VerifierInv, ThreadInv, HoldsItsToken, RefusedTokenIsFresh, OwnToken
  <1> QED
    BY <1>1, VerifierInvariance, PTL

(* A receipt stands for every descriptor of the pinned manifest, in order   *)
(* and each within its limit, whatever the registry answers                 *)
(* (oci.py:347-482).                                                        *)
THEOREM ReceiptsAreComplete == Spec => []ReceiptIsComplete
  <1>1. ASSUME VerifierInv, NEW t \in Threads, phase[t] = "verified"
        PROVE  /\ IsAdmissible(request[t])
               /\ SizeOf[request[t].digest] <= MaxManifest
               /\ Len(content[t]) = Len(ManifestOf(t))
               /\ \A i \in 1 .. Len(ManifestOf(t)) :
                      /\ content[t][i].digest = ManifestOf(t)[i].digest
                      /\ content[t][i].size = SizeOf[content[t][i].digest]
                      /\ content[t][i].size <= MaxBlob
    <2>1. part[t] \in Nat /\ HasRead(t) /\ IsAdmissible(request[t])
      BY <1>1 DEF VerifierInv, Typed, ThreadInv, HoldsItsToken
    <2>2. part[t] > 0
      BY <1>1, <2>1 DEF HasRead
    <2>3. request[t].digest \in DOMAIN Manifests /\ part[t] = Len(ManifestOf(t)) + 1
      BY <1>1, <2>1, <2>2 DEF HasRead
    <2>4. Len(ManifestOf(t)) \in Nat
      BY <2>3, ManifestsAssumption DEF ManifestOf
    <2>5. part[t] - 1 = Len(ManifestOf(t))
      BY <2>3, <2>4
    <2> QED
      BY <1>1, <2>1, <2>2, <2>5 DEF HasRead
  <1>2. VerifierInv => ReceiptIsComplete
    BY <1>1 DEF ReceiptIsComplete
  <1> QED
    BY <1>2, VerifierInvariance, PTL

-----------------------------------------------------------------------------
(* Sums of a function over a finite domain.  SumFunction adds one element   *)
(* after the other, each chosen from those left; the lemmas say that the    *)
(* partial sums exist and that any order gives the same.  They go by        *)
(* induction on the number of elements, as the least counterexample.        *)

First(s) == CHOOSE x \in s : TRUE
Iterates(g, f) ==
    g = [s \in SUBSET DOMAIN f |->
            IF s = {} THEN 0 ELSE f[First(s)] + g[s \ {First(s)}]]
Partial(f) == CHOOSE g : Iterates(g, f)

LEMMA SumIsPartial ==
    ASSUME NEW f
    PROVE  SumFunction(f) = Partial(f)[DOMAIN f]
  BY DEF SumFunction, SumFunctionOnSet, FoldFunctionOnSet, MapThenFoldSet, Partial,
         Iterates, First

(* Every set of natural numbers has a least one. *)
LEMMA LeastOf ==
    ASSUME NEW T \in SUBSET Nat, T # {}
    PROVE  \E n \in T : \A k \in T : n <= k
  <1>1. PICK n \in T : \A k \in T : ~(<<k, n>> \in OpToRel(<, Nat))
    BY NatLessThanWellFounded, WFMin
  <1>2. \A k \in T : ~(k < n)
    BY <1>1 DEF OpToRel
  <1> QED
    BY <1>2

(* A set one smaller. *)
LEMMA WithoutOne ==
    ASSUME NEW s, IsFiniteSet(s), NEW x \in s
    PROVE  /\ IsFiniteSet(s \ {x}) /\ Cardinality(s) \in Nat /\ Cardinality(s \ {x}) \in Nat
           /\ Cardinality(s) = Cardinality(s \ {x}) + 1
  <1>1. IsFiniteSet(s \ {x}) /\ Cardinality(s \ {x}) = Cardinality(s) - 1
    BY FS_RemoveElement
  <1>2. Cardinality(s) \in Nat /\ Cardinality(s \ {x}) \in Nat
    BY <1>1, FS_CardinalityType
  <1> QED
    BY <1>1, <1>2

(* The sums over the subsets of a finite domain exist: by induction on the  *)
(* size of the subsets.                                                     *)
LEMMA PartialSums ==
    ASSUME NEW f, IsFiniteSet(DOMAIN f)
    PROVE  LET g == Partial(f) IN
           /\ g[{}] = 0
           /\ \A s \in SUBSET DOMAIN f :
                  s # {} => g[s] = f[First(s)] + g[s \ {First(s)}]
  <1> DEFINE S == DOMAIN f
             Body(g, s) == IF s = {} THEN 0 ELSE f[First(s)] + g[s \ {First(s)}]
             Fits(g, n) == \A s \in SUBSET S : Cardinality(s) <= n => g[s] = Body(g, s)
  <1>1. \A s \in SUBSET S : IsFiniteSet(s) /\ Cardinality(s) \in Nat
    BY FS_Subset, FS_CardinalityType
  <1>2. \A s \in SUBSET S : s # {} =>
            /\ First(s) \in s /\ s \ {First(s)} \in SUBSET S
            /\ Cardinality(s) = Cardinality(s \ {First(s)}) + 1
    BY <1>1, WithoutOne DEF First
  <1>3. \E g : Fits(g, 0)
    <2> DEFINE g == [s \in SUBSET S |-> 0]
    <2>1. \A s \in SUBSET S : Cardinality(s) <= 0 => s = {}
      BY <1>1, FS_EmptySet
    <2>2. Fits(g, 0)
      BY <2>1
    <2> QED
      BY <2>2
  <1>4. ASSUME NEW n \in Nat, \E g : Fits(g, n)
        PROVE  \E h : Fits(h, n + 1)
    <2>1. PICK g : Fits(g, n)
      BY <1>4
    <2> DEFINE h == [s \in SUBSET S |-> IF Cardinality(s) <= n THEN g[s] ELSE Body(g, s)]
    <2>2. ASSUME NEW s \in SUBSET S, Cardinality(s) <= n + 1
          PROVE  h[s] = Body(h, s)
      <3>1. h[s] = Body(g, s)
        BY <2>1
      <3>2. CASE s = {}
        BY <3>1, <3>2
      <3>3. CASE s # {}
        <4> DEFINE r == s \ {First(s)}
        <4>1. r \in SUBSET S /\ Cardinality(r) <= n
          BY <1>1, <1>2, <2>2, <3>3
        <4>2. h[r] = g[r]
          BY <4>1
        <4> HIDE DEF h
        <4> QED
          BY <3>1, <3>3, <4>2
      <3> QED
        BY <3>2, <3>3
    <2> HIDE DEF h, Body
    <2>3. Fits(h, n + 1)
      BY <2>2
    <2> QED
      BY <2>3
  <1>5. \A n \in Nat : \E g : Fits(g, n)
    <2> DEFINE T == {n \in Nat : ~\E g : Fits(g, n)}
    <2> SUFFICES ASSUME T # {}
                 PROVE  FALSE
      OBVIOUS
    <2> HIDE DEF Fits
    <2>1. PICK n \in T : \A k \in T : n <= k
      BY LeastOf
    <2>2. n \in Nat /\ n # 0
      BY <1>3, <2>1
    <2>3. n - 1 \in Nat /\ n - 1 \notin T /\ (n - 1) + 1 = n
      BY <2>1, <2>2
    <2>4. \E g : Fits(g, n)
      BY <1>4, <2>3
    <2> QED
      BY <2>1, <2>4
  <1>6. PICK g : \A s \in SUBSET S : g[s] = Body(g, s)
    <2>1. PICK g : Fits(g, Cardinality(S))
      BY <1>1, <1>5
    <2>2. \A s \in SUBSET S : Cardinality(s) <= Cardinality(S)
      BY FS_Subset
    <2> QED
      BY <2>1, <2>2
  <1> DEFINE whole == [s \in SUBSET S |-> g[s]]
  <1>7. Iterates(whole, f)
    <2>1. \A s \in SUBSET S : whole[s] = Body(whole, s)
      <3> TAKE s \in SUBSET S
      <3>1. whole[s] = Body(g, s)
        BY <1>6
      <3>2. s # {} => whole[s \ {First(s)}] = g[s \ {First(s)}]
        BY <1>2
      <3> HIDE DEF whole
      <3> QED
        BY <3>1, <3>2
    <2>2. whole = [s \in SUBSET S |-> whole[s]]
      OBVIOUS
    <2> HIDE DEF whole
    <2> QED
      BY <2>1, <2>2 DEF Iterates
  <1>8. Iterates(Partial(f), f)
    <2> HIDE DEF whole
    <2> QED
      BY <1>7 DEF Partial
  <1>9. \A s \in SUBSET S : Partial(f)[s] = Body(Partial(f), s)
    <2> DEFINE p == Partial(f)
    <2>1. p = [s \in SUBSET S |-> Body(p, s)]
      BY <1>8 DEF Iterates
    <2> HIDE DEF p, Body
    <2> QED
      BY <2>1 DEF p
  <1> QED
    BY <1>9

(* The order in which the elements of a set are added does not matter. *)
LEMMA AnyOrder ==
    ASSUME NEW f, IsFiniteSet(DOMAIN f), NEW V \in SUBSET DOMAIN f, \A x \in V : f[x] \in Nat
    PROVE  \A s \in SUBSET V :
               /\ Partial(f)[s] \in Nat
               /\ \A y \in s : Partial(f)[s] = f[y] + Partial(f)[s \ {y}]
  <1> DEFINE g == Partial(f)
             Sums(s) == g[s] \in Nat /\ \A y \in s : g[s] = f[y] + g[s \ {y}]
             T == {n \in Nat : \E s \in SUBSET V : Cardinality(s) = n /\ ~Sums(s)}
  <1>1. /\ g[{}] = 0
        /\ \A s \in SUBSET V : s # {} => g[s] = f[First(s)] + g[s \ {First(s)}]
    BY PartialSums
  <1> HIDE DEF g
  <1>2. \A s \in SUBSET V : IsFiniteSet(s) /\ Cardinality(s) \in Nat
    BY FS_Subset, FS_CardinalityType
  <1> SUFFICES ASSUME T # {}
               PROVE  FALSE
    BY <1>2 DEF g
  <1>3. PICK n \in T : \A k \in T : n <= k
    <2> HIDE DEF T
    <2>1. T \in SUBSET Nat
      BY DEF T
    <2> QED
      BY <2>1, LeastOf
  <1>4. PICK s \in SUBSET V : Cardinality(s) = n /\ ~Sums(s)
    BY <1>3
  <1>5. \A r \in SUBSET V : Cardinality(r) < n => Sums(r)
    <2> HIDE DEF Sums
    <2> QED
      BY <1>2, <1>3
  <1>6. s # {}
    <2>1. Sums({})
      BY <1>1
    <2> HIDE DEF Sums
    <2> QED
      BY <1>4, <2>1
  <1> DEFINE x == First(s)
  <1>7. x \in s /\ g[s] = f[x] + g[s \ {x}]
    BY <1>1, <1>6 DEF First
  <1> HIDE DEF x
  <1>8. ASSUME NEW y \in s
        PROVE  s \ {y} \in SUBSET V /\ Sums(s \ {y})
    <2>1. s \ {y} \in SUBSET V /\ Cardinality(s \ {y}) < n
      BY <1>2, <1>4, WithoutOne
    <2> HIDE DEF Sums
    <2> QED
      BY <1>5, <2>1
  <1>9. g[s] \in Nat
    BY <1>7, <1>8
  <1>10. ASSUME NEW y \in s, y # x
         PROVE  g[s] = f[y] + g[s \ {y}]
    <2>1. (s \ {x}) \ {y} = (s \ {y}) \ {x}
      OBVIOUS
    <2> DEFINE r == (s \ {x}) \ {y}
    <2>2. g[s \ {x}] = f[y] + g[r]
      BY <1>7, <1>8, <1>10
    <2>3. g[s \ {y}] = f[x] + g[r]
      BY <1>7, <1>8, <1>10, <2>1
    <2>4. g[r] \in Nat /\ f[x] \in Nat /\ f[y] \in Nat
      <3>1. r \in SUBSET V /\ Cardinality(s \ {x}) < n /\ Cardinality(r) < n
        <4>1. y \in s \ {x} /\ IsFiniteSet(s) /\ IsFiniteSet(s \ {x})
          BY <1>2, <1>10
        <4>2. Cardinality(s) = Cardinality(s \ {x}) + 1
          BY <1>7, <4>1, WithoutOne
        <4>3. Cardinality(s \ {x}) = Cardinality(r) + 1
          BY <4>1, WithoutOne
        <4>4. r \in SUBSET V /\ s \ {x} \in SUBSET V
          OBVIOUS
        <4> HIDE DEF r
        <4> QED
          BY <1>2, <1>4, <4>2, <4>3, <4>4
      <3> QED
        BY <1>5, <1>7, <3>1
    <2> HIDE DEF r
    <2> QED
      BY <1>7, <2>2, <2>3, <2>4
  <1> QED
    BY <1>4, <1>7, <1>9, <1>10
-----------------------------------------------------------------------------
(* The bytes that a thread has accepted are the manifest and the            *)
(* descriptors up to its part, and within the limit on the whole.           *)

Sizes(t) == [i \in 1 .. Len(ManifestOf(t)) |-> SizeOf[ManifestOf(t)[i].digest]]
SizesAddUp(t) ==
    phase[t] # "failed" /\ part[t] > 0 =>
        /\ total[t] = SizeOf[request[t].digest] + Partial(Sizes(t))[1 .. part[t] - 1]
        /\ total[t] <= MaxTotal
TotalsInv == total \in [Threads -> Nat] /\ \A t \in Threads : SizesAddUp(t)

(* The descriptors up to the next part have sizes to add. *)
LEMMA SizesKnown ==
    ASSUME VerifierInv, NEW t \in Threads, phase[t] # "failed", part[t] > 0
    PROVE  /\ part[t] \in Nat /\ Len(ManifestOf(t)) \in Nat
           /\ part[t] <= Len(ManifestOf(t)) + 1
           /\ IsFiniteSet(DOMAIN Sizes(t)) /\ DOMAIN Sizes(t) = 1 .. Len(ManifestOf(t))
           /\ \A i \in 1 .. part[t] - 1 : Sizes(t)[i] \in Nat
           /\ SizeOf[request[t].digest] \in Nat /\ Len(content[t]) = part[t] - 1
           /\ \A i \in 1 .. part[t] - 1 : content[t][i].digest = ManifestOf(t)[i].digest
  <1>1. /\ part[t] \in Nat /\ HasRead(t) /\ content[t] \in Seq(Pieces)
    BY DEF VerifierInv, Typed, ThreadInv
  <1>2. /\ request[t].digest \in DOMAIN Manifests
        /\ Len(content[t]) = part[t] - 1
        /\ part[t] <= Len(ManifestOf(t)) + 1
        /\ \A i \in 1 .. part[t] - 1 : content[t][i].digest = ManifestOf(t)[i].digest
    BY <1>1 DEF HasRead
  <1>3. Len(ManifestOf(t)) \in Nat /\ SizeOf[request[t].digest] \in Nat
    BY <1>2, ManifestsAssumption, BodiesAssumption DEF ManifestOf
  <1>4. DOMAIN Sizes(t) = 1 .. Len(ManifestOf(t))
    BY DEF Sizes
  <1>5. IsFiniteSet(DOMAIN Sizes(t))
    BY <1>3, <1>4, FS_Interval
  <1>6. ASSUME NEW i \in 1 .. part[t] - 1
        PROVE  Sizes(t)[i] \in Nat
    <2>1. content[t][i] \in Pieces
      BY <1>1, <1>2
    <2>2. ManifestOf(t)[i].digest \in Bodies
      BY <1>2, <2>1 DEF Pieces
    <2>3. i \in 1 .. Len(ManifestOf(t))
      BY <1>1, <1>2, <1>3
    <2> QED
      BY <2>2, <2>3, BodiesAssumption DEF Sizes
  <1> QED
    BY <1>1, <1>2, <1>3, <1>4, <1>5, <1>6

LEMMA TotalsInit == Init => TotalsInv
  BY DEF Init, TotalsInv, SizesAddUp

(* The next descriptor is accepted, with its bytes in the total. *)
LEMMA TotalsAccepting ==
    ASSUME VerifierInv, TotalsInv, NEW t \in Threads, NEW body \in Bodies,
           AcceptContent(t, body), request' = request,
           phase[t] # "failed", part[t] > 0, part[t] <= Len(ManifestOf(t))
    PROVE  total' \in [Threads -> Nat] /\ SizesAddUp(t)'
  <1>1. CASE Fail(t, "content") /\ UNCHANGED <<part, total, content>>
    <2>1. phase'[t] = "failed"
      BY <1>1 DEF Fail, Become, VerifierInv, Typed
    <2> QED
      BY <1>1, <2>1 DEF TotalsInv, SizesAddUp
  <1>2. CASE /\ Matches(Descriptor(t), body) /\ ~ExceedsTotal(total[t] + SizeOf[body])
             /\ total' = [total EXCEPT ![t] = total[t] + SizeOf[body]]
             /\ part' = [part EXCEPT ![t] = part[t] + 1]
    <2> DEFINE n == part[t]
               f == Sizes(t)
    <2>1. /\ n \in Nat /\ Len(ManifestOf(t)) \in Nat
          /\ IsFiniteSet(DOMAIN f) /\ DOMAIN f = 1 .. Len(ManifestOf(t))
          /\ \A i \in 1 .. n - 1 : f[i] \in Nat
          /\ SizeOf[request[t].digest] \in Nat
      BY SizesKnown
    <2>2. SizeOf[body] \in Nat /\ total[t] \in Nat
      BY BodiesAssumption DEF TotalsInv
    <2>3. total'[t] = total[t] + SizeOf[body] /\ part'[t] = n + 1
          /\ total' \in [Threads -> Nat]
      BY <1>2, <2>2 DEF TotalsInv, VerifierInv, Typed
    <2>4. n \in DOMAIN f /\ f[n] = SizeOf[body]
      BY <1>2, <2>1 DEF Sizes, Matches, Descriptor
    <2> HIDE DEF f
    <2>5. /\ 1 .. n \in SUBSET DOMAIN f /\ \A i \in 1 .. n : f[i] \in Nat
          /\ n \in 1 .. n /\ (1 .. n) \ {n} = 1 .. n - 1
      BY <2>1, <2>2, <2>4
    <2>6. /\ Partial(f)[1 .. n] = f[n] + Partial(f)[1 .. n - 1]
          /\ Partial(f)[1 .. n - 1] \in Nat
      <3> DEFINE V == 1 .. n
      <3>1. V \in SUBSET DOMAIN f /\ \A i \in V : f[i] \in Nat
        BY <2>5
      <3>2. n \in V /\ V \ {n} = 1 .. n - 1 /\ V \ {n} \in SUBSET V /\ V \in SUBSET V
        BY <2>5
      <3> HIDE DEF V
      <3>3. \A s \in SUBSET V :
                /\ Partial(f)[s] \in Nat
                /\ \A y \in s : Partial(f)[s] = f[y] + Partial(f)[s \ {y}]
        BY <2>1, <3>1, AnyOrder
      <3>4. Partial(f)[V] = f[n] + Partial(f)[V \ {n}] /\ Partial(f)[V \ {n}] \in Nat
        BY <3>2, <3>3
      <3> QED
        BY <3>2, <3>4 DEF V
    <2>7. total[t] = SizeOf[request[t].digest] + Partial(f)[1 .. n - 1]
      BY DEF TotalsInv, SizesAddUp, f
    <2>8. total'[t] = SizeOf[request[t].digest] + Partial(f)[1 .. n]
      BY <2>1, <2>2, <2>3, <2>4, <2>6, <2>7
    <2>9. total'[t] <= MaxTotal
      BY <1>2, <2>2, <2>3, LimitsAssumption DEF ExceedsTotal
    <2>10. Sizes(t)' = f /\ part'[t] - 1 = n
      BY <2>1, <2>3 DEF Sizes, ManifestOf, f
    <2> QED
      BY <2>3, <2>8, <2>9, <2>10 DEF SizesAddUp
  <1> QED
    BY <1>1, <1>2 DEF AcceptContent

LEMMA TotalsServed ==
    ASSUME VerifierInv, TotalsInv, NEW t \in Threads, NEW body \in Bodies, Served(t, body)
    PROVE  total' \in [Threads -> Nat] /\ SizesAddUp(t)'
  <1>1. /\ phase[t] \in {"sent", "resent"} /\ request' = request
        /\ phase[t] # "failed" /\ part[t] \in Nat
        /\ part[t] > 0 => part[t] <= Len(ManifestOf(t))
    BY FetchFacts DEF Served, Fetching
  <1>2. CASE part[t] > 0 /\ AcceptContent(t, body)
    BY <1>1, <1>2, TotalsAccepting
  <1>3. CASE /\ body = request[t].digest /\ body \in DOMAIN Manifests
             /\ SizeOf[body] <= MaxManifest
             /\ part' = [part EXCEPT ![t] = 1]
             /\ total' = [total EXCEPT ![t] = SizeOf[body]]
    <2>1. part'[t] = 1 /\ total'[t] = SizeOf[body] /\ total' \in [Threads -> Nat]
      BY <1>3, BodiesAssumption DEF TotalsInv, VerifierInv, Typed
    <2>2. Sizes(t)' = Sizes(t)
      BY <1>1 DEF Sizes, ManifestOf
    <2>3. Partial(Sizes(t))[{}] = 0
      <3>1. Len(ManifestOf(t)) \in Nat
        BY <1>3, ManifestsAssumption DEF ManifestOf
      <3>2. IsFiniteSet(DOMAIN Sizes(t))
        BY <3>1, FS_Interval DEF Sizes
      <3> QED
        BY <3>2, PartialSums
    <2>4. SizeOf[body] \in Nat /\ SizeOf[body] <= MaxTotal
      BY <1>3, BodiesAssumption, LimitsAssumption
    <2>5. 1 .. part'[t] - 1 = {}
      BY <2>1
    <2> QED
      BY <1>1, <1>3, <2>1, <2>2, <2>3, <2>4, <2>5 DEF SizesAddUp
  <1>4. CASE Fail(t, "size") \/ Fail(t, "content")
    <2>1. phase'[t] = "failed" /\ (total' = total)
      BY <1>4 DEF Served, AcceptContent, Fail, Become, VerifierInv, Typed
    <2> QED
      BY <2>1 DEF TotalsInv, SizesAddUp
  <1>5. SizeOf[body] \in Int /\ MaxManifest \in Int
    BY BodiesAssumption, LimitsAssumption
  <1> QED
    BY <1>1, <1>2, <1>3, <1>4, <1>5 DEF Served, Maximum

(* Every other step leaves the total and the part as they are. *)
LEMMA TotalsKept ==
    ASSUME VerifierInv, TotalsInv, NEW t \in Threads, UNCHANGED <<request, part, total>>,
           phase[t] # "failed" \/ phase'[t] = "failed"
    PROVE  total' \in [Threads -> Nat] /\ SizesAddUp(t)'
  BY DEF TotalsInv, SizesAddUp, Sizes, ManifestOf

LEMMA TotalsWalk ==
    ASSUME VerifierInv, TotalsInv, NEW t \in Threads, WalkOn(t)
    PROVE  total' \in [Threads -> Nat] /\ SizesAddUp(t)'
  <1>1. /\ phase[t] = "walk" /\ part[t] <= Len(ManifestOf(t)) /\ request' = request
        /\ part[t] > 0
    BY DEF WalkOn, VerifierInv, Typed, ThreadInv, HasRead
  <1>2. CASE UNCHANGED <<part, total>>
    BY <1>1, <1>2, TotalsKept
  <1>3. CASE Descriptor(t).data # NoData /\ AcceptContent(t, Descriptor(t).data)
    <2>1. request[t].digest \in DOMAIN Manifests /\ part[t] \in Nat
      BY <1>1 DEF VerifierInv, Typed, ThreadInv, HasRead
    <2>2. part[t] \in DOMAIN ManifestOf(t)
      BY <1>1, <2>1, ManifestsAssumption DEF ManifestOf
    <2>3. Descriptor(t).data \in Bodies
      BY <1>3, <2>1, <2>2, ManifestsAssumption DEF ManifestOf, Descriptor
    <2> QED
      BY <1>1, <1>3, <2>3, TotalsAccepting
  <1> QED
    BY <1>2, <1>3 DEF WalkOn

LEMMA TotalsStep == VerifierInv /\ TotalsInv /\ [Next]_vars => TotalsInv'
  <1> SUFFICES ASSUME VerifierInv, TotalsInv, [Next]_vars
               PROVE  TotalsInv'
    OBVIOUS
  <1>1. ASSUME NEW t \in Threads, Step(t)
        PROVE  TotalsInv'
    <2>1. total' \in [Threads -> Nat] /\ SizesAddUp(t)'
      <3>1. CASE \/ Begin(t) \/ Finish(t) \/ Send(t) \/ RequestFails(t) \/ Granted(t)
                 \/ ExchangeFails(t) \/ Store(t) \/ Resend(t) \/ ChallengedAgain(t)
        <4>1. UNCHANGED <<request, part, total>> /\ phase[t] # "failed"
          BY <3>1 DEF Begin, Finish, Send, RequestFails, Granted, ExchangeFails, Store,
             Resend, ChallengedAgain
        <4> QED
          BY <4>1, TotalsKept
      <3>2. ASSUME NEW realm \in Realms, Challenged(t, realm)
            PROVE  total' \in [Threads -> Nat] /\ SizesAddUp(t)'
        <4>1. UNCHANGED <<request, part, total>> /\ phase[t] # "failed"
          BY <3>2 DEF Challenged
        <4> QED
          BY <4>1, TotalsKept
      <3> QED
        BY <1>1, <3>1, <3>2, TotalsWalk, TotalsServed DEF Step
    <2>2. ASSUME NEW u \in Threads, u # t
          PROVE  SizesAddUp(u)'
      <3>1. phase'[u] = phase[u] /\ request'[u] = request[u] /\ part'[u] = part[u]
        BY <1>1, <2>2, OthersKept DEF VerifierInv
      <3>2. total'[u] = total[u]
        <4>1. \A body : AcceptContent(t, body) => total'[u] = total[u]
          BY <2>2 DEF AcceptContent, TotalsInv
        <4> QED
          BY <1>1, <2>2, <4>1
             DEF TotalsInv, Step, Begin, WalkOn, Finish, Send, RequestFails, Served,
                 Challenged, Granted, ExchangeFails, Store, Resend, ChallengedAgain
      <3> QED
        BY <3>1, <3>2 DEF TotalsInv, SizesAddUp, Sizes, ManifestOf
    <2> QED
      BY <2>1, <2>2 DEF TotalsInv
  <1>2. CASE UNCHANGED vars
    BY <1>2 DEF vars, threadVars, TotalsInv, SizesAddUp, Sizes, ManifestOf
  <1> QED
    BY <1>1, <1>2 DEF Next, Rest

(* A receipt is complete, and the bytes it stands for are within the limit  *)
(* on the whole artifact, however many descriptors the manifest has and     *)
(* whatever the registry answers (oci.py:347-482).                          *)
THEOREM ReceiptsAreSound == Spec => []ReceiptIsSound
  <1>1. ASSUME VerifierInv, TotalsInv, NEW t \in Threads, phase[t] = "verified"
        PROVE  SizeOf[request[t].digest] + ContentSize(t) <= MaxTotal
    <2> DEFINE f == Sizes(t)
               n == Len(ManifestOf(t))
    <2>1. part[t] > 0 /\ part[t] = n + 1
      <3>1. part[t] \in Nat /\ HasRead(t)
        BY <1>1 DEF VerifierInv, Typed, ThreadInv
      <3> QED
        BY <1>1, <3>1 DEF HasRead
    <2>2. /\ n \in Nat /\ DOMAIN f = 1 .. n /\ Len(content[t]) = part[t] - 1
          /\ \A i \in 1 .. part[t] - 1 : content[t][i].digest = ManifestOf(t)[i].digest
      BY <1>1, <2>1, SizesKnown
    <2>3. part[t] - 1 = n
      BY <2>1, <2>2
    <2>4. DOMAIN content[t] = 1 .. n
      BY <2>2, <2>3 DEF VerifierInv, Typed
    <2>5. [i \in DOMAIN content[t] |-> SizeOf[content[t][i].digest]] = f
      BY <2>2, <2>3, <2>4 DEF Sizes
    <2> HIDE DEF f
    <2>6. ContentSize(t) = Partial(f)[1 .. n]
      BY <2>2, <2>5, SumIsPartial DEF ContentSize
    <2>7. /\ total[t] = SizeOf[request[t].digest] + Partial(f)[1 .. n]
          /\ total[t] <= MaxTotal
      BY <1>1, <2>1, <2>3 DEF TotalsInv, SizesAddUp, f
    <2> QED
      BY <2>6, <2>7
  <1>2. VerifierInv /\ TotalsInv /\ ReceiptIsComplete => ReceiptIsSound
    BY <1>1 DEF ReceiptIsSound
  <1> QED
    BY <1>2, TotalsInit, TotalsStep, VerifierInvariance, ReceiptsAreComplete, PTL DEF Spec

=============================================================================
