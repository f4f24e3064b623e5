---------------------------- MODULE AccessToken ----------------------------
(***************************************************************************)
(* The OIDC token cache of lib/src/auth/oidc.ts and the providers built on   *)
(* it: concurrent withCreds calls share one object whose fields (data,       *)
(* cachedExpiry, inFlight, config, signingKey) they read and write on both   *)
(* sides of every await, while updateClientPublicKey may drop them.          *)
(***************************************************************************)
EXTENDS TokenExchange

CONSTANTS
  Keys,           (* signing keys the application may set                     *)
  Deployments,    (* what the client and the server may be set up as          *)
  MaxUpdates      (* bound of the model                                       *)

(* A deployment: does config.dpopEnabled; which key config.signingKey is;    *)
(* does the provider hold a seed to exchange before the first get; is that   *)
(* seed, or what the constructor was given, good for one use only; does the  *)
(* server return refresh tokens; may requests and responses be lost.         *)
ASSUME DeploymentAssumption ==
  /\ None \notin Keys
  /\ Deployments \subseteq
       [dpopEnabled : BOOLEAN, signingKey : Keys \cup {None}, seeded : BOOLEAN,
        seedWearsOut : BOOLEAN, issuesRefresh : BOOLEAN, lossy : BOOLEAN]
  /\ MaxUpdates \in Nat

VARIABLES
  signingKey,     (* this.signingKey                                          *)
  config,         (* the credential this.config would present                 *)
  data,           (* this.data, or None                                       *)
  cachedExpiry,   (* the token this.cachedExpiry was computed from, or None   *)
  seed,           (* the provider's own refreshToken / externalJwt is present *)
  updates         (* calls of updateClientPublicKey so far                    *)

cacheVars == <<signingKey, config, data, cachedExpiry, seed>>
vars == <<cacheVars, updates, exchangeVars>>

-----------------------------------------------------------------------------
(* doPost up to its first await, with DPoP the export of the public key;     *)
(* without DPoP there is nothing to await before the request leaves.         *)
DoPost(e, purpose, credential) ==
  NewExchange(e, IF options.dpopEnabled THEN "exporting" ELSE "posted",
              purpose, credential)

(* The key is exported; signingKey is read again for the DPoP proof.         *)
ProveAndPost(e) ==
  /\ exchange[e].phase = "exporting"
  /\ exchange' = [exchange EXCEPT ![e].phase = "posted", ![e].proof = signingKey]
  /\ UNCHANGED <<cacheVars, updates, options, inFlight, accepted, expired, caller>>

(* Mutant: the finally that clears inFlight only runs on success.            *)
InFlightKeptOnError == inFlight
InFlightAfterError == None

(* Mutant: the expiry is only computed when there is none.                   *)
ExpiryOnce(e) == IF cachedExpiry = None THEN e ELSE cachedExpiry
ExpiryOf(e) == e

(* accessTokenLookup resumes in get or in exchangeForRefreshToken.           *)
ExchangeReturns(e) ==
  /\ exchange[e].phase = "answered"
  /\ exchange' = [exchange EXCEPT ![e].phase = "done"]
  /\ data' = e
  /\ IF exchange[e].purpose = "get"
       THEN /\ cachedExpiry' = ExpiryOf(e)
            /\ inFlight' = None
            /\ UNCHANGED config
       ELSE /\ config' = IF options.issuesRefresh THEN e ELSE config
            /\ UNCHANGED <<cachedExpiry, inFlight>>
  /\ UNCHANGED <<signingKey, seed, updates, options, accepted, expired, caller>>

ExchangeThrows(e) ==
  /\ exchange[e].phase \in {"refused", "lost"}
  /\ exchange' = [exchange EXCEPT ![e].phase = "failed"]
  /\ inFlight' = IF exchange[e].purpose = "get" THEN InFlightAfterError ELSE inFlight
  /\ UNCHANGED <<cacheVars, updates, options, accepted, expired, caller>>

-----------------------------------------------------------------------------
(* get, from its call to its first await.                                    *)
CachedIsFresh ==
  /\ data # None
  /\ cachedExpiry # None
  /\ cachedExpiry \notin expired

GetCached(c) ==
  /\ CachedIsFresh
  /\ Waits(c, "cached", data)
  /\ UNCHANGED <<config, data, inFlight, exchange>>

GetShared(c) ==
  /\ ~CachedIsFresh
  /\ inFlight # None
  /\ Waits(c, "waiting", inFlight)
  /\ UNCHANGED <<config, data, inFlight, exchange>>

(* Mutants: the exchange is not published for others to share; it presents   *)
(* the credential of the constructor although a newer one was returned.      *)
InFlightUnpublished(e) == None
InFlightPublished(e) == e
ConstructorCredential == config
NewestCredential == IF data # None /\ options.issuesRefresh THEN data ELSE config

GetExchanges(c) ==
  /\ ~CachedIsFresh
  /\ inFlight = None
  /\ \E e \in Exchanges :
       /\ DoPost(e, "get", NewestCredential)
       /\ inFlight' = InFlightPublished(e)
       /\ Waits(c, "waiting", e)
  /\ config' = NewestCredential
  /\ data' = None

Get(c) ==
  /\ GetCached(c) \/ GetShared(c) \/ GetExchanges(c)
  /\ UNCHANGED <<signingKey, cachedExpiry, updates, options, accepted, expired>>

KeyIsSet == options.dpopEnabled => signingKey # None

(* withCreds of a provider that holds nothing to exchange first.             *)
WithCreds(c) ==
  /\ caller[c].phase = "idle"
  /\ Budget(1)
  /\ ~seed
  /\ KeyIsSet
  /\ Get(c)
  /\ UNCHANGED seed

(* withCreds of OIDCRefreshTokenProvider and OIDCExternalJwtProvider before  *)
(* their seed is gone: exchangeForRefreshToken, which does not look at       *)
(* inFlight.                                                                 *)
ExchangeSeed(c) ==
  /\ caller[c].phase = "idle"
  /\ Budget(2)
  /\ seed
  /\ KeyIsSet
  /\ \E e \in Exchanges : DoPost(e, "seed", config) /\ Waits(c, "seeding", e)
  /\ UNCHANGED <<cacheVars, updates, options, inFlight, accepted, expired>>

(* It resolves: forget the seed and go on with get.                          *)
SeedExchanged(c) ==
  /\ caller[c].phase = "seeding"
  /\ exchange[caller[c].token].phase = "done"
  /\ seed' = FALSE
  /\ Get(c)

(* get resolves: withCreds decorates the request (with DPoP, with a proof by *)
(* the key that signingKey then is).                                         *)
Send(c) ==
  /\ \/ caller[c].phase = "cached"
     \/ caller[c].phase = "waiting" /\ exchange[caller[c].token].phase = "done"
  /\ caller' = [caller EXCEPT ![c].phase = "sent"]
  /\ UNCHANGED <<cacheVars, updates, options, inFlight, exchange, accepted, expired>>

(* Mutant: a failed seed exchange is not reported.                           *)
FailsInGet == {"waiting"}
FailsWhile == {"waiting", "seeding"}

Fail(c) ==
  /\ caller[c].phase \in FailsWhile
  /\ exchange[caller[c].token].phase = "failed"
  /\ caller' = [caller EXCEPT ![c].phase = "rejected"]
  /\ UNCHANGED <<cacheVars, updates, options, inFlight, exchange, accepted, expired>>

(* refreshTokenClaimsWithClientPubkeyIfNeeded.                               *)
UpdateClientPublicKey(k) ==
  /\ updates < MaxUpdates
  /\ updates' = updates + 1
  /\ IF data # None /\ k = signingKey
       THEN UNCHANGED <<signingKey, data, cachedExpiry, inFlight>>
       ELSE /\ signingKey' = k
            /\ data' = None
            /\ cachedExpiry' = None
            /\ inFlight' = None
  /\ UNCHANGED <<config, seed, options, exchange, accepted, expired, caller>>

CacheInit ==
  /\ signingKey = options.signingKey
  /\ config = 0
  /\ data = None
  /\ cachedExpiry = None
  /\ seed = options.seeded
  /\ updates = 0

Init ==
  /\ options \in Deployments
  /\ ExchangeInit
  /\ CacheInit

AtServer(e) == ServerStep(e) /\ UNCHANGED <<cacheVars, updates>>

ExchangeStep(e) ==
  ProveAndPost(e) \/ AtServer(e) \/ ExchangeReturns(e) \/ ExchangeThrows(e)

Answer(c) == SeedExchanged(c) \/ Send(c) \/ Fail(c)

Next ==
  \/ \E e \in Exchanges : ExchangeStep(e)
  \/ \E c \in Callers : WithCreds(c) \/ ExchangeSeed(c) \/ Answer(c)
  \/ \E k \in Keys : UpdateClientPublicKey(k)
  \/ /\ \/ \E e \in Exchanges : Expire(e)
        \/ \E c \in Callers : Again(c)
     /\ UNCHANGED <<cacheVars, updates>>
  \/ Quiet /\ UNCHANGED vars

Spec == Init /\ [][Next]_vars

(* Requests are answered, refused or lost, and callbacks run.  Nobody has to *)
(* make a request or to change the key.                                      *)
Fairness ==
  /\ \A e \in Exchanges : WF_vars(ExchangeStep(e))
  /\ \A c \in Callers : WF_vars(Answer(c))

FairSpec == Spec /\ Fairness

-----------------------------------------------------------------------------
(* The fields hold what the code puts there.                                 *)
TypeOK ==
  /\ ExchangeTypeOK
  /\ signingKey \in Keys \cup {None}
  /\ {config, data, cachedExpiry} \subseteq 0 .. MaxExchanges
  /\ seed \in BOOLEAN
  /\ updates \in 0 .. MaxUpdates

(* What the key update's comment says: the next exchange uses the cached     *)
(* refresh token.  So without a network failure no exchange is refused.      *)
NeverRefused == \A e \in Exchanges : exchange[e].phase # "refused"

(* What the comments say of a changed key: the cached token is one bound to  *)
(* the current key.                                                          *)
CachedTokenBoundToKey ==
  data # None => exchange[data].proof = signingKey
=============================================================================
