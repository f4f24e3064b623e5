--------------------------- MODULE TokenProvider ---------------------------
(***************************************************************************)
(* The token providers of lib/src/auth/token-providers.ts (client            *)
(* credentials, refresh token, external JWT) as the interceptors of           *)
(* lib/src/auth/interceptors.ts call them, one call for every request.        *)
(*                                                                         *)
(* options.kind says which provider, options.dpopKeys whether the plain       *)
(* interceptor is used ("none"), or the DPoP one with keys it was given or    *)
(* has to generate.                                                           *)
(***************************************************************************)
EXTENDS TokenExchange

CONSTANT ProviderOptions

VARIABLES
  cachedToken,          (* or None                                            *)
  cachedExpiry,         (* the token it was computed from, or None            *)
  currentRefreshToken,
  initialExchangeDone,
  dpopKeys              (* the promise of the interceptor's keys              *)

closureVars == <<cachedToken, cachedExpiry, currentRefreshToken, initialExchangeDone>>
providerVars == <<closureVars, dpopKeys, exchangeVars>>

(* The conditions of the two ifs that begin every provider.                  *)
CachedIsFresh ==
  /\ cachedToken # None
  /\ cachedExpiry # None
  /\ cachedExpiry \notin expired

(* The request that the provider's kind sends now: what the constructor was  *)
(* given (0), or the newest refresh token.                                   *)
Credential ==
  IF \/ options.kind = "clientCredentials"
     \/ options.kind = "externalJwt" /\ ~initialExchangeDone
  THEN 0 ELSE currentRefreshToken

GetCached(c) ==
  /\ CachedIsFresh
  /\ Waits(c, "cached", cachedToken)
  /\ UNCHANGED <<inFlight, exchange>>

GetShared(c) ==
  /\ ~CachedIsFresh
  /\ inFlight # None
  /\ Waits(c, "waiting", inFlight)
  /\ UNCHANGED <<inFlight, exchange>>

GetExchanges(c) ==
  /\ ~CachedIsFresh
  /\ inFlight = None
  /\ \E e \in Exchanges :
       /\ NewExchange(e, "posted", "get", Credential)
       /\ inFlight' = e
       /\ Waits(c, "waiting", e)

(* An intercepted request: it asks for the token before anything is awaited. *)
Intercept(c) ==
  /\ caller[c].phase = "idle"
  /\ Budget(1)
  /\ GetCached(c) \/ GetShared(c) \/ GetExchanges(c)
  /\ UNCHANGED <<closureVars, dpopKeys, options, accepted, expired>>

(* fetchToken resolves: cache, remember the refresh token, clear the flight. *)
ExchangeReturns(e) ==
  /\ exchange[e].phase = "answered"
  /\ exchange' = [exchange EXCEPT ![e].phase = "done"]
  /\ cachedToken' = e
  /\ cachedExpiry' = e
  /\ initialExchangeDone' = TRUE
  /\ currentRefreshToken' =
       IF options.issuesRefresh THEN e ELSE currentRefreshToken
  /\ inFlight' = None
  /\ UNCHANGED <<dpopKeys, options, accepted, expired, caller>>

(* It rejects: the finally clears the flight, the old token stays.           *)
ExchangeThrows(e) ==
  /\ exchange[e].phase \in {"refused", "lost"}
  /\ exchange' = [exchange EXCEPT ![e].phase = "failed"]
  /\ inFlight' = None
  /\ UNCHANGED <<closureVars, dpopKeys, options, accepted, expired, caller>>

-----------------------------------------------------------------------------
(* generateSigningKeyPair, called once when the interceptor is made.         *)
KeysSettle ==
  /\ dpopKeys = "pending"
  /\ dpopKeys' \in {"ready", "failed"}
  /\ UNCHANGED <<closureVars, exchangeVars>>

(* Promise.all has the token and the keys: sign, decorate, send.             *)
Send(c) ==
  /\ \/ caller[c].phase = "cached"
     \/ caller[c].phase = "waiting" /\ exchange[caller[c].token].phase = "done"
  /\ dpopKeys = "ready"
  /\ caller' = [caller EXCEPT ![c].phase = "sent"]
  /\ UNCHANGED <<closureVars, dpopKeys, options, inFlight, exchange, accepted, expired>>

(* ... or the first of the two to fail; the exchange goes on for others.     *)
Fail(c) ==
  /\ caller[c].phase \in {"cached", "waiting"}
  /\ \/ caller[c].phase = "waiting" /\ exchange[caller[c].token].phase = "failed"
     \/ dpopKeys = "failed"
  /\ caller' = [caller EXCEPT ![c].phase = "rejected"]
  /\ UNCHANGED <<closureVars, dpopKeys, options, inFlight, exchange, accepted, expired>>

ClosureInit ==
  /\ cachedToken = None
  /\ cachedExpiry = None
  /\ currentRefreshToken = 0
  /\ initialExchangeDone = FALSE
  /\ dpopKeys = IF options.dpopKeys = "generated" THEN "pending" ELSE "ready"

ProviderInit ==
  /\ options \in ProviderOptions
  /\ ExchangeInit
  /\ ClosureInit

AtServer(e) == ServerStep(e) /\ UNCHANGED <<closureVars, dpopKeys>>
ExchangeStep(e) == AtServer(e) \/ ExchangeReturns(e) \/ ExchangeThrows(e)
Answer(c) == Send(c) \/ Fail(c)

ProviderNext ==
  \/ \E e \in Exchanges : ExchangeStep(e)
  \/ \E c \in Callers : Intercept(c) \/ Answer(c)
  \/ KeysSettle
  \/ /\ \/ \E e \in Exchanges : Expire(e)
        \/ \E c \in Callers : Again(c)
     /\ UNCHANGED <<closureVars, dpopKeys>>
  \/ Quiet /\ UNCHANGED providerVars

ProviderSpec == ProviderInit /\ [][ProviderNext]_providerVars
=============================================================================
