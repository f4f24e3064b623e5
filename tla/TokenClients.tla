---------------------------- MODULE TokenClients ----------------------------
(***************************************************************************)
(* The two ways an application of the SDK can get tokens: an AuthProvider     *)
(* around AccessToken, or an interceptor around a TokenProvider.  They are    *)
(* separate implementations of one scheme (a cached token, its expiry, one    *)
(* promise in flight); the properties here are stated once, for both.         *)
(***************************************************************************)
EXTENDS AccessToken

CONSTANT ProviderOptions

(* What these servers are: a client secret serves again, and whatever else   *)
(* serves only once is replaced by a refresh token.                          *)
ASSUME RotationAssumption ==
  /\ \A d \in Deployments : d.seedWearsOut => d.issuesRefresh
  /\ \A o \in ProviderOptions :
       o.seedWearsOut => o.issuesRefresh /\ o.kind # "clientCredentials"

VARIABLES
  client,   (* which of the two the application uses                          *)
  cachedToken, currentRefreshToken, initialExchangeDone, dpopKeys

Provider == INSTANCE TokenProvider

(* cachedExpiry means the same in both.                                      *)
ownProviderVars == <<cachedToken, currentRefreshToken, initialExchangeDone, dpopKeys>>
ownAccessVars == <<signingKey, config, data, seed, updates>>
clientVars == <<client, vars, ownProviderVars>>

ClientInit ==
  /\ \/ client = "AccessToken" /\ options \in Deployments
     \/ client = "TokenProvider" /\ options \in ProviderOptions
  /\ ExchangeInit
  /\ IF client = "AccessToken"
       THEN /\ CacheInit
            /\ cachedToken = None /\ currentRefreshToken = 0
            /\ initialExchangeDone = FALSE /\ dpopKeys = "ready"
       ELSE /\ Provider!ClosureInit
            /\ signingKey = None /\ config = 0 /\ data = None
            /\ seed = FALSE /\ updates = 0

ByAccessToken(step) ==
  client = "AccessToken" /\ step /\ UNCHANGED <<client, ownProviderVars>>
ByProvider(step) ==
  client = "TokenProvider" /\ step /\ UNCHANGED <<client, ownAccessVars>>

ClientNext == ByAccessToken(Next) \/ ByProvider(Provider!ProviderNext)

(* As in AccessToken; the generation of the interceptor's keys ends as well. *)
ClientFairness ==
  /\ \A e \in Exchanges :
       /\ WF_clientVars(ByAccessToken(ExchangeStep(e)))
       /\ WF_clientVars(ByProvider(Provider!ExchangeStep(e)))
  /\ \A c \in Callers :
       /\ WF_clientVars(ByAccessToken(Answer(c)))
       /\ WF_clientVars(ByProvider(Provider!Answer(c)))
  /\ WF_clientVars(ByProvider(Provider!KeysSettle))

ClientSpec == ClientInit /\ [][ClientNext]_clientVars /\ ClientFairness

-----------------------------------------------------------------------------
(* The client follows the rotation of refresh tokens: as long as nothing was *)
(* lost, the key is the one it started with and no seed can be spent twice,  *)
(* it never presents a credential that the server has replaced.              *)
RotationIsFollowed ==
  \A e \in Exchanges :
    exchange[e].phase = "refused" =>
      \/ updates > 0
      \/ client = "AccessToken" /\ options.seeded
      \/ \E f \in 1 .. e - 1 : exchange[f].phase \in {"lost", "failed"}

(* A burst of requests causes one exchange.  Only a change of the key may    *)
(* set one more loose, and no more: an exchange that finishes clears the     *)
(* promise of a newer one, which lets a third start, but only once the first *)
(* is over.  (The exchanges of seeds are made without looking for others.)   *)
ExchangesBoundedByUpdates ==
  Cardinality({e \in RunningExchanges : exchange[e].purpose = "get"}) <= 1 + updates
=============================================================================
