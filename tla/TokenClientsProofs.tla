------------------------- MODULE TokenClientsProofs -------------------------
(***************************************************************************)
(* For every number of callers, keys, exchanges and kinds of servers, and     *)
(* for the class AccessToken as for the closures of token-providers.ts:       *)
(* a burst of requests makes one exchange, the promise in flight is never     *)
(* that of one that is over, the rotation of refresh tokens is followed, and  *)
(* callers are served as TokenService says.                                   *)
(*                                                                         *)
(* Both clients take the same kinds of steps, as far as exchanges and         *)
(* callers are concerned.  A key update lets an exchange run on whose promise *)
(* is gone, and one that ends clears the promise of another: the invariant    *)
(* counts what is loose against the updates.                                  *)
(***************************************************************************)
EXTENDS TokenClients, FiniteSetTheorems, TLAPS

Phases == Running \cup {"unused", "done", "failed"}
Numbers == 0 .. MaxExchanges
ExchangeRecords ==
  [phase : Phases, purpose : {"get", "seed"}, presents : Numbers, proof : Keys \cup {None}]
CallerPhases == {"idle", "seeding", "cached", "waiting", "sent", "rejected"}

-----------------------------------------------------------------------------
(* The invariant.  What the fields hold: the types that the proofs need.     *)
SharedTypes ==
  /\ exchange \in [Exchanges -> ExchangeRecords]
  /\ inFlight \in Numbers
  /\ caller \in [Callers -> [phase : CallerPhases, token : Numbers]]
  /\ updates \in Nat
  /\ IF client = "AccessToken" THEN options \in Deployments
     ELSE client = "TokenProvider" /\ options \in ProviderOptions /\ updates = 0
OwnTypes ==
  /\ signingKey \in Keys \cup {None}
  /\ config \in Numbers /\ data \in Numbers
  /\ cachedToken \in Numbers /\ currentRefreshToken \in Numbers
FieldTypes == SharedTypes /\ OwnTypes

(* Exchanges are started in the order of their numbers.                      *)
StartedInTurn ==
  \A e, f \in Exchanges :
    f < e /\ exchange[e].phase # "unused" => exchange[f].phase # "unused"

(* Only a change of the key leaves an exchange of get without its promise.   *)
Loose == {e \in RunningExchanges : exchange[e].purpose = "get"} \ {inFlight}
LooseByUpdates == Cardinality(Loose) <= updates

(* Without a seed every exchange is one of get.                              *)
HasSeed == client = "AccessToken" /\ options.seeded
OnlyGets ==
  ~HasSeed => /\ client = "AccessToken" => seed = FALSE
              /\ \A e \in Exchanges : exchange[e].purpose = "get"

(* The newest exchange is the only one that runs, when nothing can set       *)
(* another loose.                                                            *)
Settled == updates = 0 /\ ~HasSeed
NewestRuns ==
  Settled => \A e \in RunningExchanges : \A f \in Exchanges :
    e < f => exchange[f].phase = "unused"

(* A client caches what has been answered, with the expiry of it.            *)
CachedIsIssued ==
  /\ data # None =>
       /\ client = "AccessToken"
       /\ data \in Exchanges /\ exchange[data].phase = "done"
       /\ exchange[data].purpose = "get" => cachedExpiry = data
  /\ cachedToken # None =>
       /\ client = "TokenProvider" /\ cachedExpiry = cachedToken
       /\ cachedToken \in Exchanges /\ exchange[cachedToken].phase = "done"
OnlyDoneExpire == \A e \in expired : e \in Exchanges /\ exchange[e].phase = "done"
HeldIsAsked ==
  \A c \in Callers :
    caller[c].phase \in {"cached", "waiting", "sent"} => caller[c].token # None

FlightInv ==
  /\ FieldTypes /\ StartedInTurn
  /\ InFlightIsRunning /\ LooseByUpdates /\ OnlyGets /\ NewestRuns
TokensInv == FlightInv /\ CachedIsIssued /\ OnlyDoneExpire /\ HeldIsAsked

(* The credential of the next exchange.                                      *)
NextCredential ==
  IF client = "AccessToken" THEN NewestCredential ELSE Provider!Credential

(* Whoever keeps what the constructor was given does not wear it out.        *)
KeepsSeed ==
  \/ ~options.issuesRefresh
  \/ client = "TokenProvider" /\ options.kind = "clientCredentials"
SeedServes ==
  KeepsSeed =>
    /\ 0 \in accepted
    /\ \A e \in Exchanges : exchange[e].presents = 0
    /\ ~options.issuesRefresh => config = 0 /\ currentRefreshToken = 0

(* The credential that is presented, or comes next, is the one the server    *)
(* would take.                                                               *)
Unhurt == \A e \in Exchanges : exchange[e].phase \notin {"lost", "failed"}
Good ==
  /\ inFlight = None => NextCredential \in accepted
  /\ \A e \in Exchanges :
       /\ exchange[e].phase # "refused"
       /\ exchange[e].phase \in {"exporting", "posted"} => exchange[e].presents \in accepted
       /\ exchange[e].phase = "answered" => KeepsSeed \/ e \in accepted
Followed == Settled /\ Unhurt => Good

-----------------------------------------------------------------------------
(* The steps of both clients, as far as exchanges and callers are concerned. *)
LEMMA OneModel ==
  /\ Provider!None = None /\ Provider!Exchanges = Exchanges
  /\ Provider!Running = Running /\ Provider!RunningExchanges = RunningExchanges
  /\ \A e, phase, purpose, credential :
       Provider!NewExchange(e, phase, purpose, credential)
         <=> NewExchange(e, phase, purpose, credential)
  /\ \A c, phase, e : Provider!Waits(c, phase, e) <=> Waits(c, phase, e)
  /\ \A e : Provider!ServerStep(e) <=> ServerStep(e)
  /\ \A e : Provider!Expire(e) <=> Expire(e)
  /\ \A c : Provider!Again(c) <=> Again(c)
<1>1. Provider!None = None /\ Provider!Exchanges = Exchanges /\ Provider!Running = Running
  BY DEF Provider!None, None, Provider!Exchanges, Exchanges, Provider!Running, Running
<1>2. /\ Provider!RunningExchanges = RunningExchanges
      /\ \A e, phase, purpose, credential :
           Provider!NewExchange(e, phase, purpose, credential)
             <=> NewExchange(e, phase, purpose, credential)
      /\ \A c, phase, e : Provider!Waits(c, phase, e) <=> Waits(c, phase, e)
  BY <1>1 DEF Provider!RunningExchanges, RunningExchanges, Provider!NewExchange,
              NewExchange, Provider!Waits, Waits
<1>3. \A e : Provider!ServerStep(e) <=> ServerStep(e)
  BY DEF Provider!ServerStep, ServerStep, Provider!ServerGrants, ServerGrants,
         Provider!ServerRefuses, ServerRefuses, Provider!NetworkFails, NetworkFails,
         Provider!Rotated, Rotated
<1>4. /\ \A e : Provider!Expire(e) <=> Expire(e)
      /\ \A c : Provider!Again(c) <=> Again(c)
  BY <1>1, <1>2 DEF Provider!Expire, Expire, Provider!Again, Again
<1> QED
  BY <1>1, <1>2, <1>3, <1>4

FreshTokens ==
  {e \in Exchanges : /\ exchange[e].phase = "done"
                     /\ exchange[e].purpose = "get" => e \notin expired}
Asking(c) == caller[c].phase \in {"idle", "seeding"}

TakesCached(c) ==
  /\ Asking(c)
  /\ \E e \in FreshTokens : Waits(c, "cached", e)
  /\ UNCHANGED <<inFlight, exchange, accepted, expired, updates, options>>
SharesFlight(c) ==
  /\ Asking(c) /\ inFlight # None
  /\ Waits(c, "waiting", inFlight)
  /\ UNCHANGED <<inFlight, exchange, accepted, expired, updates, options>>
StartsGet(c, e) ==
  /\ Asking(c) /\ inFlight = None
  /\ \E phase \in {"exporting", "posted"} : NewExchange(e, phase, "get", NextCredential)
  /\ inFlight' = e
  /\ Waits(c, "waiting", e)
  /\ UNCHANGED <<accepted, expired, updates, options>>
StartsSeed(c, e) ==
  /\ caller[c].phase = "idle" /\ HasSeed
  /\ \E phase \in {"exporting", "posted"} : NewExchange(e, phase, "seed", config)
  /\ Waits(c, "seeding", e)
  /\ UNCHANGED <<inFlight, accepted, expired, updates, options>>
Exports(e) ==
  /\ exchange[e].phase = "exporting"
  /\ exchange' = [exchange EXCEPT ![e].phase = "posted", ![e].proof = signingKey]
  /\ UNCHANGED <<inFlight, accepted, expired, caller, updates, options>>
Ends(e) ==
  /\ \/ exchange[e].phase = "answered"
        /\ exchange' = [exchange EXCEPT ![e].phase = "done"]
     \/ exchange[e].phase \in {"refused", "lost"}
        /\ exchange' = [exchange EXCEPT ![e].phase = "failed"]
  /\ inFlight' = IF exchange[e].purpose = "get" THEN None ELSE inFlight
  /\ UNCHANGED <<accepted, expired, caller, updates, options>>
Answers(c) ==
  /\ \/ /\ \/ caller[c].phase = "cached"
           \/ caller[c].phase = "waiting" /\ exchange[caller[c].token].phase = "done"
        /\ caller' = [caller EXCEPT ![c].phase = "sent"]
     \/ /\ caller[c].phase \in {"cached", "waiting", "seeding"}
        /\ caller' = [caller EXCEPT ![c].phase = "rejected"]
  /\ UNCHANGED <<inFlight, exchange, accepted, expired, updates, options>>
Rekeys ==
  /\ client = "AccessToken"
  /\ updates' = updates + 1
  /\ inFlight' \in {inFlight, None}
  /\ UNCHANGED <<exchange, accepted, expired, caller, options>>

Asks(c) == TakesCached(c) \/ SharesFlight(c)
Returns(c) == Answers(c) \/ (Again(c) /\ UNCHANGED updates)
Carries(e) == \/ Exports(e)
              \/ ServerStep(e) /\ UNCHANGED updates
              \/ Expire(e) /\ UNCHANGED updates

(* A new credential is one that was just returned.                           *)
SameCredential == NextCredential' = NextCredential
NewCredential(e) == exchange'[e].phase = "done" => NextCredential' = e \/ KeepsSeed

CallerStep(c) ==
  \/ (Asks(c) \/ Returns(c)) /\ SameCredential
  \/ \E e \in Exchanges : StartsGet(c, e) \/ (StartsSeed(c, e) /\ SameCredential)
FlightStep(e) ==
  \/ Carries(e) /\ SameCredential
  \/ Ends(e) /\ NewCredential(e)
TokensStep ==
  \/ \E c \in Callers : CallerStep(c)
  \/ \E e \in Exchanges : FlightStep(e)
  \/ Rekeys
  \/ UNCHANGED <<exchangeVars, updates>> /\ SameCredential

(* The next credential depends on a few fields of the client.                *)
LEMMA CredentialStays ==
  /\ UNCHANGED <<client, options, config, data>> /\ client = "AccessToken" => SameCredential
  /\ UNCHANGED <<client, options, currentRefreshToken, initialExchangeDone>>
     /\ client = "TokenProvider" => SameCredential
  BY DEF SameCredential, NextCredential, NewestCredential, Provider!Credential

(* What is cached and not lapsed is fresh.                                   *)
LEMMA CachedAreFresh ==
  ASSUME CachedIsIssued
  PROVE  /\ client = "AccessToken" /\ CachedIsFresh => data \in FreshTokens
         /\ client = "TokenProvider" /\ Provider!CachedIsFresh =>
              cachedToken \in FreshTokens
<1>1. CachedIsFresh => data \in FreshTokens
  BY DEF CachedIsIssued, CachedIsFresh, FreshTokens
<1>2. client = "TokenProvider" /\ Provider!CachedIsFresh => cachedToken \in FreshTokens
  BY OneModel DEF CachedIsIssued, Provider!CachedIsFresh, FreshTokens
<1> QED
  BY <1>1, <1>2

(* get takes what is cached, or shares what is in flight, or starts.         *)
LEMMA AccessTokenGets ==
  ASSUME TokensInv, NEW c \in Callers, Asking(c), client = "AccessToken", Get(c),
         UNCHANGED client
  PROVE  CallerStep(c)
<1>1. CASE GetCached(c)
  <2>1. TakesCached(c)
    BY <1>1, CachedAreFresh DEF TokensInv, Get, GetCached, TakesCached
  <2>2. SameCredential
    BY <1>1, CredentialStays DEF Get, GetCached
  <2> QED
    BY <2>1, <2>2 DEF CallerStep, Asks
<1>2. CASE GetShared(c)
  <2>1. SharesFlight(c)
    BY <1>2 DEF Get, GetShared, SharesFlight
  <2>2. SameCredential
    BY <1>2, CredentialStays DEF Get, GetShared
  <2> QED
    BY <2>1, <2>2 DEF CallerStep, Asks
<1>3. CASE GetExchanges(c)
  <2>1. PICK e \in Exchanges :
          /\ DoPost(e, "get", NewestCredential) /\ inFlight' = InFlightPublished(e)
          /\ Waits(c, "waiting", e)
    BY <1>3 DEF GetExchanges
  <2>2. \E phase \in {"exporting", "posted"} : NewExchange(e, phase, "get", NextCredential)
    BY <2>1 DEF DoPost, NextCredential
  <2>3. StartsGet(c, e)
    BY <1>3, <2>1, <2>2 DEF Get, GetExchanges, InFlightPublished, StartsGet
  <2> QED
    BY <2>3 DEF CallerStep
<1> QED
  BY <1>1, <1>2, <1>3 DEF Get

(* The steps of the class are of these kinds, and those of the closures.     *)
LEMMA AccessTokenSteps ==
  ASSUME TokensInv, client = "AccessToken", Next, UNCHANGED client
  PROVE  TokensStep
<1>1. ASSUME NEW e \in Exchanges, ExchangeStep(e) PROVE FlightStep(e)
  <2>1. CASE ProveAndPost(e) \/ AtServer(e)
    <3>1. Carries(e)
      BY <2>1 DEF ProveAndPost, AtServer, Carries, Exports
    <3>2. SameCredential
      BY <2>1, CredentialStays DEF ProveAndPost, AtServer, cacheVars, ServerStep
    <3> QED
      BY <3>1, <3>2 DEF FlightStep
  <2>2. CASE ExchangeReturns(e)
    <3>1. Ends(e)
      BY <2>2 DEF ExchangeReturns, Ends
    <3>2. data' = e /\ e # None /\ UNCHANGED options
      BY <2>2, ExchangeAssumption DEF ExchangeReturns, Exchanges, None
    <3>3. NewCredential(e)
      BY <3>2 DEF NewCredential, NextCredential, NewestCredential, KeepsSeed
    <3> QED
      BY <3>1, <3>3 DEF FlightStep
  <2>3. CASE ExchangeThrows(e)
    <3>1. Ends(e)
      BY <2>3 DEF ExchangeThrows, InFlightAfterError, Ends
    <3>2. exchange'[e].phase # "done"
      BY <2>3 DEF ExchangeThrows, TokensInv, FlightInv, FieldTypes, SharedTypes, ExchangeRecords
    <3> QED
      BY <3>1, <3>2 DEF FlightStep, NewCredential
  <2> QED
    BY <1>1, <2>1, <2>2, <2>3 DEF ExchangeStep
<1>2. ASSUME NEW c \in Callers, WithCreds(c) \/ SeedExchanged(c) PROVE CallerStep(c)
  BY <1>2, AccessTokenGets DEF WithCreds, SeedExchanged, Asking
<1>3. ASSUME NEW c \in Callers, ExchangeSeed(c) PROVE CallerStep(c)
  <2>1. HasSeed
    BY <1>3 DEF ExchangeSeed, TokensInv, FlightInv, OnlyGets
  <2>2. PICK e \in Exchanges : DoPost(e, "seed", config) /\ Waits(c, "seeding", e)
    BY <1>3 DEF ExchangeSeed
  <2>3. \E phase \in {"exporting", "posted"} : NewExchange(e, phase, "seed", config)
    BY <2>2 DEF DoPost
  <2>4. StartsSeed(c, e)
    BY <1>3, <2>1, <2>2, <2>3 DEF ExchangeSeed, StartsSeed
  <2>5. SameCredential
    BY <1>3, CredentialStays DEF ExchangeSeed, cacheVars
  <2> QED
    BY <2>4, <2>5 DEF CallerStep
<1>4. ASSUME NEW c \in Callers, Send(c) \/ Fail(c) PROVE CallerStep(c)
  <2>1. Answers(c)
    BY <1>4 DEF Send, Fail, FailsWhile, Answers
  <2>2. SameCredential
    BY <1>4, CredentialStays DEF Send, Fail, cacheVars
  <2> QED
    BY <2>1, <2>2 DEF CallerStep, Returns
<1>5. ASSUME NEW k \in Keys, UpdateClientPublicKey(k) PROVE Rekeys
  BY <1>5 DEF UpdateClientPublicKey, Rekeys
<1>6. ASSUME NEW e \in Exchanges, Expire(e), UNCHANGED <<cacheVars, updates>>
      PROVE  FlightStep(e)
  BY <1>6, CredentialStays DEF Expire, cacheVars, Carries, FlightStep
<1>7. ASSUME NEW c \in Callers, Again(c), UNCHANGED <<cacheVars, updates>>
      PROVE  CallerStep(c)
  BY <1>7, CredentialStays DEF Again, cacheVars, Returns, CallerStep
<1>8. CASE UNCHANGED vars
  BY <1>8, CredentialStays DEF vars, cacheVars, exchangeVars, TokensStep
<1> QED
  BY <1>1, <1>2, <1>3, <1>4, <1>5, <1>6, <1>7, <1>8 DEF Next, Answer, TokensStep

LEMMA ProviderSteps ==
  ASSUME TokensInv, client = "TokenProvider", Provider!ProviderNext,
         UNCHANGED <<client, updates>>
  PROVE  TokensStep
<1>1. ASSUME NEW e \in Exchanges, Provider!ExchangeStep(e) PROVE FlightStep(e)
  <2>1. exchange[e].purpose = "get"
    BY DEF TokensInv, FlightInv, OnlyGets, HasSeed
  <2>2. CASE Provider!AtServer(e)
    BY <2>2, OneModel, CredentialStays
    DEF Provider!AtServer, Provider!closureVars, ServerStep, Carries, FlightStep
  <2>3. CASE Provider!ExchangeReturns(e)
    <3>1. Ends(e)
      BY <2>1, <2>3, OneModel DEF Provider!ExchangeReturns, Ends
    <3>2. /\ initialExchangeDone' = TRUE /\ UNCHANGED options
          /\ options.issuesRefresh => currentRefreshToken' = e
      BY <2>3 DEF Provider!ExchangeReturns
    <3>3. NewCredential(e)
      BY <3>2 DEF NewCredential, NextCredential, Provider!Credential, KeepsSeed
    <3> QED
      BY <3>1, <3>3 DEF FlightStep
  <2>4. CASE Provider!ExchangeThrows(e)
    <3>1. Ends(e)
      BY <2>1, <2>4, OneModel DEF Provider!ExchangeThrows, Ends
    <3>2. exchange'[e].phase # "done"
      BY <2>4 DEF Provider!ExchangeThrows, TokensInv, FlightInv, FieldTypes, SharedTypes,
         ExchangeRecords
    <3> QED
      BY <3>1, <3>2 DEF FlightStep, NewCredential
  <2> QED
    BY <1>1, <2>2, <2>3, <2>4 DEF Provider!ExchangeStep
<1>2. ASSUME NEW c \in Callers, Provider!Intercept(c) PROVE CallerStep(c)
  <2>1. SameCredential
    BY <1>2, CredentialStays DEF Provider!Intercept, Provider!closureVars
  <2> USE <1>2 DEF Provider!Intercept, Asking
  <2>2. CASE Provider!GetCached(c)
    BY <2>1, <2>2, CachedAreFresh, OneModel
    DEF TokensInv, Provider!GetCached, TakesCached, CallerStep, Asks
  <2>3. CASE Provider!GetShared(c)
    BY <2>1, <2>3, OneModel DEF Provider!GetShared, SharesFlight, CallerStep, Asks
  <2>4. CASE Provider!GetExchanges(c)
    <3>1. PICK e \in Exchanges :
            /\ NewExchange(e, "posted", "get", Provider!Credential)
            /\ inFlight' = e /\ Waits(c, "waiting", e)
      BY <2>4, OneModel DEF Provider!GetExchanges
    <3>2. StartsGet(c, e)
      BY <2>4, <3>1, OneModel DEF Provider!GetExchanges, StartsGet, NextCredential
    <3> QED
      BY <3>2 DEF CallerStep
  <2> QED
    BY <2>2, <2>3, <2>4
<1>3. ASSUME NEW c \in Callers, Provider!Answer(c) PROVE CallerStep(c)
  <2>1. Answers(c)
    BY <1>3 DEF Provider!Answer, Provider!Send, Provider!Fail, Answers
  <2>2. SameCredential
    BY <1>3, CredentialStays
    DEF Provider!Answer, Provider!Send, Provider!Fail, Provider!closureVars
  <2> QED
    BY <2>1, <2>2 DEF CallerStep, Returns
<1>4. CASE Provider!KeysSettle \/ UNCHANGED Provider!providerVars
  BY <1>4, CredentialStays
  DEF Provider!KeysSettle, Provider!providerVars, Provider!closureVars,
      Provider!exchangeVars, exchangeVars, TokensStep
<1>5. ASSUME NEW e \in Exchanges, Expire(e), UNCHANGED Provider!closureVars
      PROVE  FlightStep(e)
  BY <1>5, CredentialStays DEF Expire, Provider!closureVars, Carries, FlightStep
<1>6. ASSUME NEW c \in Callers, Again(c), UNCHANGED Provider!closureVars
      PROVE  CallerStep(c)
  BY <1>6, CredentialStays DEF Again, Provider!closureVars, Returns, CallerStep
<1> QED
  BY <1>1, <1>2, <1>3, <1>4, <1>5, <1>6, OneModel DEF Provider!ProviderNext, TokensStep

(* So are those of an application, which uses one of the two.                *)
LEMMA ClientSteps ==
  ASSUME TokensInv, [ClientNext]_clientVars
  PROVE  TokensStep /\ UNCHANGED <<client, options>>
<1>1. UNCHANGED client
  BY DEF ClientNext, ByAccessToken, ByProvider, clientVars
<1>2. ASSUME ByAccessToken(Next) PROVE TokensStep
  BY <1>1, <1>2, AccessTokenSteps DEF ByAccessToken
<1>3. ASSUME ByProvider(Provider!ProviderNext) PROVE TokensStep
  BY <1>1, <1>3, ProviderSteps DEF ByProvider, ownAccessVars
<1>4. CASE UNCHANGED clientVars
  <2>1. SameCredential
    BY <1>4 DEF clientVars, vars, cacheVars, ownProviderVars, exchangeVars, SameCredential,
       NextCredential, NewestCredential, Provider!Credential
  <2> QED
    BY <1>4, <2>1 DEF clientVars, vars, exchangeVars, TokensStep
<1>5. TokensStep
  BY <1>2, <1>3, <1>4 DEF ClientNext
<1>6. UNCHANGED options
  BY <1>5 DEF TokensStep, CallerStep, Asks, Returns, FlightStep, Carries, TakesCached,
     SharesFlight, Answers, Again, StartsGet, StartsSeed, Exports, Ends, ServerStep, Expire,
     Rekeys, exchangeVars
<1> QED
  BY <1>1, <1>5, <1>6

-----------------------------------------------------------------------------
(* What the steps do to the exchanges and to the promise in flight.          *)
Grows(e) ==
  /\ exchange[e].phase = "unused"
  /\ \A f \in Exchanges : f < e => exchange[f].phase # "unused"
  /\ exchange'[e].phase \in Running
  /\ \/ exchange'[e].purpose = "get" /\ inFlight = None /\ inFlight' = e
     \/ exchange'[e].purpose = "seed" /\ HasSeed /\ inFlight' = inFlight
Goes(e) ==
  /\ exchange[e].phase \in Running /\ exchange'[e].phase \in Running
  /\ exchange'[e].purpose = exchange[e].purpose
  /\ inFlight' = inFlight
Stops(e) ==
  /\ exchange[e].phase \in Running /\ exchange'[e].phase \in {"done", "failed"}
  /\ exchange'[e].purpose = exchange[e].purpose
  /\ inFlight' = IF exchange[e].purpose = "get" THEN None ELSE inFlight
Changes(e) ==
  /\ exchange' \in [Exchanges -> ExchangeRecords]
  /\ \A f \in Exchanges \ {e} : exchange'[f] = exchange[f]
  /\ updates' = updates
  /\ Grows(e) \/ Goes(e) \/ Stops(e)
Releases ==
  /\ exchange' = exchange
  /\ updates' = updates + 1
  /\ inFlight' \in {inFlight, None}
  /\ client = "AccessToken"
FlightChange ==
  \/ \E e \in Exchanges : Changes(e)
  \/ Releases
  \/ UNCHANGED <<exchange, inFlight, updates>>

(* The credential of the next exchange is 0 or the number of another.        *)
LEMMA CredentialIsNumber == FieldTypes => NextCredential \in Numbers
  BY OneModel, ExchangeAssumption
  DEF FieldTypes, OwnTypes, NextCredential, NewestCredential, Provider!Credential, Numbers

(* An exchange that is started is the first that was not used.               *)
LEMMA NewExchangeGrows ==
  ASSUME FieldTypes, NEW e \in Exchanges, NEW phase \in {"exporting", "posted"},
         NEW purpose \in {"get", "seed"}, NEW credential \in Numbers,
         NewExchange(e, phase, purpose, credential)
  PROVE  /\ exchange' \in [Exchanges -> ExchangeRecords]
         /\ \A f \in Exchanges \ {e} : exchange'[f] = exchange[f]
         /\ exchange[e].phase = "unused"
         /\ \A f \in Exchanges : f < e => exchange[f].phase # "unused"
         /\ exchange'[e] = [phase |-> phase, purpose |-> purpose, presents |-> credential,
                            proof |-> 0]
<1>1. \A f \in Exchanges : f < e => f \in 1 .. e - 1
  BY ExchangeAssumption DEF Exchanges
<1> QED
  BY <1>1 DEF NewExchange, FieldTypes, SharedTypes, ExchangeRecords, Phases, Running, None

(* Every kind of step is one of these changes.                               *)
LEMMA StartsAreChanges ==
  ASSUME FieldTypes, NEW c, NEW e \in Exchanges, StartsGet(c, e) \/ StartsSeed(c, e)
  PROVE  Changes(e)
<1> USE DEF Changes, Grows
<1>1. CASE StartsGet(c, e)
  <2>1. PICK phase \in {"exporting", "posted"} : NewExchange(e, phase, "get", NextCredential)
    BY <1>1 DEF StartsGet
  <2>2. NextCredential \in Numbers
    BY CredentialIsNumber
  <2>3. /\ exchange' \in [Exchanges -> ExchangeRecords]
        /\ \A f \in Exchanges \ {e} : exchange'[f] = exchange[f]
        /\ exchange[e].phase = "unused"
        /\ \A f \in Exchanges : f < e => exchange[f].phase # "unused"
        /\ exchange'[e] = [phase |-> phase, purpose |-> "get", presents |-> NextCredential,
                           proof |-> 0]
    BY <2>1, <2>2, NewExchangeGrows
  <2>4. exchange'[e].phase \in Running /\ exchange'[e].purpose = "get"
    BY <2>3 DEF Running
  <2> QED
    BY <1>1, <2>3, <2>4 DEF StartsGet
<1>2. CASE StartsSeed(c, e)
  <2>1. PICK phase \in {"exporting", "posted"} : NewExchange(e, phase, "seed", config)
    BY <1>2 DEF StartsSeed
  <2>2. config \in Numbers
    BY DEF FieldTypes, OwnTypes
  <2>3. /\ exchange' \in [Exchanges -> ExchangeRecords]
        /\ \A f \in Exchanges \ {e} : exchange'[f] = exchange[f]
        /\ exchange[e].phase = "unused"
        /\ \A f \in Exchanges : f < e => exchange[f].phase # "unused"
        /\ exchange'[e] = [phase |-> phase, purpose |-> "seed", presents |-> config,
                           proof |-> 0]
    BY <2>1, <2>2, NewExchangeGrows
  <2>4. exchange'[e].phase \in Running /\ exchange'[e].purpose = "seed"
    BY <2>3 DEF Running
  <2> QED
    BY <1>2, <2>3, <2>4 DEF StartsSeed
<1> QED
  BY <1>1, <1>2

LEMMA FlightStepsChange ==
  ASSUME FieldTypes, NEW e \in Exchanges, FlightStep(e)
  PROVE  FlightChange
<1> USE DEF FieldTypes, SharedTypes, OwnTypes, FlightChange
<1>1. CASE Expire(e) /\ UNCHANGED updates
  BY <1>1 DEF Expire
<1>2. CASE Exports(e)
  BY <1>2 DEF Exports, Changes, Goes, ExchangeRecords, Phases, Running
<1>3. CASE Ends(e)
  BY <1>3 DEF Ends, Changes, Stops, ExchangeRecords, Phases, Running
<1>4. CASE ServerStep(e) /\ UNCHANGED updates
  BY <1>4 DEF ServerStep, ServerGrants, ServerRefuses, NetworkFails, Changes, Goes,
     ExchangeRecords, Phases, Running
<1> QED
  BY <1>1, <1>2, <1>3, <1>4 DEF FlightStep, Carries

LEMMA StepsChange ==
  ASSUME FieldTypes, TokensStep
  PROVE  FlightChange
<1>1. ASSUME NEW c \in Callers, CallerStep(c) PROVE FlightChange
  <2>1. ASSUME NEW e \in Exchanges, StartsGet(c, e) \/ StartsSeed(c, e)
        PROVE  FlightChange
    BY <2>1, StartsAreChanges DEF FlightChange
  <2>2. CASE Asks(c) \/ Returns(c)
    <3>1. UNCHANGED <<exchange, inFlight, updates>>
      BY <2>2 DEF Asks, Returns, TakesCached, SharesFlight, Answers, Again
    <3> QED
      BY <3>1 DEF FlightChange
  <2>3. CASE \E e \in Exchanges : StartsGet(c, e) \/ StartsSeed(c, e)
    BY <2>1, <2>3
  <2> QED
    BY <1>1, <2>2, <2>3 DEF CallerStep
<1>2. ASSUME NEW e \in Exchanges, FlightStep(e) PROVE FlightChange
  BY <1>2, FlightStepsChange
<1>3. CASE Rekeys
  BY <1>3 DEF Rekeys, FlightChange, Releases
<1>4. CASE UNCHANGED <<exchangeVars, updates>>
  BY <1>4 DEF exchangeVars, FlightChange
<1> QED
  BY <1>1, <1>2, <1>3, <1>4 DEF TokensStep

(* Those who wait keep waiting for a token.                                  *)
LEMMA CallersKept ==
  ASSUME FieldTypes, HeldIsAsked, FreshTokens \subseteq Exchanges, TokensStep
  PROVE  /\ caller' \in [Callers -> [phase : CallerPhases, token : Numbers]]
         /\ HeldIsAsked'
<1> USE ExchangeAssumption DEF FieldTypes, SharedTypes, HeldIsAsked, CallerPhases, Numbers,
    Exchanges, None, Waits
<1>1. ASSUME NEW c \in Callers, CallerStep(c)
      PROVE  /\ caller' \in [Callers -> [phase : CallerPhases, token : Numbers]]
             /\ HeldIsAsked'
  <2>1. CASE TakesCached(c)
    <3>1. PICK e \in FreshTokens : Waits(c, "cached", e)
      BY <2>1 DEF TakesCached
    <3>2. e \in 1 .. MaxExchanges
      BY <3>1
    <3> QED
      BY <3>1, <3>2
  <2>2. CASE SharesFlight(c)
    BY <2>2 DEF SharesFlight
  <2>3. CASE Answers(c)
    BY <2>3 DEF Answers
  <2>4. CASE Again(c)
    BY <2>4 DEF Again
  <2>5. ASSUME NEW e \in Exchanges, StartsGet(c, e) \/ StartsSeed(c, e)
        PROVE  /\ caller' \in [Callers -> [phase : CallerPhases, token : Numbers]]
               /\ HeldIsAsked'
    <3>1. PICK phase \in {"waiting", "seeding"} : Waits(c, phase, e)
      BY <2>5 DEF StartsGet, StartsSeed
    <3> QED
      BY <3>1
  <2> QED
    BY <1>1, <2>1, <2>2, <2>3, <2>4, <2>5 DEF CallerStep, Asks, Returns
<1>2. CASE UNCHANGED caller
  BY <1>2
<1> QED
  BY <1>1, <1>2 DEF TokensStep, FlightStep, Carries, Exports, Ends, ServerStep, Expire, Rekeys,
     exchangeVars

-----------------------------------------------------------------------------
(* The exchanges, whatever the client is.                                    *)
(* The exchanges that run can be counted.                                    *)
LEMMA RunningIsFinite == IsFiniteSet(RunningExchanges)
<1>1. RunningExchanges \subseteq 1 .. MaxExchanges
  BY DEF RunningExchanges, Exchanges
<1> QED
  BY <1>1, ExchangeAssumption, FS_Interval, FS_Subset, 1 \in Int, MaxExchanges \in Int

(* None is started beyond one that was not used.                             *)
LEMMA NewIsLast ==
  ASSUME StartedInTurn, NEW e \in Exchanges, exchange[e].phase = "unused"
  PROVE  \A f \in Exchanges : e < f => exchange[f].phase = "unused"
  BY DEF StartedInTurn

(* The parts of the invariant that are about exchanges.                      *)
LEMMA TurnsKept ==
  ASSUME FlightInv, FlightChange
  PROVE  StartedInTurn'
<1> USE DEF FlightInv, StartedInTurn
<1>1. ASSUME NEW e \in Exchanges, Changes(e) PROVE StartedInTurn'
  <2>1. exchange'[e].phase # "unused"
    BY <1>1 DEF Changes, Grows, Goes, Stops, Running
  <2>2. \A f \in Exchanges : f < e => exchange[f].phase # "unused"
    BY <1>1 DEF Changes, Grows, Goes, Stops, Running
  <2> QED
    BY <1>1, <2>1, <2>2 DEF Changes
<1>2. CASE exchange' = exchange
  BY <1>2
<1> QED
  BY <1>1, <1>2 DEF FlightChange, Releases

LEMMA FlightRunsKept ==
  ASSUME FlightInv, FlightChange
  PROVE  InFlightIsRunning'
<1> USE DEF FlightInv, InFlightIsRunning, RunningExchanges
<1>1. ASSUME NEW e \in Exchanges, Changes(e) PROVE InFlightIsRunning'
  <2> USE DEF Changes
  <2>1. CASE Grows(e)
    <3>1. inFlight # e
      BY <2>1, ExchangeAssumption DEF Grows, Running, None, Exchanges
    <3> QED
      BY <1>1, <2>1, <3>1 DEF Grows, Running
  <2>2. CASE Goes(e)
    BY <1>1, <2>2 DEF Goes
  <2>3. CASE Stops(e)
    BY <1>1, <2>3 DEF Stops
  <2> QED
    BY <1>1, <2>1, <2>2, <2>3
<1>2. CASE Releases \/ UNCHANGED <<exchange, inFlight, updates>>
  BY <1>2 DEF Releases
<1> QED
  BY <1>1, <1>2 DEF FlightChange

(* What is loose afterwards: what was, or one that replaces it, or what the  *)
(* change of the key has let go.                                             *)
LEMMA LooseKept ==
  ASSUME FlightInv, FlightChange
  PROVE  LooseByUpdates'
<1> DEFINE R == {f \in RunningExchanges : exchange[f].purpose = "get"}
<1>1. IsFiniteSet(RunningExchanges) /\ IsFiniteSet(R) /\ IsFiniteSet(Loose)
  <2>1. R \subseteq RunningExchanges /\ Loose \subseteq RunningExchanges
    BY DEF Loose
  <2> QED
    BY <2>1, RunningIsFinite, FS_Subset
<1>2. updates \in Nat /\ Cardinality(Loose) \in Nat /\ Cardinality(Loose) <= updates
  BY <1>1, FS_CardinalityType DEF FlightInv, FieldTypes, SharedTypes, LooseByUpdates
<1>3. inFlight # None => inFlight \in R
  BY DEF FlightInv, InFlightIsRunning
<1>4. Loose = R \ {inFlight}
  BY DEF Loose
<1>5. ASSUME Loose' \subseteq Loose, updates' = updates PROVE LooseByUpdates'
  <2>1. Cardinality(Loose') <= Cardinality(Loose)
    BY <1>1, <1>5, FS_Subset
  <2>2. Cardinality(Loose') \in Nat
    BY <1>1, <1>5, FS_Subset, FS_CardinalityType
  <2> QED
    BY <1>2, <1>5, <2>1, <2>2 DEF LooseByUpdates
<1>6. ASSUME NEW e \in Exchanges, Changes(e) PROVE LooseByUpdates'
  <2> USE DEF Changes
  <2>1. CASE Grows(e)
    <3>1. e \notin RunningExchanges
      BY <2>1 DEF Grows, RunningExchanges, Running
    <3>2. \A f \in RunningExchanges : f # e /\ f \in Exchanges /\ exchange'[f] = exchange[f]
      BY <1>6, <3>1 DEF RunningExchanges
    <3>3. \A f \in Loose' : f # e => f \in R
      BY <1>6 DEF Loose, RunningExchanges
    <3>4. CASE exchange'[e].purpose = "get" /\ inFlight = None /\ inFlight' = e
      <4>1. None \notin R
        BY ExchangeAssumption DEF RunningExchanges, None, Exchanges
      <4>2. Loose' \subseteq Loose
        BY <3>3, <3>4, <4>1, <1>4 DEF Loose
      <4> QED
        BY <1>5, <1>6, <4>2
    <3>5. CASE exchange'[e].purpose = "seed" /\ inFlight' = inFlight
      <4>1. e \notin Loose'
        BY <3>5 DEF Loose
      <4>2. Loose' \subseteq Loose
        BY <3>3, <3>5, <4>1, <1>4 DEF Loose
      <4> QED
        BY <1>5, <1>6, <4>2
    <3> QED
      BY <2>1, <3>4, <3>5 DEF Grows
  <2>2. CASE Goes(e)
    <3>1. Loose' \subseteq Loose
      BY <1>6, <2>2 DEF Goes, Loose, RunningExchanges
    <3> QED
      BY <1>5, <1>6, <3>1
  <2>3. CASE Stops(e)
    <3>1. \A f \in Loose' : f # e /\ f \in R
      BY <1>6, <2>3 DEF Stops, Loose, RunningExchanges, Running
    <3>2. CASE exchange[e].purpose # "get" \/ inFlight \in {None, e}
      <4>1. Loose' \subseteq Loose
        <5>1. None \notin R
          BY ExchangeAssumption DEF RunningExchanges, None, Exchanges
        <5>2. CASE exchange[e].purpose # "get"
          <6>1. inFlight' = inFlight
            BY <2>3, <5>2 DEF Stops
          <6> QED
            BY <3>1, <6>1, <1>4 DEF Loose
        <5>3. CASE inFlight \in {None, e}
          BY <3>1, <5>1, <5>3, <1>4
        <5> QED
          BY <3>2, <5>2, <5>3
      <4> QED
        BY <1>5, <1>6, <4>1
    <3>3. CASE exchange[e].purpose = "get" /\ inFlight \notin {None, e}
      <4>1. inFlight \in R /\ e \in R
        BY <1>3, <2>3, <3>3 DEF Stops, RunningExchanges
      <4>2. Loose' \subseteq R \ {e}
        BY <3>1
      <4>3. Cardinality(R \ {e}) = Cardinality(R) - 1
            /\ Cardinality(R \ {inFlight}) = Cardinality(R) - 1
        BY <1>1, <4>1, FS_RemoveElement
      <4>4. Cardinality(Loose') <= Cardinality(Loose) /\ Cardinality(Loose') \in Nat
        BY <1>1, <1>4, <4>2, <4>3, FS_RemoveElement, FS_Subset, FS_CardinalityType
      <4> QED
        BY <1>2, <1>6, <4>4 DEF LooseByUpdates
    <3> QED
      BY <3>2, <3>3
  <2> QED
    BY <1>6, <2>1, <2>2, <2>3
<1>7. CASE Releases
  <2>1. Loose' \subseteq Loose \cup {inFlight}
    BY <1>7, <1>4 DEF Releases, Loose, RunningExchanges
  <2>2. /\ IsFiniteSet(Loose \cup {inFlight})
        /\ Cardinality(Loose \cup {inFlight}) <= Cardinality(Loose) + 1
    <3>1. inFlight \notin Loose
      BY DEF Loose
    <3>2. /\ IsFiniteSet(Loose \cup {inFlight})
          /\ Cardinality(Loose \cup {inFlight}) = Cardinality(Loose) + 1
      <4> HIDE DEF R
      <4> QED
        BY <1>1, <3>1, FS_AddElement
    <3> QED
      BY <1>2, <3>2
  <2>3. Cardinality(Loose') <= Cardinality(Loose \cup {inFlight})
        /\ Cardinality(Loose') \in Nat /\ Cardinality(Loose \cup {inFlight}) \in Nat
    BY <2>1, <2>2, FS_Subset, FS_CardinalityType
  <2>4. updates' = updates + 1
    BY <1>7 DEF Releases
  <2> QED
    BY <1>2, <2>2, <2>3, <2>4 DEF LooseByUpdates
<1>8. CASE UNCHANGED <<exchange, inFlight, updates>>
  BY <1>8, <1>5 DEF Loose, RunningExchanges
<1> QED
  BY <1>6, <1>7, <1>8 DEF FlightChange

(* While nothing is loose, only the promise in flight has an exchange.       *)
LEMMA SettledFlight ==
  ASSUME FlightInv, Settled
  PROVE  \A e \in RunningExchanges : e = inFlight
<1>1. IsFiniteSet(Loose)
  <2>1. Loose \subseteq RunningExchanges
    BY DEF Loose
  <2> QED
    BY <2>1, RunningIsFinite, FS_Subset
<1>2. Cardinality(Loose) \in Nat /\ Cardinality(Loose) <= 0
  BY <1>1, FS_CardinalityType DEF FlightInv, LooseByUpdates, Settled
<1>3. Loose = {}
  BY <1>1, <1>2, FS_EmptySet
<1>4. \A e \in RunningExchanges : exchange[e].purpose = "get"
  BY DEF FlightInv, OnlyGets, Settled, RunningExchanges
<1> QED
  BY <1>3, <1>4 DEF Loose

(* So the one that runs is the newest, and without a seed one of get.        *)
LEMMA NewestKept ==
  ASSUME FlightInv, FlightChange, UNCHANGED <<client, options>>
  PROVE  NewestRuns'
<1> SUFFICES ASSUME Settled', NEW e \in RunningExchanges', NEW f \in Exchanges, e < f
    PROVE  exchange'[f].phase = "unused"
  BY DEF NewestRuns, Exchanges
<1>1. Settled
  <2>1. updates \in Nat
    BY DEF FlightInv, FieldTypes, SharedTypes
  <2>2. HasSeed' <=> HasSeed
    BY DEF HasSeed
  <2>3. updates' = 0
    BY DEF Settled
  <2>4. updates = 0
    BY <2>1, <2>3 DEF FlightChange, Changes, Releases
  <2> QED
    BY <2>2, <2>4 DEF Settled
<1>2. e \in Exchanges /\ exchange'[e].phase \in Running /\ e \in Nat /\ f \in Nat
  BY DEF RunningExchanges, Exchanges, Running
<1>3. "unused" \notin Running
  BY DEF Running
<1>4. ASSUME NEW g \in Exchanges, Changes(g) PROVE exchange'[f].phase = "unused"
  <2>1. CASE Grows(g)
    <3>1. \A x \in RunningExchanges : FALSE
      <4>1. inFlight = None
        BY <1>1, <2>1 DEF Grows, Settled
      <4>2. None \notin RunningExchanges
        BY ExchangeAssumption DEF RunningExchanges, Exchanges, None
      <4> QED
        BY <1>1, <4>1, <4>2, SettledFlight
    <3>2. e = g
      BY <1>2, <1>4, <3>1 DEF RunningExchanges, Changes
    <3>3. exchange[f].phase = "unused" /\ f # g
      BY <1>2, <2>1, <3>2, NewIsLast DEF FlightInv, Grows
    <3> QED
      BY <1>4, <3>3 DEF Changes
  <2>2. CASE Goes(g) \/ Stops(g)
    <3>1. exchange[g].phase \in Running /\ exchange[e].phase \in Running
      BY <1>2, <1>4, <2>2 DEF Goes, Stops, Changes
    <3>2. exchange[f].phase = "unused"
      BY <1>1, <1>2, <3>1 DEF FlightInv, NewestRuns, RunningExchanges
    <3> QED
      BY <1>3, <1>4, <3>1, <3>2 DEF Changes
  <2> QED
    BY <1>4, <2>1, <2>2 DEF Changes
<1>5. CASE exchange' = exchange
  BY <1>1, <1>2, <1>5 DEF FlightInv, NewestRuns, RunningExchanges
<1> QED
  BY <1>4, <1>5 DEF FlightChange, Releases

LEMMA GetsKept ==
  ASSUME FlightInv, FlightChange, UNCHANGED <<client, options>>,
         client = "AccessToken" /\ seed = FALSE => seed' = FALSE
  PROVE  OnlyGets'
<1> SUFFICES ASSUME ~HasSeed'
    PROVE  /\ client = "AccessToken" => seed' = FALSE
           /\ \A f \in Exchanges : exchange'[f].purpose = "get"
  BY DEF OnlyGets, Exchanges
<1>1. ~HasSeed
  BY DEF HasSeed
<1>2. /\ client = "AccessToken" => seed = FALSE
      /\ \A f \in Exchanges : exchange[f].purpose = "get"
  BY <1>1 DEF FlightInv, OnlyGets
<1>3. ASSUME NEW e \in Exchanges, Changes(e)
      PROVE  \A f \in Exchanges : exchange'[f].purpose = "get"
  BY <1>1, <1>2, <1>3 DEF Changes, Grows, Goes, Stops
<1> QED
  BY <1>2, <1>3 DEF FlightChange, Releases

(* What was answered stays so.                                               *)
LEMMA DoneStays ==
  ASSUME FlightChange, NEW e \in Exchanges, exchange[e].phase = "done"
  PROVE  exchange'[e] = exchange[e]
  BY DEF FlightChange, Changes, Releases, Grows, Goes, Stops, Running

-----------------------------------------------------------------------------
(* What each client does to its own fields.                                  *)
LEMMA AccessTokenKeeps ==
  ASSUME TokensInv, client = "AccessToken", Next, FlightChange,
         UNCHANGED <<client, ownProviderVars>>
  PROVE  /\ OwnTypes' /\ CachedIsIssued'
         /\ seed = FALSE => seed' = FALSE
<1> USE DEF TokensInv, FlightInv, FieldTypes
<1>1. UNCHANGED <<cachedToken, currentRefreshToken>> /\ cachedToken = None
  BY DEF ownProviderVars, CachedIsIssued
<1>2. ASSUME UNCHANGED <<signingKey, data>>, config' \in Numbers, data = None \/ UNCHANGED cachedExpiry
      PROVE  OwnTypes' /\ CachedIsIssued'
  <2>1. data # None => data \in Exchanges /\ exchange'[data] = exchange[data]
    BY DoneStays DEF CachedIsIssued
  <2> QED
    BY <1>1, <1>2, <2>1 DEF OwnTypes, CachedIsIssued, Exchanges
<1>3. ASSUME data' = None, signingKey' \in Keys \cup {None}, config' \in Numbers
      PROVE  OwnTypes' /\ CachedIsIssued'
  BY <1>1, <1>3, ExchangeAssumption DEF OwnTypes, CachedIsIssued, Numbers, None
<1>4. ASSUME NEW e \in Exchanges, ExchangeReturns(e)
      PROVE  OwnTypes' /\ CachedIsIssued' /\ seed' = seed
  <2>1. /\ exchange' = [exchange EXCEPT ![e].phase = "done"]
        /\ data' = e /\ UNCHANGED <<signingKey, seed>>
    BY <1>4 DEF ExchangeReturns
  <2>2. exchange'[e].phase = "done" /\ exchange'[e].purpose = exchange[e].purpose
    BY <2>1 DEF SharedTypes, ExchangeRecords
  <2>3. /\ exchange[e].purpose = "get" => cachedExpiry' = e
        /\ config' \in {config, e}
    BY <1>4 DEF ExchangeReturns, ExpiryOf
  <2>4. e \in Numbers
    BY ExchangeAssumption DEF Numbers, Exchanges
  <2> QED
    BY <1>1, <2>1, <2>2, <2>3, <2>4 DEF OwnTypes, CachedIsIssued, Exchanges
<1>5. ASSUME NEW c \in Callers, Get(c)
      PROVE  OwnTypes' /\ CachedIsIssued'
  <2>1. CASE GetCached(c) \/ GetShared(c)
    BY <1>2, <1>5, <2>1 DEF Get, GetCached, GetShared, OwnTypes
  <2>2. CASE GetExchanges(c)
    BY <1>3, <1>5, <2>2 DEF Get, GetExchanges, OwnTypes, NewestCredential
  <2> QED
    BY <1>5, <2>1, <2>2 DEF Get
<1>6. ASSUME NEW c \in Callers, WithCreds(c) \/ SeedExchanged(c)
      PROVE  OwnTypes' /\ CachedIsIssued' /\ (seed = FALSE => seed' = FALSE)
  BY <1>5, <1>6 DEF WithCreds, SeedExchanged
<1>7. ASSUME NEW k \in Keys, UpdateClientPublicKey(k)
      PROVE  OwnTypes' /\ CachedIsIssued' /\ seed' = seed
  BY <1>2, <1>3, <1>7 DEF UpdateClientPublicKey, OwnTypes
<1>8. ASSUME UNCHANGED cacheVars PROVE OwnTypes' /\ CachedIsIssued' /\ seed' = seed
  BY <1>2, <1>8 DEF cacheVars, OwnTypes
<1>9. \/ UNCHANGED cacheVars
      \/ \E e \in Exchanges : ExchangeReturns(e)
      \/ \E c \in Callers : WithCreds(c) \/ SeedExchanged(c)
      \/ \E k \in Keys : UpdateClientPublicKey(k)
  BY DEF Next, ExchangeStep, ProveAndPost, AtServer, ExchangeThrows, ExchangeSeed, Answer,
     Send, Fail, vars
<1> QED
  BY <1>4, <1>6, <1>7, <1>8, <1>9

LEMMA ProviderKeeps ==
  ASSUME TokensInv, client = "TokenProvider", Provider!ProviderNext, FlightChange,
         UNCHANGED <<client, ownAccessVars>>
  PROVE  OwnTypes' /\ CachedIsIssued'
<1> USE DEF TokensInv, FlightInv, FieldTypes
<1>1. UNCHANGED <<signingKey, config, data>> /\ data = None
  BY DEF ownAccessVars, CachedIsIssued
<1>2. CASE UNCHANGED Provider!closureVars
  <2>1. UNCHANGED <<cachedToken, cachedExpiry, currentRefreshToken>>
    BY <1>2 DEF Provider!closureVars
  <2>2. cachedToken # None => cachedToken \in Exchanges /\ exchange'[cachedToken] = exchange[cachedToken]
    BY DoneStays DEF CachedIsIssued
  <2> QED
    BY <1>1, <2>1, <2>2 DEF OwnTypes, CachedIsIssued, Exchanges
<1>3. ASSUME NEW e \in Exchanges, Provider!ExchangeReturns(e)
      PROVE  OwnTypes' /\ CachedIsIssued'
  <2>1. /\ exchange' = [exchange EXCEPT ![e].phase = "done"]
        /\ cachedToken' = e /\ cachedExpiry' = e
        /\ currentRefreshToken' \in {currentRefreshToken, e}
    BY <1>3 DEF Provider!ExchangeReturns
  <2>2. exchange'[e].phase = "done"
    BY <2>1 DEF SharedTypes, ExchangeRecords
  <2>3. e \in Numbers
    BY ExchangeAssumption DEF Numbers, Exchanges
  <2> QED
    BY <1>1, <2>1, <2>2, <2>3 DEF OwnTypes, CachedIsIssued, Exchanges
<1>4. UNCHANGED Provider!closureVars \/ \E e \in Exchanges : Provider!ExchangeReturns(e)
  BY OneModel
  DEF Provider!ProviderNext, Provider!ExchangeStep, Provider!AtServer,
      Provider!ExchangeThrows, Provider!Intercept, Provider!Answer, Provider!Send,
      Provider!Fail, Provider!KeysSettle, Provider!providerVars
<1> QED
  BY <1>2, <1>3, <1>4

(* Every step of an application keeps the invariant.                         *)
LEMMA TokensKept ==
  ASSUME TokensInv, [ClientNext]_clientVars
  PROVE  TokensInv' /\ TokensStep /\ UNCHANGED <<client, options>>
<1>1. TokensStep /\ UNCHANGED <<client, options>>
  BY ClientSteps
<1>2. FieldTypes /\ FlightInv /\ HeldIsAsked
  BY DEF TokensInv, FlightInv
<1>3. FlightChange
  BY <1>1, <1>2, StepsChange
<1>4. /\ OwnTypes' /\ CachedIsIssued'
      /\ client = "AccessToken" /\ seed = FALSE => seed' = FALSE
  <2>1. CASE ByAccessToken(Next)
    BY <1>3, <2>1, AccessTokenKeeps DEF ByAccessToken
  <2>2. CASE ByProvider(Provider!ProviderNext)
    BY <1>3, <2>2, ProviderKeeps DEF ByProvider
  <2>3. CASE UNCHANGED clientVars
    BY <2>3, <1>2 DEF TokensInv, FieldTypes, OwnTypes, CachedIsIssued, clientVars, vars, cacheVars,
       ownProviderVars, exchangeVars, Exchanges
  <2> QED
    BY <2>1, <2>2, <2>3 DEF ClientNext
<1>5. SharedTypes'
  <2>1. caller' \in [Callers -> [phase : CallerPhases, token : Numbers]] /\ HeldIsAsked'
    BY <1>1, <1>2, CallersKept DEF FreshTokens
  <2>2. exchange' \in [Exchanges -> ExchangeRecords]
    BY <1>2, <1>3 DEF FieldTypes, SharedTypes, FlightChange, Changes, Releases
  <2>3. inFlight' \in Numbers
    BY <1>2, <1>3, ExchangeAssumption
    DEF FieldTypes, SharedTypes, FlightChange, Changes, Grows, Goes, Stops, Releases,
        Numbers, Exchanges, None
  <2>4. /\ updates' \in Nat
        /\ client = "TokenProvider" => updates' = updates
    BY <1>2, <1>3 DEF FieldTypes, SharedTypes, FlightChange, Changes, Releases
  <2> QED
    BY <1>1, <1>2, <2>1, <2>2, <2>3, <2>4
    DEF FieldTypes, SharedTypes, Exchanges, ExchangeRecords, Phases, Running, Numbers
<1>6. HeldIsAsked'
  BY <1>1, <1>2, CallersKept DEF FreshTokens
<1>7. StartedInTurn' /\ InFlightIsRunning' /\ LooseByUpdates' /\ OnlyGets' /\ NewestRuns'
  BY <1>1, <1>2, <1>3, <1>4, TurnsKept, FlightRunsKept, LooseKept, GetsKept, NewestKept
<1>8. OnlyDoneExpire'
  <2>1. \A e \in Exchanges : exchange[e].phase = "done" => exchange'[e] = exchange[e]
    BY <1>3, DoneStays
  <2>2. expired' = expired
        \/ \E e \in Exchanges : exchange[e].phase = "done" /\ expired' = expired \cup {e}
    <3>1. ASSUME NEW c \in Callers, CallerStep(c) PROVE expired' = expired
      BY <3>1 DEF CallerStep, Asks, Returns, TakesCached, SharesFlight, Answers, Again,
         StartsGet, StartsSeed
    <3>2. ASSUME NEW e \in Exchanges, FlightStep(e)
          PROVE  \/ expired' = expired
                 \/ exchange[e].phase = "done" /\ expired' = expired \cup {e}
      BY <3>2 DEF FlightStep, Carries, Exports, Ends, ServerStep, Expire
    <3> QED
      BY <1>1, <3>1, <3>2 DEF TokensStep, Rekeys, exchangeVars
  <2> QED
    BY <2>1, <2>2 DEF TokensInv, OnlyDoneExpire, Exchanges
<1> QED
  BY <1>1, <1>4, <1>5, <1>6, <1>7, <1>8 DEF TokensInv, FlightInv, FieldTypes

(* It holds at the start.                                                    *)
LEMMA InitTokens == ClientInit => TokensInv
<1> SUFFICES ASSUME ClientInit PROVE TokensInv
  OBVIOUS
<1> USE ExchangeAssumption DEF ClientInit, ExchangeInit, None
<1>1. /\ signingKey \in Keys \cup {None} /\ config = 0 /\ data = None /\ updates = 0
      /\ cachedToken = None /\ currentRefreshToken = 0
      /\ client = "AccessToken" => seed = options.seeded
  BY OneModel, DeploymentAssumption DEF CacheInit, Provider!ClosureInit
<1>2. FieldTypes
  <2>1. OwnTypes
    BY <1>1 DEF OwnTypes, Numbers
  <2>2. Unused \in ExchangeRecords
    BY DEF Unused, ExchangeRecords, Phases, Numbers
  <2> QED
    BY <1>1, <2>1, <2>2 DEF FieldTypes, SharedTypes, Numbers, CallerPhases
<1>3. \A e \in Exchanges : exchange[e] = Unused
  OBVIOUS
<1>4. RunningExchanges = {} /\ StartedInTurn /\ InFlightIsRunning /\ NewestRuns
  BY <1>3 DEF RunningExchanges, Unused, Running, StartedInTurn, InFlightIsRunning, NewestRuns
<1>5. LooseByUpdates
  <2>1. Loose = {}
    BY <1>4 DEF Loose
  <2> QED
    BY <1>1, <2>1, FS_EmptySet DEF LooseByUpdates
<1>6. OnlyGets
  <2>1. client = "AccessToken" => options.seeded \in BOOLEAN
    BY DeploymentAssumption
  <2> QED
    BY <1>1, <1>3, <2>1 DEF OnlyGets, HasSeed, Unused
<1>7. CachedIsIssued /\ OnlyDoneExpire /\ HeldIsAsked
  BY <1>1 DEF CachedIsIssued, OnlyDoneExpire, HeldIsAsked
<1> QED
  BY <1>2, <1>4, <1>5, <1>6, <1>7 DEF TokensInv, FlightInv

(* The invariant of both clients: types, what runs and what is cached.       *)
THEOREM ClientInvariant == ClientSpec => []TokensInv
  BY InitTokens, TokensKept, PTL DEF ClientSpec

-----------------------------------------------------------------------------
(* A promise in flight is that of an exchange of get that runs, whichever    *)
(* client it is, whatever finishes or rekeys in between.                     *)
THEOREM SharedExchangeRuns == ClientSpec => []InFlightIsRunning
<1>1. TokensInv => InFlightIsRunning
  BY DEF TokensInv, FlightInv
<1> QED
  BY <1>1, ClientInvariant, PTL

(* The running exchanges are the loose ones and that in flight.              *)
LEMMA LooseBoundsRunning == TokensInv => ExchangesBoundedByUpdates
<1> SUFFICES ASSUME TokensInv
    PROVE  Cardinality({e \in RunningExchanges : exchange[e].purpose = "get"}) <= 1 + updates
  BY DEF ExchangesBoundedByUpdates
<1> DEFINE R == {e \in RunningExchanges : exchange[e].purpose = "get"}
<1>1. IsFiniteSet(Loose) /\ IsFiniteSet(R)
  <2>1. Loose \subseteq RunningExchanges /\ R \subseteq RunningExchanges
    BY DEF Loose
  <2> QED
    BY <2>1, RunningIsFinite, FS_Subset
<1>2. R \subseteq Loose \cup {inFlight}
  BY DEF Loose
<1> HIDE DEF R
<1>3. IsFiniteSet(Loose \cup {inFlight})
      /\ Cardinality(Loose \cup {inFlight}) <= Cardinality(Loose) + 1
  <2>1. inFlight \notin Loose
    BY DEF Loose
  <2>2. Cardinality(Loose) \in Nat
    BY <1>1, FS_CardinalityType
  <2>3. /\ IsFiniteSet(Loose \cup {inFlight})
        /\ Cardinality(Loose \cup {inFlight}) = Cardinality(Loose) + 1
    BY <1>1, <2>1, FS_AddElement
  <2> QED
    BY <2>2, <2>3
<1>4. /\ Cardinality(R) <= Cardinality(Loose \cup {inFlight})
      /\ Cardinality(R) \in Nat /\ Cardinality(Loose) \in Nat
      /\ Cardinality(Loose \cup {inFlight}) \in Nat
  BY <1>1, <1>2, <1>3, FS_Subset, FS_CardinalityType
<1>5. Cardinality(Loose) <= updates /\ updates \in Nat
  BY DEF TokensInv, FlightInv, LooseByUpdates, FieldTypes, SharedTypes
<1>6. Cardinality(R) <= 1 + updates
  BY <1>3, <1>4, <1>5
<1> QED
  BY <1>6 DEF R

(* A burst of requests makes one exchange; each change of the key may set    *)
(* one more loose.                                                           *)
THEOREM BurstsMakeOneExchange == ClientSpec => []ExchangesBoundedByUpdates
  BY ClientInvariant, LooseBoundsRunning, PTL

(* The closures of token-providers.ts, whose keys do not change, never run   *)
(* two exchanges at once.                                                    *)
THEOREM OneExchangeAtATime ==
  ClientSpec => [](client = "TokenProvider" => \A e, f \in RunningExchanges : e = f)
<1>1. TokensInv => (client = "TokenProvider" => \A e, f \in RunningExchanges : e = f)
  <2> SUFFICES ASSUME TokensInv, client = "TokenProvider"
      PROVE  \A e, f \in RunningExchanges : e = f
    OBVIOUS
  <2>1. Settled
    BY DEF Settled, HasSeed, TokensInv, FlightInv, FieldTypes, SharedTypes
  <2> QED
    BY <2>1, SettledFlight DEF TokensInv
<1> QED
  BY <1>1, ClientInvariant, PTL

-----------------------------------------------------------------------------
(* Both clients serve as TokenService says.                                  *)
state == [c \in Callers |->
    CASE caller[c].phase \in {"seeding", "cached", "waiting"} -> "asked"
      [] caller[c].phase = "sent" -> "served"
      [] caller[c].phase = "rejected" -> "refused"
      [] OTHER -> "idle"]
given == [c \in Callers |->
    IF \/ caller[c].phase \in {"cached", "sent"}
       \/ caller[c].phase = "waiting" /\ exchange[caller[c].token].phase = "done"
    THEN caller[c].token ELSE None]
received == {e \in Exchanges : exchange[e].phase = "done"}
lapsed == {e \in expired : exchange[e].purpose = "get"}

Quits == UNCHANGED <<state, given, received, lapsed>>

(* One caller moves on and the tokens stay.                                  *)
MovesOn(c, from, to, token) ==
  /\ state[c] = from
  /\ state' = [state EXCEPT ![c] = to]
  /\ given' = [given EXCEPT ![c] = token]
  /\ UNCHANGED <<received, lapsed>>

(* Moves of one caller are the steps of the service.                         *)
LEMMA ServiceMoves ==
  ASSUME NEW c \in Callers, NEW token \in (received \ lapsed) \cup {None}
  PROVE  /\ MovesOn(c, "idle", "asked", token) => Service!Ask(c)
         /\ MovesOn(c, "asked", "asked", token) /\ given[c] = None /\ token # None =>
              Service!Take(c)
         /\ MovesOn(c, "asked", "served", given[c]) /\ given[c] # None => Service!Serve(c)
         /\ MovesOn(c, "asked", "refused", None) => Service!Refuse(c)
         /\ (\E from \in {"served", "refused"} : MovesOn(c, from, "idle", None)) =>
              Service!Forget(c)
<1>1. state \in [Callers -> {"idle", "asked", "served", "refused"}]
      /\ given = [d \in Callers |-> given[d]]
  BY DEF state, given
<1> USE DEF MovesOn
<1>2. MovesOn(c, "idle", "asked", token) => Service!Ask(c)
  BY DEF Service!Ask, Service!Fresh, state, given, received, lapsed
<1>3. MovesOn(c, "asked", "asked", token) /\ given[c] = None /\ token # None =>
        Service!Take(c)
  <2> SUFFICES ASSUME MovesOn(c, "asked", "asked", token), given[c] = None, token # None
      PROVE  Service!Take(c)
    OBVIOUS
  <2>1. state' = state /\ token \in received \ lapsed
    BY <1>1
  <2> QED
    BY <2>1 DEF Service!Take, Service!Fresh, state, given, received, lapsed
<1>4. MovesOn(c, "asked", "served", given[c]) /\ given[c] # None => Service!Serve(c)
  <2> SUFFICES ASSUME MovesOn(c, "asked", "served", given[c]), given[c] # None
      PROVE  Service!Serve(c)
    OBVIOUS
  <2>1. given' = given
    BY <1>1
  <2> QED
    BY <2>1 DEF Service!Serve, state, given, received, lapsed
<1>5. MovesOn(c, "asked", "refused", None) => Service!Refuse(c)
  BY DEF Service!Refuse, state, given, received, lapsed
<1>6. (\E from \in {"served", "refused"} : MovesOn(c, from, "idle", None)) =>
        Service!Forget(c)
  BY DEF Service!Forget, state, given, received, lapsed
<1> QED
  BY <1>2, <1>3, <1>4, <1>5, <1>6

(* What callers are given, by their phase.                                   *)
Phase(p) == CASE p \in {"seeding", "cached", "waiting"} -> "asked"
              [] p = "sent" -> "served"
              [] p = "rejected" -> "refused"
              [] OTHER -> "idle"

LEMMA CallerForms ==
  ASSUME FieldTypes, HeldIsAsked
  PROVE  /\ state = [d \in Callers |-> Phase(caller[d].phase)]
         /\ \A d \in Callers :
              /\ caller[d].phase \in {"idle", "seeding", "rejected"} => given[d] = None
              /\ caller[d].phase \in {"cached", "sent"} => given[d] = caller[d].token
              /\ caller[d].phase = "waiting" =>
                   /\ caller[d].token \in Exchanges
                   /\ caller[d].token \in received => given[d] = caller[d].token
                   /\ caller[d].token \notin received => given[d] = None
              /\ given[d] # None => given[d] \in Exchanges
<1>1. state = [d \in Callers |-> Phase(caller[d].phase)]
  BY DEF state, Phase
<1>2. \A d \in Callers :
        caller[d].phase \in {"cached", "waiting", "sent"} => caller[d].token \in Exchanges
  BY ExchangeAssumption
  DEF HeldIsAsked, FieldTypes, SharedTypes, Exchanges, Numbers, None
<1> QED
  BY <1>1, <1>2 DEF given, received

(* A caller that moves leaves the others where they are.                     *)
LEMMA OneCallerMoves ==
  ASSUME FieldTypes, HeldIsAsked, FieldTypes', HeldIsAsked',
         NEW c \in Callers, \A d \in Callers \ {c} : caller'[d] = caller[d],
         received' = received
  PROVE  /\ state' = [state EXCEPT ![c] = Phase(caller'[c].phase)]
         /\ given' = [given EXCEPT ![c] = given'[c]]
<1>1. /\ state = [d \in Callers |-> Phase(caller[d].phase)]
      /\ state' = [d \in Callers |-> Phase(caller'[d].phase)]
  BY CallerForms DEF state, Phase
<1>2. state' = [state EXCEPT ![c] = Phase(caller'[c].phase)]
  BY <1>1
<1>3. ASSUME NEW d \in Callers, d # c PROVE given'[d] = given[d]
  <2>1. caller'[d] = caller[d]
    BY <1>3
  <2>2. caller[d].phase = "waiting" => caller[d].token \in Exchanges
    BY CallerForms
  <2>3. caller[d].phase = "waiting" =>
          (exchange'[caller[d].token].phase = "done" <=> exchange[caller[d].token].phase = "done")
    BY <2>2 DEF received, Exchanges
  <2> QED
    BY <2>1, <2>3 DEF given
<1>4. DOMAIN given = Callers /\ DOMAIN given' = Callers
      /\ given = [d \in Callers |-> given[d]] /\ given' = [d \in Callers |-> given'[d]]
  BY DEF given
<1> QED
  BY <1>2, <1>3, <1>4

(* What a caller does is a step of the service, or none.                     *)
LEMMA CallersServed ==
  ASSUME TokensInv, TokensInv', NEW c \in Callers, CallerStep(c),
         FlightChange
  PROVE  Service!ServiceNext \/ Quits
<1>1. FieldTypes /\ HeldIsAsked /\ FieldTypes' /\ HeldIsAsked'
  BY DEF TokensInv, FlightInv
<1>2. caller \in [Callers -> [phase : CallerPhases, token : Numbers]]
  BY <1>1 DEF FieldTypes, SharedTypes
<1>3. received \subseteq Exchanges /\ FreshTokens \subseteq received \ lapsed /\ None \notin Exchanges
  BY ExchangeAssumption DEF received, FreshTokens, lapsed, None, Exchanges
<1>4. /\ state[c] = Phase(caller[c].phase)
      /\ caller[c].phase \in {"idle", "seeding"} => given[c] = None
  BY <1>1, CallerForms
<1>0. /\ state = [d \in Callers |-> state[d]] /\ given = [d \in Callers |-> given[d]]
  BY DEF state, given
(* What is left to show of each step: whom it moves where.                   *)
<1>5. ASSUME NEW phase, NEW token, Waits(c, phase, token), received' = received
      PROVE  /\ caller'[c] = [phase |-> phase, token |-> token]
             /\ state' = [state EXCEPT ![c] = Phase(phase)]
             /\ given' = [given EXCEPT ![c] = given'[c]]
  <2>1. caller'[c] = [phase |-> phase, token |-> token]
        /\ \A d \in Callers \ {c} : caller'[d] = caller[d]
    BY <1>2, <1>5 DEF Waits
  <2> QED
    BY <1>1, <1>5, <2>1, OneCallerMoves
<1>6. ASSUME NEW phase, caller' = [caller EXCEPT ![c].phase = phase], received' = received
      PROVE  /\ caller'[c].phase = phase /\ caller'[c].token = caller[c].token
             /\ state' = [state EXCEPT ![c] = Phase(phase)]
             /\ given' = [given EXCEPT ![c] = given'[c]]
  <2>1. /\ caller'[c].phase = phase /\ caller'[c].token = caller[c].token
        /\ \A d \in Callers \ {c} : caller'[d] = caller[d]
    BY <1>2, <1>6
  <2> QED
    BY <1>1, <1>6, <2>1, OneCallerMoves
<1>7. CASE TakesCached(c)
  <2>1. PICK e \in FreshTokens : Waits(c, "cached", e)
    BY <1>7 DEF TakesCached
  <2>2. received' = received /\ lapsed' = lapsed
    BY <1>7 DEF TakesCached, received, lapsed
  <2>3. caller'[c] = [phase |-> "cached", token |-> e]
        /\ state' = [state EXCEPT ![c] = "asked"] /\ given' = [given EXCEPT ![c] = given'[c]]
    BY <1>5, <2>1, <2>2 DEF Phase
  <2>4. given'[c] = e
    BY <2>3 DEF given
  <2>5. state[c] \in {"idle", "asked"} /\ given[c] = None /\ e \in received \ lapsed /\ e # None
    BY <1>3, <1>4, <1>7 DEF TakesCached, Asking, Phase
  <2>6. MovesOn(c, state[c], "asked", e)
    BY <2>2, <2>3, <2>4 DEF MovesOn
  <2>7. Service!Ask(c) \/ Service!Take(c)
    BY <2>5, <2>6, ServiceMoves
  <2> QED
    BY <2>7 DEF Service!ServiceNext
(* Whoever is to wait for an exchange that is not over has no token.         *)
<1>8. ASSUME NEW phase \in {"waiting", "seeding"}, NEW e \in Exchanges, Waits(c, phase, e),
             Asking(c), received' = received, lapsed' = lapsed, e \notin received
      PROVE  Service!ServiceNext \/ Quits
  <2>1. caller'[c] = [phase |-> phase, token |-> e]
        /\ state' = [state EXCEPT ![c] = "asked"] /\ given' = [given EXCEPT ![c] = given'[c]]
    BY <1>5, <1>8 DEF Phase
  <2>2. given'[c] = None
    BY <1>8, <2>1 DEF given, received
  <2>3. state[c] \in {"idle", "asked"} /\ given[c] = None
    BY <1>4, <1>8 DEF Asking, Phase
  <2>4. MovesOn(c, state[c], "asked", None)
    BY <1>8, <2>1, <2>2 DEF MovesOn
  <2>5. CASE state[c] = "idle"
    <3>1. Service!Ask(c)
      BY <2>4, <2>5, ServiceMoves
    <3> QED
      BY <3>1 DEF Service!ServiceNext
  <2>6. CASE state[c] = "asked"
    <3>1. state' = state /\ given' = given
      BY <1>0, <2>1, <2>2, <2>3, <2>6
    <3> QED
      BY <1>8, <3>1 DEF Quits
  <2> QED
    BY <2>3, <2>5, <2>6
<1>9. CASE SharesFlight(c)
  <2>1. inFlight \in Exchanges /\ inFlight \notin received
    BY <1>9 DEF SharesFlight, TokensInv, FlightInv, InFlightIsRunning, RunningExchanges,
       Running, received
  <2>2. received' = received /\ lapsed' = lapsed
    BY <1>9 DEF SharesFlight, received, lapsed
  <2> QED
    BY <1>8, <1>9, <2>1, <2>2 DEF SharesFlight
<1>10. ASSUME NEW e \in Exchanges, StartsGet(c, e) \/ StartsSeed(c, e)
       PROVE  Service!ServiceNext \/ Quits
  <2>1. Changes(e)
    BY <1>1, <1>10, StartsAreChanges
  <2>2. exchange[e].phase = "unused"
    BY <1>10 DEF StartsGet, StartsSeed, NewExchange
  <2>3. exchange'[e].phase \in Running
    BY <2>1, <2>2 DEF Changes, Grows, Goes, Stops, Running
  <2>4. received' = received /\ e \notin received
    BY <2>1, <2>2, <2>3 DEF Changes, received, Running, Exchanges
  <2>5. lapsed' = lapsed
    <3>1. expired' = expired
      BY <1>10 DEF StartsGet, StartsSeed
    <3>2. \A f \in expired : exchange'[f] = exchange[f]
      BY <2>1, <2>2 DEF Changes, TokensInv, OnlyDoneExpire
    <3> QED
      BY <3>1, <3>2 DEF lapsed
  <2>6. \E phase \in {"waiting", "seeding"} : Waits(c, phase, e)
    BY <1>10 DEF StartsGet, StartsSeed
  <2>7. Asking(c)
    BY <1>10 DEF StartsGet, StartsSeed, Asking
  <2> QED
    BY <1>8, <2>4, <2>5, <2>6, <2>7
<1>11. CASE Answers(c)
  <2>1. received' = received /\ lapsed' = lapsed
    BY <1>11 DEF Answers, received, lapsed
  <2>2. CASE /\ \/ caller[c].phase = "cached"
                \/ caller[c].phase = "waiting" /\ exchange[caller[c].token].phase = "done"
             /\ caller' = [caller EXCEPT ![c].phase = "sent"]
    <3>1. caller'[c].phase = "sent" /\ caller'[c].token = caller[c].token
          /\ state' = [state EXCEPT ![c] = "served"] /\ given' = [given EXCEPT ![c] = given'[c]]
      BY <1>6, <2>1, <2>2 DEF Phase
    <3>2. state[c] = "asked" /\ given[c] = caller[c].token /\ given[c] # None
      BY <1>1, <1>4, <2>2 DEF Phase, given, HeldIsAsked
    <3>3. given'[c] = given[c]
      BY <3>1, <3>2 DEF given
    <3>4. MovesOn(c, "asked", "served", given[c])
      BY <2>1, <3>1, <3>2, <3>3 DEF MovesOn
    <3>5. Service!Serve(c)
      BY <3>2, <3>4, ServiceMoves
    <3> QED
      BY <3>5 DEF Service!ServiceNext
  <2>3. CASE /\ caller[c].phase \in {"cached", "waiting", "seeding"}
             /\ caller' = [caller EXCEPT ![c].phase = "rejected"]
    <3>1. caller'[c].phase = "rejected"
          /\ state' = [state EXCEPT ![c] = "refused"] /\ given' = [given EXCEPT ![c] = given'[c]]
      <4>1. Phase("rejected") = "refused"
        BY DEF Phase
      <4> QED
        BY <1>6, <2>1, <2>3, <4>1
    <3>2. state[c] = "asked" /\ given'[c] = None
      BY <1>4, <2>3, <3>1 DEF Phase, given
    <3>3. MovesOn(c, "asked", "refused", None)
      BY <2>1, <3>1, <3>2 DEF MovesOn
    <3>4. Service!Refuse(c)
      BY <3>3, ServiceMoves
    <3> QED
      BY <3>4 DEF Service!ServiceNext
  <2> QED
    BY <1>11, <2>2, <2>3 DEF Answers
<1>12. CASE Again(c)
  <2>1. received' = received /\ lapsed' = lapsed /\ Waits(c, "idle", None)
    BY <1>12 DEF Again, received, lapsed
  <2>2. caller'[c] = [phase |-> "idle", token |-> None]
        /\ state' = [state EXCEPT ![c] = "idle"] /\ given' = [given EXCEPT ![c] = given'[c]]
    BY <1>5, <2>1 DEF Phase
  <2>3. given'[c] = None /\ state[c] \in {"served", "refused"}
    BY <1>4, <1>12, <2>2 DEF given, Again, Phase
  <2>4. MovesOn(c, state[c], "idle", None)
    BY <2>1, <2>2, <2>3 DEF MovesOn
  <2>5. Service!Forget(c)
    BY <2>3, <2>4, ServiceMoves
  <2> QED
    BY <2>5 DEF Service!ServiceNext
<1>13. CASE \E e \in Exchanges : StartsGet(c, e) \/ (StartsSeed(c, e) /\ SameCredential)
  BY <1>10, <1>13
<1> QED
  BY <1>7, <1>9, <1>11, <1>12, <1>13 DEF CallerStep, Asks, Returns

(* When no answer arrives, nobody is given a token.                          *)
LEMMA NobodyMoves ==
  ASSUME FieldTypes, HeldIsAsked, UNCHANGED <<caller, received>>
  PROVE  UNCHANGED <<state, given>>
<1>1. ASSUME NEW d \in Callers PROVE given'[d] = given[d]
  <2>1. caller[d].phase = "waiting" => caller[d].token \in Exchanges
    BY CallerForms
  <2>2. caller[d].phase = "waiting" =>
          (exchange'[caller[d].token].phase = "done" <=> exchange[caller[d].token].phase = "done")
    BY <2>1 DEF received, Exchanges
  <2> QED
    BY <2>2 DEF given
<1>2. given = [d \in Callers |-> given[d]] /\ given' = [d \in Callers |-> given'[d]]
  BY DEF given
<1>3. given' = given
  BY <1>1, <1>2
<1>4. state' = state
  BY DEF state
<1> QED
  BY <1>3, <1>4

(* What an exchange does is a step of the service, or none.                  *)
LEMMA FlightServed ==
  ASSUME TokensInv, NEW e \in Exchanges, FlightStep(e), FlightChange
  PROVE  Service!ServiceNext \/ Quits
<1>1. FieldTypes /\ HeldIsAsked /\ exchange \in [Exchanges -> ExchangeRecords]
      /\ \A f \in expired : f \in Exchanges /\ exchange[f].phase = "done"
  BY DEF TokensInv, FlightInv, FieldTypes, SharedTypes, OnlyDoneExpire
<1>2. ASSUME expired' = expired PROVE lapsed' = lapsed
  <2>1. \A f \in expired : exchange'[f] = exchange[f]
    BY <1>1, DoneStays
  <2> QED
    BY <1>2, <2>1 DEF lapsed
<1>3. ASSUME caller' = caller, expired' = expired, received' = received PROVE Quits
  BY <1>1, <1>2, <1>3, NobodyMoves DEF Quits
<1>4. CASE Exports(e) \/ ServerStep(e)
  <2>1. /\ caller' = caller /\ expired' = expired
        /\ exchange[e].phase # "done" /\ exchange'[e].phase # "done"
        /\ \A f \in Exchanges \ {e} : exchange'[f] = exchange[f]
    BY <1>1, <1>4 DEF Exports, ServerStep, ServerGrants, ServerRefuses, NetworkFails,
       ExchangeRecords
  <2>2. received' = received
    BY <2>1 DEF received, Exchanges
  <2> QED
    BY <1>3, <2>1, <2>2
<1>5. CASE Expire(e)
  <2>1. /\ exchange' = exchange /\ caller' = caller /\ expired' = expired \cup {e}
        /\ e \in received /\ e \notin expired
    BY <1>5 DEF Expire, received
  <2>2. received' = received
    BY <2>1 DEF received
  <2>3. state' = state /\ given' = given
    BY <1>1, <2>1, <2>2, NobodyMoves
  <2>4. CASE exchange[e].purpose = "get"
    <3>1. lapsed' = lapsed \cup {e} /\ e \in received \ lapsed
      BY <2>1, <2>4 DEF lapsed
    <3>2. Service!Lapse(e)
      BY <2>2, <2>3, <3>1 DEF Service!Lapse, Service!Fresh, state, given, received, lapsed
    <3> QED
      BY <3>2 DEF Service!ServiceNext
  <2>5. CASE exchange[e].purpose # "get"
    <3>1. lapsed' = lapsed
      BY <2>1, <2>5 DEF lapsed
    <3> QED
      BY <2>2, <2>3, <3>1 DEF Quits
  <2> QED
    BY <2>4, <2>5
<1>6. CASE Ends(e)
  <2>1. /\ caller' = caller /\ expired' = expired /\ e \notin received
        /\ \A f \in Exchanges \ {e} : exchange'[f] = exchange[f]
        /\ exchange'[e].phase \in {"done", "failed"}
    BY <1>1, <1>6 DEF Ends, ExchangeRecords, received
  <2>2. CASE exchange'[e].phase = "failed"
    <3>1. received' = received
      BY <2>1, <2>2 DEF received, Exchanges
    <3> QED
      BY <1>3, <2>1, <3>1
  <2>3. CASE exchange'[e].phase = "done"
    <3>1. received' = received \cup {e}
      BY <2>1, <2>3 DEF received, Exchanges
    <3>2. lapsed' = lapsed
      BY <1>2, <2>1
    <3>3. state' = state
      BY <2>1 DEF state
    <3> DEFINE sharing == {d \in Callers : caller[d].phase = "waiting" /\ caller[d].token = e}
    <3>4. ASSUME NEW d \in Callers
          PROVE  given'[d] = IF d \in sharing THEN e ELSE given[d]
      <4>1. caller[d].phase = "waiting" => caller[d].token \in Exchanges
        BY <1>1, CallerForms
      <4>2. caller[d].phase = "waiting" /\ caller[d].token # e =>
              exchange'[caller[d].token] = exchange[caller[d].token]
        BY <2>1, <4>1
      <4> QED
        BY <2>1, <2>3, <4>1, <4>2 DEF given
    <3>5. sharing \subseteq {d \in Callers : state[d] = "asked" /\ given[d] = None}
      <4>1. exchange[e].phase # "done"
        BY <2>1 DEF received
      <4> QED
        BY <4>1 DEF state, given
    <3> HIDE DEF sharing
    <3>6. given' = [d \in Callers |-> IF d \in sharing THEN e ELSE given[d]]
      <4>1. given' = [d \in Callers |-> given'[d]]
        BY DEF given
      <4> QED
        BY <3>4, <4>1
    <3>7. Service!Issue(e)
      BY <2>1, <3>1, <3>2, <3>3, <3>5, <3>6
      DEF Service!Issue, state, given, received, lapsed
    <3> QED
      BY <3>7 DEF Service!ServiceNext
  <2> QED
    BY <2>1, <2>2, <2>3
<1> QED
  BY <1>4, <1>5, <1>6 DEF FlightStep, Carries

(* So is every step of an application.                                       *)
LEMMA StepsServe ==
  TokensInv /\ TokensInv' /\ [ClientNext]_clientVars => [Service!ServiceNext]_(Service!serviceVars)
<1> SUFFICES ASSUME TokensInv, TokensInv', [ClientNext]_clientVars
    PROVE  Service!ServiceNext \/ Quits
  BY DEF Quits, Service!serviceVars, state, given, received, lapsed
<1>1. TokensStep
  BY ClientSteps
<1>2. FieldTypes /\ HeldIsAsked
  BY DEF TokensInv, FlightInv
<1>3. FlightChange
  BY <1>1, <1>2, StepsChange
<1>4. ASSUME NEW c \in Callers, CallerStep(c) PROVE Service!ServiceNext \/ Quits
  BY <1>3, <1>4, CallersServed
<1>5. ASSUME NEW e \in Exchanges, FlightStep(e) PROVE Service!ServiceNext \/ Quits
  BY <1>3, <1>5, FlightServed
<1>6. CASE Rekeys \/ UNCHANGED <<exchangeVars, updates>>
  <2>1. UNCHANGED <<exchange, expired, caller>>
    BY <1>6 DEF Rekeys, exchangeVars
  <2>2. received' = received /\ lapsed' = lapsed
    BY <2>1 DEF received, lapsed
  <2> QED
    BY <1>2, <2>1, <2>2, NobodyMoves DEF Quits
<1> QED
  BY <1>1, <1>4, <1>5, <1>6 DEF TokensStep

(* At the start nobody has asked.                                            *)
LEMMA InitServes == ClientInit => Service!ServiceInit
<1> SUFFICES ASSUME ClientInit PROVE Service!ServiceInit
  OBVIOUS
<1>1. /\ exchange = [e \in Exchanges |-> Unused] /\ expired = {}
      /\ caller = [c \in Callers |-> [phase |-> "idle", token |-> None]]
  BY DEF ClientInit, ExchangeInit
<1>2. state = [c \in Callers |-> "idle"] /\ given = [c \in Callers |-> None]
  BY <1>1 DEF state, given
<1>3. received = {} /\ lapsed = {}
  BY <1>1 DEF received, lapsed, Unused
<1> QED
  BY <1>2, <1>3 DEF Service!ServiceInit, state, given, received, lapsed

(* Both clients implement TokenService: no caller gets a token that had      *)
(* lapsed before it asked, or that the client never received.                *)
THEOREM ClientsServe == ClientSpec => ServesTokens
<1>1. ClientInit => Service!ServiceInit
  BY InitServes
<1>2. TokensInv /\ TokensInv' /\ [ClientNext]_clientVars =>
        [Service!ServiceNext]_(Service!serviceVars)
  BY StepsServe
<1> QED
  BY <1>1, <1>2, ClientInvariant, PTL DEF ClientSpec, ServesTokens, Service!ServiceSpec

-----------------------------------------------------------------------------
(* Rotation.  What a server that keeps the first credential is given.        *)
LEMMA KeptSeed ==
  ASSUME TokensInv, KeepsSeed
  PROVE  ~options.seedWearsOut
  BY RotationAssumption DEF TokensInv, FlightInv, FieldTypes, SharedTypes, KeepsSeed

(* Whoever keeps the first credential presents no other.                     *)
LEMMA KeptCredential ==
  ASSUME TokensInv, SeedServes, KeepsSeed
  PROVE  /\ NextCredential = 0
         /\ HasSeed => config = 0
  BY OneModel DEF TokensInv, FlightInv, FieldTypes, SharedTypes, SeedServes, KeepsSeed,
     HasSeed, NextCredential, NewestCredential, Provider!Credential

(* Without refresh tokens a client keeps what it was given.                  *)
LEMMA OwnCredentialKept ==
  ASSUME TokensInv, [ClientNext]_clientVars, ~options.issuesRefresh
  PROVE  config' = config /\ currentRefreshToken' = currentRefreshToken
<1>1. ASSUME Next PROVE config' = config
  <2>1. ASSUME NEW c \in Callers, Get(c) PROVE config' = config
    BY <2>1 DEF Get, GetCached, GetShared, GetExchanges, NewestCredential
  <2> QED
    BY <1>1, <2>1
    DEF Next, ExchangeStep, ProveAndPost, AtServer, ExchangeReturns, ExchangeThrows,
        WithCreds, ExchangeSeed, SeedExchanged, Answer, Send, Fail, UpdateClientPublicKey,
        vars, cacheVars
<1>2. ASSUME Provider!ProviderNext PROVE currentRefreshToken' = currentRefreshToken
  <2>1. ASSUME NEW e \in Exchanges, Provider!ExchangeReturns(e)
        PROVE  currentRefreshToken' = currentRefreshToken
    BY <2>1 DEF Provider!ExchangeReturns
  <2>2. CASE UNCHANGED Provider!closureVars
    BY <2>2 DEF Provider!closureVars
  <2>3. UNCHANGED Provider!closureVars \/ \E e \in Exchanges : Provider!ExchangeReturns(e)
    BY <1>2, OneModel
    DEF Provider!ProviderNext, Provider!ExchangeStep, Provider!AtServer,
        Provider!ExchangeThrows, Provider!Intercept, Provider!Answer, Provider!Send,
        Provider!Fail, Provider!KeysSettle, Provider!providerVars
  <2> QED
    BY <2>1, <2>2, <2>3
<1> QED
  BY <1>1, <1>2 DEF ClientNext, ByAccessToken, ByProvider, ownProviderVars, ownAccessVars,
     clientVars, vars, cacheVars

(* The first credential serves on.                                           *)
LEMMA SeedKept ==
  ASSUME TokensInv, SeedServes, TokensStep, UNCHANGED <<client, options>>,
         ~options.issuesRefresh => UNCHANGED <<config, currentRefreshToken>>
  PROVE  SeedServes'
<1> SUFFICES ASSUME KeepsSeed'
    PROVE  /\ 0 \in accepted'
           /\ \A e \in Exchanges : exchange'[e].presents = 0
           /\ ~options.issuesRefresh => config' = 0 /\ currentRefreshToken' = 0
  BY DEF SeedServes, Exchanges
<1>1. KeepsSeed /\ ~options.seedWearsOut
  BY KeptSeed DEF KeepsSeed
<1>2. /\ 0 \in accepted /\ \A e \in Exchanges : exchange[e].presents = 0
      /\ ~options.issuesRefresh => config = 0 /\ currentRefreshToken = 0
  BY <1>1 DEF SeedServes
<1>3. /\ FieldTypes /\ exchange \in [Exchanges -> ExchangeRecords]
  BY DEF TokensInv, FlightInv, FieldTypes, SharedTypes
<1>4. ASSUME NEW c \in Callers, CallerStep(c)
      PROVE  0 \in accepted' /\ \A e \in Exchanges : exchange'[e].presents = 0
  <2>1. ASSUME NEW e \in Exchanges, StartsGet(c, e) \/ StartsSeed(c, e)
        PROVE  0 \in accepted' /\ \A f \in Exchanges : exchange'[f].presents = 0
    <3>1. \E phase, purpose : NewExchange(e, phase, purpose, 0)
      BY <1>1, <2>1, KeptCredential DEF StartsGet, StartsSeed
    <3>2. \A f \in Exchanges : exchange'[f].presents = 0
      BY <1>2, <1>3, <3>1 DEF NewExchange
    <3> QED
      BY <1>2, <2>1, <3>2 DEF StartsGet, StartsSeed
  <2>2. CASE Asks(c) \/ Returns(c)
    BY <1>2, <2>2 DEF Asks, Returns, TakesCached, SharesFlight, Answers, Again
  <2>3. CASE \E e \in Exchanges : StartsGet(c, e) \/ (StartsSeed(c, e) /\ SameCredential)
    BY <2>1, <2>3
  <2> QED
    BY <1>4, <2>2, <2>3 DEF CallerStep
<1>5. ASSUME NEW e \in Exchanges, FlightStep(e)
      PROVE  0 \in accepted' /\ \A f \in Exchanges : exchange'[f].presents = 0
  <2>1. \A f \in Exchanges : exchange'[f].presents = exchange[f].presents
    BY <1>3, <1>5 DEF FlightStep, Carries, Exports, Ends, ServerStep, ServerGrants,
       ServerRefuses, NetworkFails, Expire, ExchangeRecords
  <2>2. 0 \in Rotated(e)
    BY <1>1, <1>2 DEF Rotated
  <2>3. 0 \in accepted'
    BY <1>2, <1>5, <2>2 DEF FlightStep, Carries, Exports, Ends, ServerStep, ServerGrants,
       ServerRefuses, NetworkFails, Expire
  <2> QED
    BY <1>2, <2>1, <2>3
<1>6. 0 \in accepted' /\ \A e \in Exchanges : exchange'[e].presents = 0
  BY <1>2, <1>4, <1>5 DEF TokensStep, Rekeys, exchangeVars
<1> QED
  BY <1>2, <1>6

(* The same, as an implication between predicates of a state.                *)
LEMMA SeededNext ==
  TokensInv /\ SeedServes => (KeepsSeed => NextCredential = 0 /\ 0 \in accepted)
  BY KeptCredential DEF SeedServes

(* As long as one exchange runs at a time and none of them fails, what is    *)
(* presented and what comes next is what the server would take.              *)
LEMMA GoodKept ==
  ASSUME TokensInv, TokensInv', SeedServes, SeedServes', Followed, TokensStep, FlightChange,
         UNCHANGED <<client, options>>
  PROVE  Followed'
<1> SUFFICES ASSUME Settled', Unhurt' PROVE Good'
  BY DEF Followed
<1>1. /\ FieldTypes /\ exchange \in [Exchanges -> ExchangeRecords] /\ FlightInv
      /\ exchange' \in [Exchanges -> ExchangeRecords]
  BY DEF TokensInv, FlightInv, FieldTypes, SharedTypes, Exchanges, ExchangeRecords, Phases,
     Running, Numbers
<1>2. Settled /\ updates' = updates /\ updates = 0 /\ ~HasSeed
  <2>1. updates' = 0 /\ updates \in Nat /\ ~HasSeed
    BY <1>1 DEF Settled, HasSeed, FieldTypes, SharedTypes
  <2> QED
    BY <2>1 DEF FlightChange, Changes, Releases, Settled
<1>3. Unhurt
  <2> SUFFICES ASSUME NEW e \in Exchanges PROVE exchange[e].phase \notin {"lost", "failed"}
    BY DEF Unhurt
  <2>1. exchange'[e].phase \notin {"lost", "failed"}
    BY DEF Unhurt, Exchanges
  <2>2. ASSUME NEW f \in Exchanges, FlightStep(f), exchange[e].phase \in {"lost", "failed"}
        PROVE  exchange'[e].phase \in {"lost", "failed"}
    BY <1>1, <2>2 DEF FlightStep, Carries, Exports, Ends, ServerStep, ServerGrants,
       ServerRefuses, NetworkFails, Expire, ExchangeRecords
  <2>3. ASSUME NEW c \in Callers, CallerStep(c), exchange[e].phase \in {"lost", "failed"}
        PROVE  exchange'[e].phase \in {"lost", "failed"}
    BY <1>1, <2>3 DEF CallerStep, Asks, Returns, TakesCached, SharesFlight, Answers, Again,
       StartsGet, StartsSeed, NewExchange
  <2> QED
    BY <2>1, <2>2, <2>3 DEF TokensStep, Rekeys, exchangeVars
<1>4. Good
  BY <1>2, <1>3 DEF Followed
<1>5. \A e \in RunningExchanges : e = inFlight
  BY <1>1, <1>2, SettledFlight
<1>6. None \notin Exchanges
  BY ExchangeAssumption DEF None, Exchanges
<1>7. ASSUME SameCredential, UNCHANGED <<exchange, inFlight, accepted>> PROVE Good'
  BY <1>4, <1>7 DEF Good, SameCredential, KeepsSeed, Exchanges
<1>8. ASSUME NEW c \in Callers, NEW e \in Exchanges, StartsGet(c, e) PROVE Good'
  <2>1. PICK phase \in {"exporting", "posted"} : NewExchange(e, phase, "get", NextCredential)
    BY <1>8 DEF StartsGet
  <2>2. /\ exchange'[e].phase \in {"exporting", "posted"}
        /\ exchange'[e].presents = NextCredential
        /\ \A f \in Exchanges \ {e} : exchange'[f] = exchange[f]
    BY <1>1, <2>1 DEF NewExchange
  <2>3. inFlight = None /\ inFlight' = e /\ accepted' = accepted
    BY <1>8 DEF StartsGet
  <2> QED
    BY <1>4, <1>6, <2>2, <2>3 DEF Good, KeepsSeed, Exchanges
<1>9. ASSUME NEW e \in Exchanges, Exports(e), SameCredential PROVE Good'
  <2>1. /\ exchange[e].phase = "exporting" /\ exchange'[e].phase = "posted"
        /\ exchange'[e].presents = exchange[e].presents
        /\ \A f \in Exchanges \ {e} : exchange'[f] = exchange[f]
        /\ UNCHANGED <<inFlight, accepted>>
    BY <1>1, <1>9 DEF Exports, ExchangeRecords
  <2> QED
    BY <1>4, <1>9, <2>1 DEF Good, SameCredential, KeepsSeed, Exchanges
(* The server takes what is presented, and nothing else is.                  *)
<1>10. ASSUME NEW e \in Exchanges, ServerStep(e) PROVE Good'
  <2>1. /\ exchange[e].phase = "posted" /\ exchange[e].presents \in accepted
        /\ inFlight = e /\ inFlight' = e
        /\ \A f \in Exchanges \ {e} : exchange[f].phase \notin Running
    BY <1>4, <1>5, <1>10
    DEF Good, ServerStep, ServerGrants, ServerRefuses, NetworkFails, RunningExchanges, Running
  <2>2. exchange' = [exchange EXCEPT ![e].phase = "answered"] /\ accepted' = Rotated(e)
    <3>1. ~ServerRefuses(e)
      BY <2>1 DEF ServerRefuses
    <3>2. ~NetworkFails(e)
      <4>1. exchange'[e].phase # "lost"
        BY DEF Unhurt, Exchanges
      <4> QED
        BY <1>1, <4>1 DEF NetworkFails, ExchangeRecords
    <3> QED
      BY <1>10, <3>1, <3>2 DEF ServerStep, ServerGrants
  <2>3. KeepsSeed \/ e \in accepted'
    BY <2>2 DEF Rotated, KeepsSeed
  <2>4. exchange'[e].phase = "answered"
        /\ \A f \in Exchanges \ {e} : exchange'[f].phase \notin Running
    BY <1>1, <2>1, <2>2 DEF ExchangeRecords
  <2> QED
    BY <1>6, <2>1, <2>3, <2>4 DEF Good, KeepsSeed, Exchanges, Running
<1>11. ASSUME NEW e \in Exchanges, Ends(e), NewCredential(e) PROVE Good'
  <2>1. exchange'[e].phase # "failed"
    BY DEF Unhurt, Exchanges
  <2>2. /\ exchange[e].phase = "answered" /\ exchange'[e].phase = "done"
        /\ \A f \in Exchanges \ {e} : exchange'[f] = exchange[f]
        /\ accepted' = accepted
    BY <1>1, <1>11, <2>1 DEF Ends, ExchangeRecords
  <2>3. \A f \in Exchanges \ {e} : exchange'[f].phase \notin Running
    <3>1. e = inFlight
      BY <1>5, <2>2 DEF RunningExchanges, Running
    <3> QED
      BY <1>5, <2>2, <3>1 DEF RunningExchanges
  <2>4. NextCredential' \in accepted'
    <3>1. CASE KeepsSeed
      <4>1. KeepsSeed'
        BY <3>1 DEF KeepsSeed
      <4>2. (TokensInv /\ SeedServes => (KeepsSeed => NextCredential = 0 /\ 0 \in accepted))'
        BY SeededNext, PTL
      <4> QED
        BY <4>1, <4>2
    <3>2. CASE ~KeepsSeed
      <4>1. NextCredential' = e
        BY <1>11, <2>2, <3>2 DEF NewCredential
      <4> QED
        BY <1>4, <2>2, <3>2, <4>1 DEF Good
    <3> QED
      BY <3>1, <3>2
  <2> QED
    BY <2>2, <2>3, <2>4 DEF Good, Running, Exchanges
<1>12. ASSUME NEW c \in Callers, CallerStep(c) PROVE Good'
  <2>1. CASE (Asks(c) \/ Returns(c)) /\ SameCredential
    <3>1. UNCHANGED <<exchange, inFlight, accepted>>
      BY <2>1 DEF Asks, Returns, TakesCached, SharesFlight, Answers, Again
    <3> QED
      BY <1>7, <2>1, <3>1
  <2>2. ASSUME NEW e \in Exchanges, StartsSeed(c, e) PROVE FALSE
    BY <1>2, <2>2 DEF StartsSeed
  <2>3. CASE \E e \in Exchanges : StartsGet(c, e) \/ (StartsSeed(c, e) /\ SameCredential)
    BY <1>8, <2>2, <2>3
  <2> QED
    BY <1>12, <2>1, <2>3 DEF CallerStep
<1>13. ASSUME NEW e \in Exchanges, FlightStep(e) PROVE Good'
  <2>1. CASE Expire(e) /\ SameCredential
    BY <1>7, <2>1 DEF Expire
  <2> QED
    BY <1>9, <1>10, <1>11, <1>13, <2>1 DEF FlightStep, Carries
<1>14. ~Rekeys
  BY <1>2 DEF Rekeys
<1>15. CASE UNCHANGED <<exchangeVars, updates>> /\ SameCredential
  BY <1>7, <1>15 DEF exchangeVars
<1> QED
  BY <1>12, <1>13, <1>14, <1>15 DEF TokensStep

(* The running exchange is the newest, so what failed came before it.        *)
LEMMA RefusalsFollowFailures == TokensInv /\ Followed => RotationIsFollowed
<1> SUFFICES ASSUME TokensInv, Followed, NEW e \in Exchanges,
                    exchange[e].phase = "refused", ~(updates > 0), ~HasSeed
    PROVE  \E f \in 1 .. e - 1 : exchange[f].phase \in {"lost", "failed"}
  BY DEF RotationIsFollowed, HasSeed
<1>1. Settled
  BY DEF Settled, TokensInv, FlightInv, FieldTypes, SharedTypes
<1>2. PICK f \in Exchanges : exchange[f].phase \in {"lost", "failed"}
  BY <1>1 DEF Followed, Good, Unhurt
<1>3. e \in RunningExchanges
  BY DEF RunningExchanges, Running
<1>4. ~(e < f) /\ e # f
  BY <1>1, <1>2, <1>3 DEF TokensInv, FlightInv, NewestRuns
<1>5. f \in 1 .. e - 1
  BY <1>4, ExchangeAssumption DEF Exchanges
<1> QED
  BY <1>2, <1>5

(* The first credential is accepted.                                         *)
LEMMA InitFollows == ClientInit => SeedServes /\ Followed
<1> SUFFICES ASSUME ClientInit PROVE SeedServes /\ Followed
  OBVIOUS
<1>1. /\ accepted = {0} /\ inFlight = None
      /\ \A e \in Exchanges : exchange[e] = Unused
  BY DEF ClientInit, ExchangeInit
<1>2. config = 0 /\ currentRefreshToken = 0 /\ data = None
  BY OneModel DEF ClientInit, CacheInit, Provider!ClosureInit, None
<1>3. NextCredential = 0
  BY <1>2 DEF NextCredential, NewestCredential, Provider!Credential
<1> QED
  BY <1>1, <1>2, <1>3 DEF SeedServes, Followed, Good, Unused

(* Every step of an application follows the rotation.                        *)
LEMMA FollowedKept ==
  TokensInv /\ TokensInv' /\ SeedServes /\ Followed /\ [ClientNext]_clientVars
    => SeedServes' /\ Followed'
<1> SUFFICES ASSUME TokensInv, TokensInv', SeedServes, Followed, [ClientNext]_clientVars
    PROVE  SeedServes' /\ Followed'
  OBVIOUS
<1>1. TokensStep /\ UNCHANGED <<client, options>>
  BY ClientSteps
<1>2. FlightChange
  BY <1>1, StepsChange DEF TokensInv, FlightInv
<1>3. SeedServes'
  BY <1>1, SeedKept, OwnCredentialKept
<1> QED
  BY <1>1, <1>2, <1>3, GoodKept

(* An exchange is refused only after a change of the key, the spending of a  *)
(* seed, or an exchange that was lost: the rotation is followed.             *)
THEOREM RotationsAreFollowed == ClientSpec => []RotationIsFollowed
<1>1. ClientSpec => [](TokensInv /\ SeedServes /\ Followed)
  BY ClientInvariant, InitFollows, FollowedKept, PTL DEF ClientSpec
<1>2. TokensInv /\ SeedServes /\ Followed => RotationIsFollowed
  BY RefusalsFollowFailures
<1> QED
  BY <1>1, <1>2, PTL
=============================================================================
