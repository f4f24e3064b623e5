------------------------------ MODULE Session ------------------------------
(***************************************************************************)
(* OidcClient of web-app/src/session.ts: login by redirect with PKCE, in a   *)
(* page that is left and loaded again.  A load starts the program from       *)
(* nothing but sessionStorage and the query of the address: what was in      *)
(* memory, requests under way included, is gone.  currentSession is called   *)
(* once by App when it is mounted, authViaRedirect by the login button, and  *)
(* getSigningKey whenever something is encrypted or decrypted.               *)
(*                                                                         *)
(* External: the browser (reload, going back), the identity provider, which  *)
(* gives a code for a request and a token for a code, and the network.       *)
(* Requests, codes and keys are numbered as they are made; the state and the *)
(* code verifier of a request are its number.                                *)
(***************************************************************************)
EXTENDS Naturals, Sequences, FiniteSets

CONSTANTS
  MaxPages, MaxRequests, MaxCodes   (* bounds on what the user does           *)

ASSUME BoundsAssumption == {MaxPages, MaxRequests, MaxCodes} \subseteq Nat

VARIABLES
  stored,           (* the item 'sessions' of sessionStorage                  *)
  location,         (* the page and its query, or the provider                *)
  left,             (* the queries of pages that were left                    *)
  pages,            (* how often a page was loaded                            *)
  requests,         (* how many requests were made                            *)
  issuedFor,        (* each code's request                                    *)
  presented,        (* the codes sent to the token endpoint, with verifiers   *)
  keys,             (* how many key pairs were generated                      *)
  _sessions,
  signingKey,
  cs,               (* the promise of currentSession                          *)
  login,            (* the call of authViaRedirect                            *)
  appKey,           (* the call of getSigningKey and updateClientPublicKey    *)
  overwritten       (* sessions with requests were replaced by empty ones     *)

browserVars == <<location, left, pages>>
providerVars == <<issuedFor, presented>>
clientVars == <<_sessions, signingKey, cs, login, appKey>>
vars == <<stored, browserVars, requests, providerVars, keys, clientVars, overwritten>>

Nothing == 0
NoQuery == [kind |-> "none"]
ErrorQuery == [kind |-> "error"]
CodeQuery(code, state) == [kind |-> "code", code |-> code, state |-> state]

Fresh == [config |-> TRUE, requests |-> <<>>, lastRequest |-> Nothing, k |-> Nothing]
NoSessions == [Fresh EXCEPT !.config = FALSE]
NewRequest == [sessionState |-> "redirecting", usedCodes |-> {}, user |-> Nothing]

OnPage == location.at = "page"
Unlogged == [at |-> "idle", request |-> Nothing]
NoTask == [at |-> "idle", key |-> Nothing]
Promise(at, session) ==
  [at |-> at, session |-> session, code |-> Nothing, state |-> Nothing, key |-> Nothing]
Start == [sessionState |-> "start", usedCodes |-> {}, user |-> Nothing]

-----------------------------------------------------------------------------
(* What currentSession goes on with once the sessions are loaded.  A code is *)
(* remembered as used before it is (mutant: in memory only).                 *)
LastSession(sessions) ==
  IF sessions.lastRequest = Nothing THEN Start ELSE sessions.requests[sessions.lastRequest]

Used(sessions, query) ==
  [sessions EXCEPT !.requests[query.state].usedCodes = @ \cup {query.code}]
KeepsInMemory(old, sessions) == old
Keeps(old, sessions) == sessions

Settles(sessions) ==
  /\ cs' = Promise("settled", LastSession(sessions))
  /\ _sessions' = sessions /\ stored' = sessions
  /\ UNCHANGED keys

Refuses(sessions) ==
  /\ cs' = Promise("rejected", Start)
  /\ _sessions' = sessions /\ stored' = sessions
  /\ UNCHANGED keys

(* getSigningKey: the key in the sessions is imported, or one is generated   *)
(* (mutant: one is generated for every load).                                *)
KeyAlwaysNew(sessions) == keys + 1
KeyToMake(sessions) == IF sessions.k # Nothing THEN sessions.k ELSE keys + 1
Generates(sessions) ==
  keys' = IF sessions.k # Nothing THEN keys ELSE keys + 1

Exchanges(sessions, query) ==
  LET used == Used(sessions, query)
  IN /\ _sessions' = used
     /\ stored' = Keeps(sessions, used)
     /\ cs' = [Promise("keys", Start) EXCEPT
                 !.code = query.code, !.state = query.state, !.key = KeyToMake(sessions)]
     /\ Generates(sessions)

HandleRedirect(query, sessions) ==
  CASE query.kind = "none" -> Settles(sessions)
    [] query.kind = "error" -> Refuses(sessions)
    [] query.kind = "code" /\ query.state \notin DOMAIN sessions.requests -> Refuses(sessions)
    [] query.kind = "code" /\ query.state \in DOMAIN sessions.requests ->
         IF query.code \in sessions.requests[query.state].usedCodes
           THEN Settles(sessions) ELSE Exchanges(sessions, query)

(* A page is loaded, and App calls currentSession.  loadSessions returns at  *)
(* once if there is something in sessionStorage, or else asks the provider   *)
(* for its configuration.                                                    *)
PageLoads(query) ==
  /\ pages < MaxPages
  /\ pages' = pages + 1
  /\ location' = [at |-> "page", query |-> query]
  /\ signingKey' = Nothing
  /\ login' = Unlogged
  /\ appKey' = NoTask
  /\ IF stored = NoSessions
       THEN /\ cs' = Promise("config", Start)
            /\ _sessions' = NoSessions
            /\ UNCHANGED <<stored, keys>>
       ELSE HandleRedirect(query, stored)
  /\ UNCHANGED <<requests, presented, overwritten>>

Init ==
  /\ stored = NoSessions
  /\ location = [at |-> "page", query |-> NoQuery]
  /\ left = {}
  /\ pages = 1
  /\ requests = 0
  /\ issuedFor = <<>> /\ presented = <<>>
  /\ keys = 0
  /\ _sessions = NoSessions
  /\ signingKey = Nothing
  /\ cs = Promise("config", Start)
  /\ login = Unlogged
  /\ appKey = NoTask
  /\ overwritten = FALSE

-----------------------------------------------------------------------------
(* loadSessions goes on when the configuration is there: it makes sessions   *)
(* without requests, whatever another call has made meanwhile.               *)
Overwrites ==
  overwritten' = (overwritten \/ _sessions.requests # <<>>)

ConfigForSession ==
  /\ OnPage /\ cs.at = "config"
  /\ HandleRedirect(location.query, Fresh)
  /\ Overwrites
  /\ UNCHANGED <<browserVars, requests, providerVars, signingKey, login, appKey>>

ConfigFailsForSession ==
  /\ OnPage /\ cs.at = "config"
  /\ cs' = Promise("rejected", Start)
  /\ UNCHANGED <<stored, browserVars, requests, providerVars, keys, _sessions,
                 signingKey, login, appKey, overwritten>>

-----------------------------------------------------------------------------
(* authViaRedirect, up to the digest of the code verifier (mutant: the       *)
(* requests before this one are forgotten).                                  *)
OnlyRequest(others, state) == [r \in {state} |-> NewRequest]
WithRequest(others, state) ==
  [r \in DOMAIN others \cup {state} |-> IF r = state THEN NewRequest ELSE others[r]]

Registers(sessions) ==
  LET state == requests + 1
      added == [sessions EXCEPT !.lastRequest = state,
                                !.requests = WithRequest(@, state)]
  IN /\ requests' = state
     /\ _sessions' = added /\ stored' = added
     /\ login' = [at |-> "challenge", request |-> state]

(* The button is there until somebody is logged in.                          *)
Click ==
  /\ OnPage /\ login.at = "idle" /\ requests < MaxRequests
  /\ cs.session.sessionState \in {"start", "redirecting"}
  /\ IF _sessions # NoSessions
       THEN Registers(_sessions)
       ELSE /\ login' = [at |-> "config", request |-> Nothing]
            /\ UNCHANGED <<stored, requests, _sessions>>
  /\ UNCHANGED <<browserVars, providerVars, keys, signingKey, cs, appKey, overwritten>>

ConfigForLogin ==
  /\ OnPage /\ login.at = "config"
  /\ Registers(Fresh)
  /\ Overwrites
  /\ UNCHANGED <<browserVars, providerVars, keys, signingKey, cs, appKey>>

ConfigFailsForLogin ==
  /\ OnPage /\ login.at = "config"
  /\ login' = Unlogged
  /\ UNCHANGED <<stored, browserVars, requests, providerVars, keys, _sessions,
                 signingKey, cs, appKey, overwritten>>

(* The browser leaves the page at some time after it was told to.            *)
Leaves ==
  /\ OnPage /\ login.at = "challenge"
  /\ location' = [at |-> "provider", request |-> login.request]
  /\ left' = left \cup {location.query}
  /\ UNCHANGED <<stored, pages, requests, providerVars, keys, clientVars, overwritten>>

-----------------------------------------------------------------------------
(* _makeAccessTokenRequest.  The key pair that getSigningKey returned is     *)
(* exported, kept with the sessions and proves the request.                  *)
KeysReady ==
  /\ OnPage /\ cs.at = "keys"
  /\ signingKey' = cs.key
  /\ cs' = [cs EXCEPT !.at = "export"]
  /\ UNCHANGED <<stored, browserVars, requests, providerVars, keys, _sessions,
                 login, appKey, overwritten>>

TokenRequested ==
  /\ OnPage /\ cs.at = "export"
  /\ _sessions' = [_sessions EXCEPT !.k = cs.key]
  /\ presented' = Append(presented, [code |-> cs.code, verifier |-> cs.state])
  /\ cs' = [cs EXCEPT !.at = "token"]
  /\ UNCHANGED <<stored, browserVars, requests, issuedFor, keys, signingKey,
                 login, appKey, overwritten>>

(* A code is good once, with the verifier of its request.  The query is      *)
(* taken away whatever the answer is.                                        *)
Grants(code, verifier) ==
  /\ issuedFor[code] = verifier
  /\ Cardinality({i \in DOMAIN presented : presented[i].code = code}) = 1

Unqueried == location' = [location EXCEPT !.query = NoQuery]

TokenArrives ==
  LET loggedIn == [_sessions EXCEPT !.requests[cs.state].user = cs.key,
                                    !.requests[cs.state].sessionState = "loggedin"]
  IN /\ OnPage /\ cs.at = "token"
     /\ Grants(cs.code, cs.state)
     /\ _sessions' = loggedIn /\ stored' = loggedIn
     /\ cs' = [cs EXCEPT !.at = "settled", !.session = loggedIn.requests[cs.state]]
     /\ Unqueried
     /\ UNCHANGED <<left, pages, requests, providerVars, keys, signingKey, login,
                    appKey, overwritten>>

TokenFails ==
  /\ OnPage /\ cs.at = "token"
  /\ cs' = [cs EXCEPT !.at = "rejected"]
  /\ Unqueried
  /\ UNCHANGED <<stored, left, pages, requests, providerVars, keys, _sessions,
                 signingKey, login, appKey, overwritten>>

-----------------------------------------------------------------------------
(* Something is encrypted or decrypted, which App does only for the user of  *)
(* a session that currentSession has returned: App calls getSigningKey, and  *)
(* the client of the SDK hands the key back with updateClientPublicKey.      *)
LoggedIn == cs.at = "settled" /\ cs.session.user # Nothing

AppAsksForKey ==
  /\ OnPage /\ LoggedIn /\ appKey.at = "idle"
  /\ IF signingKey # Nothing
       THEN /\ appKey' = [NoTask EXCEPT !.at = "update", !.key = signingKey]
            /\ UNCHANGED keys
       ELSE /\ appKey' = [at |-> "making", key |-> KeyToMake(_sessions)]
            /\ Generates(_sessions)
  /\ UNCHANGED <<stored, browserVars, requests, providerVars, _sessions,
                 signingKey, cs, login, overwritten>>

AppKeyReady ==
  /\ OnPage /\ appKey.at \in {"making", "update"}
  /\ signingKey' = appKey.key
  /\ appKey' = [appKey EXCEPT !.at = IF @ = "making" THEN "update" ELSE "done"]
  /\ UNCHANGED <<stored, browserVars, requests, providerVars, keys, _sessions,
                 cs, login, overwritten>>

-----------------------------------------------------------------------------
(* The user, at the provider or in front of the page.                        *)
ProviderAnswers ==
  /\ location.at = "provider"
  /\ Len(issuedFor) < MaxCodes
  /\ issuedFor' = Append(issuedFor, location.request)
  /\ PageLoads(CodeQuery(Len(issuedFor'), location.request))
  /\ UNCHANGED left

ProviderRefuses ==
  /\ location.at = "provider"
  /\ PageLoads(ErrorQuery)
  /\ UNCHANGED <<left, issuedFor>>

Reload ==
  /\ OnPage
  /\ PageLoads(location.query)
  /\ UNCHANGED <<left, issuedFor>>

GoBack ==
  /\ \E query \in left : PageLoads(query)
  /\ left' = IF OnPage THEN left \cup {location.query} ELSE left
  /\ UNCHANGED issuedFor

ClientStep ==
  \/ ConfigForSession \/ ConfigForLogin \/ KeysReady \/ TokenRequested
  \/ TokenArrives \/ AppKeyReady
Fails == ConfigFailsForSession \/ ConfigFailsForLogin \/ TokenFails
User == Click \/ AppAsksForKey \/ Leaves \/ ProviderAnswers \/ ProviderRefuses \/ Reload \/ GoBack

Next == ClientStep \/ Fails \/ User

Spec == Init /\ [][Next]_vars

-----------------------------------------------------------------------------
(* A code is sent to the token endpoint once, with the verifier of the       *)
(* request it was given for, however often its page is loaded again, before  *)
(* the answer, after it or without one, and whatever other requests there    *)
(* are.                                                                      *)
CodesAreSpentOnce ==
  /\ \A i, j \in DOMAIN presented : i # j => presented[i].code # presented[j].code
  /\ \A i \in DOMAIN presented : presented[i].verifier = issuedFor[presented[i].code]

(* The answer to a request finds it in the sessions, unless two calls of     *)
(* loadSessions have waited for the configuration at once: the second to     *)
(* come back replaces the sessions that the first may have added to.         *)
RequestIsFound ==
  OnPage /\ location.query.kind = "code" /\ cs.at # "config" /\ ~overwritten =>
    location.query.state \in DOMAIN _sessions.requests

(* The key that is kept is the one the tokens are bound to, for sessions of  *)
(* any age, and requests are signed with it: a page that is loaded again,    *)
(* with no key in memory, and a later login go on with the stored one.       *)
KeyIsTheTokens ==
  /\ \A r \in DOMAIN stored.requests :
       stored.requests[r].user \in {Nothing, stored.k}
  /\ OnPage /\ cs.session.user # Nothing =>
       signingKey \in {Nothing, cs.session.user}
=============================================================================
