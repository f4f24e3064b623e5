--------------------------- MODULE TokenExchange ---------------------------
(***************************************************************************)
(* What the two token clients of the SDK have in common: the class            *)
(* AccessToken of lib/src/auth/oidc.ts and the closures of                    *)
(* lib/src/auth/token-providers.ts.  Several callers share one client, which  *)
(* keeps at most one promise in flight for them; a token exchange is a        *)
(* request to an identity provider that rotates refresh tokens, as OAuth      *)
(* servers do.  The identity provider and the network are external.           *)
(*                                                                         *)
(* A token exchange is known by its number.  The access token and the        *)
(* refresh token that exchange e yields are both called e; refresh token 0   *)
(* stands for what the constructor was given (client secret, external JWT    *)
(* or the first refresh token).                                              *)
(***************************************************************************)
EXTENDS Naturals, FiniteSets

CONSTANTS
  Callers,        (* concurrent users of the client                           *)
  MaxExchanges    (* bound of the model                                       *)

ASSUME ExchangeAssumption == MaxExchanges \in Nat

VARIABLES
  options,        (* how the client is set up, and its server: see each client *)
  inFlight,       (* the exchange behind the promise in flight, or None       *)
  exchange,       (* every exchange: what it presents and how far it is       *)
  accepted,       (* external: credentials the server would take              *)
  expired,        (* access tokens whose lifetime is over                     *)
  caller          (* what each caller is waiting for                          *)

exchangeVars == <<options, inFlight, exchange, accepted, expired, caller>>

None == 0
Exchanges == 1 .. MaxExchanges
Running == {"exporting", "posted", "answered", "refused", "lost"}
RunningExchanges == {e \in Exchanges : exchange[e].phase \in Running}
Unused == [phase |-> "unused", purpose |-> "get", presents |-> 0, proof |-> 0]

ExchangeInit ==
  /\ inFlight = None
  /\ exchange = [e \in Exchanges |-> Unused]
  /\ accepted = {0}
  /\ expired = {}
  /\ caller = [c \in Callers |-> [phase |-> "idle", token |-> None]]

-----------------------------------------------------------------------------
(* A request is set up: phase is "exporting" when something is awaited       *)
(* before it leaves, "posted" otherwise.                                     *)
NewExchange(e, phase, purpose, credential) ==
  /\ exchange[e].phase = "unused"
  /\ \A f \in 1 .. e - 1 : exchange[f].phase # "unused"
  /\ exchange' = [exchange EXCEPT ![e] =
       [phase |-> phase, purpose |-> purpose, presents |-> credential, proof |-> 0]]

Waits(c, phase, e) == caller' = [caller EXCEPT ![c] = [phase |-> phase, token |-> e]]

Rotated(e) ==
  LET used == exchange[e].presents
  IN (IF used = 0 /\ ~options.seedWearsOut THEN accepted ELSE accepted \ {used})
       \cup (IF options.issuesRefresh THEN {e} ELSE {})

ServerGrants(e) ==
  /\ exchange[e].phase = "posted"
  /\ exchange[e].presents \in accepted
  /\ accepted' = Rotated(e)
  /\ exchange' = [exchange EXCEPT ![e].phase = "answered"]

ServerRefuses(e) ==
  /\ exchange[e].phase = "posted"
  /\ exchange[e].presents \notin accepted
  /\ exchange' = [exchange EXCEPT ![e].phase = "refused"]
  /\ UNCHANGED accepted

(* The request, or the response to it, is lost: fetch throws either way.     *)
NetworkFails(e) ==
  /\ options.lossy
  /\ exchange[e].phase = "posted"
  /\ \/ UNCHANGED accepted
     \/ exchange[e].presents \in accepted /\ accepted' = Rotated(e)
  /\ exchange' = [exchange EXCEPT ![e].phase = "lost"]

ServerStep(e) ==
  /\ ServerGrants(e) \/ ServerRefuses(e) \/ NetworkFails(e)
  /\ UNCHANGED <<options, inFlight, expired, caller>>

(* Time passes.                                                              *)
Expire(e) ==
  /\ exchange[e].phase = "done"
  /\ e \notin expired
  /\ expired' = expired \cup {e}
  /\ UNCHANGED <<options, inFlight, exchange, accepted, caller>>

(* The caller's next request.                                                *)
Again(c) ==
  /\ caller[c].phase \in {"sent", "rejected"}
  /\ Waits(c, "idle", None)
  /\ UNCHANGED <<options, inFlight, exchange, accepted, expired>>

(* The model's bound: a call only starts when it, and those that still have  *)
(* to go on to get, can have the exchanges they may need.                    *)
Budget(n) ==
  Cardinality({e \in Exchanges : exchange[e].phase = "unused"})
    >= n + Cardinality({c \in Callers : caller[c].phase = "seeding"})

(* Nobody waits and nothing runs: the calls may stop here.                   *)
Quiet ==
  /\ RunningExchanges = {}
  /\ \A c \in Callers : caller[c].phase = "idle"

-----------------------------------------------------------------------------
(* The shared state holds what the code and the server put there.            *)
ExchangeTypeOK ==
  /\ inFlight \in 0 .. MaxExchanges
  /\ DOMAIN exchange = Exchanges
  /\ accepted \subseteq 0 .. MaxExchanges
  /\ expired \subseteq Exchanges
  /\ \A e \in Exchanges :
       /\ exchange[e].phase \in Running \cup {"unused", "done", "failed"}
       /\ exchange[e].presents \in 0 .. e - 1
  /\ \A c \in Callers :
       /\ caller[c].phase \in
            {"idle", "seeding", "cached", "waiting", "sent", "rejected"}
       /\ caller[c].phase # "idle" => caller[c].token \in Exchanges

(* A shared exchange is a live one: the promise in flight is never that of   *)
(* an exchange that is over (a caller would be handed its outcome for ever), *)
(* whoever clears and sets the field in between.                             *)
InFlightIsRunning ==
  inFlight # None => /\ inFlight \in RunningExchanges
                     /\ exchange[inFlight].purpose = "get"

(* Both clients implement the service: no caller gets a token that had       *)
(* lapsed before it asked, or that the client never received.  A token that  *)
(* exchangeForRefreshToken stored counts as fresh for ever here: the code    *)
(* keeps no expiry for it and judges it by that of another token.            *)
Service == INSTANCE TokenService WITH
  Tokens <- Exchanges,
  request <- [c \in Callers |->
    CASE caller[c].phase \in {"seeding", "cached", "waiting"} -> "asked"
      [] caller[c].phase = "sent" -> "served"
      [] caller[c].phase = "rejected" -> "refused"
      [] OTHER -> "idle"],
  held <- [c \in Callers |->
    IF \/ caller[c].phase \in {"cached", "sent"}
       \/ caller[c].phase = "waiting" /\ exchange[caller[c].token].phase = "done"
    THEN caller[c].token ELSE None],
  issued <- {e \in Exchanges : exchange[e].phase = "done"},
  expired <- {e \in expired : exchange[e].purpose = "get"}
ServesTokens == Service!ServiceSpec

(* Whoever asked for a token gets it or an error.                            *)
EveryCallerAnswered == Service!EveryRequestIsAnswered
=============================================================================
