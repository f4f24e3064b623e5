---------------------------- MODULE TokenService ----------------------------
(***************************************************************************)
(* What a token client of the SDK promises (AccessToken.get of               *)
(* lib/src/auth/oidc.ts, the functions of lib/src/auth/token-providers.ts):   *)
(* whoever asks is answered, with an error or with a token that was fresh at  *)
(* some moment while it was being waited for.  How many exchanges that takes, *)
(* and which callers share one, is the client's own business.                 *)
(***************************************************************************)
EXTENDS Naturals

CONSTANTS Callers, Tokens, None

VARIABLES
  request,   (* of each caller: "idle", "asked", "served" or "refused"        *)
  held,      (* the token each caller has been given, or None                 *)
  issued,    (* tokens the client has received                                *)
  expired    (* those whose lifetime is over                                  *)

serviceVars == <<request, held, issued, expired>>
Fresh == issued \ expired

ServiceInit ==
  /\ request = [c \in Callers |-> "idle"]
  /\ held = [c \in Callers |-> None]
  /\ issued = {}
  /\ expired = {}

(* A caller asks, and perhaps gets a fresh token at once.                    *)
Ask(c) ==
  /\ request[c] = "idle"
  /\ request' = [request EXCEPT ![c] = "asked"]
  /\ \E t \in Fresh \cup {None} : held' = [held EXCEPT ![c] = t]
  /\ UNCHANGED <<issued, expired>>

(* One who waits is given a fresh token.                                     *)
Take(c) ==
  /\ request[c] = "asked" /\ held[c] = None
  /\ \E t \in Fresh : held' = [held EXCEPT ![c] = t]
  /\ UNCHANGED <<request, issued, expired>>

(* A new token arrives, for some of those who wait.                          *)
Issue(t) ==
  /\ t \notin issued
  /\ issued' = issued \cup {t}
  /\ \E sharing \in SUBSET {c \in Callers : request[c] = "asked" /\ held[c] = None} :
       held' = [c \in Callers |-> IF c \in sharing THEN t ELSE held[c]]
  /\ UNCHANGED <<request, expired>>

Serve(c) ==
  /\ request[c] = "asked" /\ held[c] # None
  /\ request' = [request EXCEPT ![c] = "served"]
  /\ UNCHANGED <<held, issued, expired>>

Refuse(c) ==
  /\ request[c] = "asked"
  /\ request' = [request EXCEPT ![c] = "refused"]
  /\ held' = [held EXCEPT ![c] = None]
  /\ UNCHANGED <<issued, expired>>

Forget(c) ==
  /\ request[c] \in {"served", "refused"}
  /\ request' = [request EXCEPT ![c] = "idle"]
  /\ held' = [held EXCEPT ![c] = None]
  /\ UNCHANGED <<issued, expired>>

Lapse(t) ==
  /\ t \in Fresh
  /\ expired' = expired \cup {t}
  /\ UNCHANGED <<request, held, issued>>

ServiceNext ==
  \/ \E c \in Callers : Ask(c) \/ Take(c) \/ Serve(c) \/ Refuse(c) \/ Forget(c)
  \/ \E t \in Tokens : Issue(t) \/ Lapse(t)

ServiceSpec == ServiceInit /\ [][ServiceNext]_serviceVars

EveryRequestIsAnswered ==
  \A c \in Callers : request[c] = "asked" ~> request[c] # "asked"
=============================================================================
