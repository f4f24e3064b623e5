---------------------------- MODULE KeyRecovery ----------------------------
(***************************************************************************)
(* What unwrapKey of lib/tdf3/src/tdf.ts promises of the key of a TDF, in    *)
(* whatever order and with whatever concurrency it asks the key access       *)
(* servers (KASes): the key is an "and" over the splits of an "or" over the  *)
(* key access objects of each split.  It is merged from one share of every   *)
(* split: an exclusive or, which a share too many or too few turns into      *)
(* another key without notice.                                               *)
(***************************************************************************)
EXTENDS Naturals, FiniteSets, Sequences

VARIABLES
  potentials,   (* for each split, the objects a KAS may be asked to open     *)
  kas,          (* what became of each object                                 *)
  merged,       (* the objects whose shares were merged to the key            *)
  outcome       (* of the call                                                *)

recoveryVars == <<potentials, kas, merged, outcome>>

Answered == {"granted", "refused"}
Splits == DOMAIN potentials
Lost(s) == \A i \in potentials[s] : kas[i] = "refused"

RecoveryInit ==
  /\ outcome = "new"
  /\ kas = [i \in DOMAIN kas |-> "idle"]
  /\ merged = <<>>

(* The call is refused before any KAS is asked, or it goes ahead: then every *)
(* split has somebody to ask.                                                *)
Reject == outcome = "new" /\ outcome' = "rejected" /\ UNCHANGED <<potentials, kas, merged>>

GoAhead ==
  /\ outcome = "new"
  /\ \A s \in Splits : potentials[s] # {}
  /\ outcome' = "pending"
  /\ UNCHANGED <<potentials, merged>>
  /\ kas' \in [DOMAIN kas -> {"idle", "asked"}]

(* KASes are asked and answer; an answer is final.                           *)
AskAndAnswer ==
  /\ outcome \notin {"new", "rejected"}
  /\ kas' \in [DOMAIN kas -> {"idle", "asked"} \cup Answered]
  /\ \A i \in DOMAIN kas :
       /\ kas[i] \in Answered => kas'[i] = kas[i]
       /\ kas[i] = "asked" => kas'[i] # "idle"
       /\ kas[i] = "idle" => kas'[i] \notin Answered
  /\ UNCHANGED <<potentials, merged, outcome>>

Recover ==
  /\ outcome = "pending"
  /\ Len(merged') = Cardinality(Splits)
  /\ \A s \in Splits : \E k \in DOMAIN merged' :
       merged'[k] \in potentials[s] /\ kas[merged'[k]] = "granted"
  /\ outcome' = "key"
  /\ UNCHANGED <<potentials, kas>>

GiveUp ==
  /\ outcome = "pending"
  /\ \E s \in Splits : Lost(s)
  /\ outcome' = "error"
  /\ UNCHANGED <<potentials, kas, merged>>

RecoveryNext == Reject \/ GoAhead \/ AskAndAnswer \/ Recover \/ GiveUp

RecoverySpec == RecoveryInit /\ [][RecoveryNext]_recoveryVars
=============================================================================
