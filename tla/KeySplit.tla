------------------------------ MODULE KeySplit ------------------------------
(***************************************************************************)
(* keySplit and keyMerge of lib/tdf3/src/utils/keysplit.ts, and what         *)
(* SplitKey.getKeyAccessObjects of models/encryption-information.ts and      *)
(* Wrapped.write, ECWrapped.write of models/key-access.ts make of the        *)
(* shares.                                                                   *)
(*                                                                         *)
(* Bytes are known by the random strings they are the exclusive or of: the   *)
(* string of a set of numbers is that of all its members, and no string can  *)
(* be told from others that it is not made of.  0 is the key.                *)
(***************************************************************************)
EXTENDS Naturals, Sequences, SequencesExt

CONSTANTS
  NoSid,      (* an absent sid                                                *)
  EmptySid    (* the sid ''                                                   *)

Key == {0}
bxor(b1, b2) == (b1 \ b2) \cup (b2 \ b1)

(* Each nonce is a call of randomBytes (mutant: one call serves them all).   *)
OneNonce(i) == {1}
randomBytes(i) == {i}

keySplit(key, n) ==
  LET nonces == [i \in 1 .. n - 1 |-> randomBytes(i)]
  IN Append(nonces, FoldLeft(bxor, key, nonces))

keyMerge(splits) == FoldLeft(bxor, Head(splits), Tail(splits))

(* The shares go to the sids, in some order of the sids, and an empty sid   *)
(* is not written.                                                           *)
SidOf(step) == IF step.sid = NoSid THEN EmptySid ELSE step.sid
splitIds(plan) == SetToSeq({SidOf(plan[i]) : i \in DOMAIN plan})

ShareOf(plan, i) ==
  LET sids == splitIds(plan)
      splits == keySplit(Key, Len(sids))
  IN splits[CHOOSE k \in DOMAIN sids : sids[k] = SidOf(plan[i])]

getKeyAccessObjects(plan) ==
  [i \in DOMAIN plan |->
     [url |-> plan[i].kas,
      sid |-> IF SidOf(plan[i]) = EmptySid THEN NoSid ELSE SidOf(plan[i]),
      wrappedKey |-> ShareOf(plan, i)]]
=============================================================================
