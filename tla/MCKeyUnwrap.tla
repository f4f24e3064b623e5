---------------------------- MODULE MCKeyUnwrap ----------------------------
(* Calls of unwrapKey, for manifests of any writer.  One rewrap at a time:   *)
(* every array of up to three key access objects over two splits (one of     *)
(* them written as a missing or as an empty sid) and three KASes, with every *)
(* allowlist.  And two at a time: larger arrays that fill the pools, of      *)
(* three splits, two with a spare KAS.                                       *)
EXTENDS KeyUnwrap

CONSTANTS noSid, emptySid, sA, sB, kas1, kas2, kas3

Kao(sid, url) == [sid |-> sid, url |-> url]
Kases == {kas1, kas2, kas3}

SmallKaos == {Kao(sid, url) : sid \in {noSid, emptySid, sA}, url \in Kases}
SmallManifests == UNION {[1 .. n -> SmallKaos] : n \in 1 .. 3}

LargeManifests ==
  {<<Kao(sA, kas1), Kao(sB, kas1), Kao(sA, kas2), Kao(emptySid, kas3), Kao(sB, kas2)>>,
   <<Kao(sA, kas1), Kao(sA, kas2), Kao(sA, kas3), Kao(sB, kas1)>>}

UnwrapCalls ==
  [keyAccess : SmallManifests, allowed : SUBSET Kases, concurrencyLimit : {0}]
    \cup [keyAccess : LargeManifests, allowed : {Kases}, concurrencyLimit : {1, 2}]
=============================================================================
