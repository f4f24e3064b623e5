----------------------------- MODULE KeyUnwrap -----------------------------
(***************************************************************************)
(* unwrapKey and splitLookupTableFactory of lib/tdf3/src/tdf.ts with the     *)
(* promise pools of lib/src/concurrency.ts.  The key of a TDF is split; a    *)
(* key access object carries the share of one split, wrapped for one KAS.    *)
(* allPool runs one job for each split, and each of these jobs is an         *)
(* anyPool that runs one rewrap for each KAS of the split until one is       *)
(* granted.  Both pools hold poolSize promises.                              *)
(*                                                                         *)
(* Key access objects are known by their place in the manifest, and a split  *)
(* by the first object that names it, so jobs start in numerical order.      *)
(* Promise.race and Promise.any settle with the promise that settled first;  *)
(* the model leaves open which of several settled ones that was.             *)
(***************************************************************************)
EXTENDS FiniteSets, KeySplit

CONSTANT
  Calls       (* of unwrapKey: keyAccess, the URLs in allowedKases, and       *)
              (* concurrencyLimit (0 if absent, as it is in decryptStreamFrom) *)

ASSUME UnwrapAssumption ==
  \A c \in Calls : /\ c.keyAccess \in Seq(Range(c.keyAccess)) \ {<<>>}
                   /\ c.concurrencyLimit \in Nat

VARIABLES
  call,         (* the arguments                                              *)
  kas,          (* the rewrap of each key access object                       *)
  sharePool,    (* anyPool's pool, for each split                             *)
  shareState,   (* where that anyPool is                                      *)
  splitPool,    (* allPool's pool                                             *)
  splitState,   (* where allPool is                                           *)
  shares,       (* its "resolved", as key access objects                      *)
  outcome       (* of unwrapKey                                               *)

vars == <<call, kas, sharePool, shareState,
          splitPool, splitState, shares, outcome>>

keyAccess == call.keyAccess
poolSize == IF call.concurrencyLimit > 1 THEN call.concurrencyLimit ELSE 1

-----------------------------------------------------------------------------
(* splitLookupTableFactory.                                                  *)
Kaos == DOMAIN keyAccess
SplitOf(i) == IF keyAccess[i].sid = NoSid THEN EmptySid ELSE keyAccess[i].sid
Splits == {i \in Kaos : \A j \in 1 .. i - 1 : SplitOf(j) # SplitOf(i)}
IsAllowed(i) == keyAccess[i].url \in call.allowed
Potentials(s) == {i \in Kaos : SplitOf(i) = SplitOf(s) /\ IsAllowed(i)}

(* The sizes of two sets are compared; the second holds the sids as they     *)
(* stand in the manifest.                                                    *)
TooFewSplits ==
  Cardinality({keyAccess[i].sid : i \in {j \in Kaos : IsAllowed(j)}})
    < Cardinality(Splits)

DuplicateUrl ==
  \E i, j \in Kaos :
    /\ i < j
    /\ SplitOf(i) = SplitOf(j)
    /\ keyAccess[i].url = keyAccess[j].url
    /\ IsAllowed(i)

(* unwrapKey's own check, split by split.                                    *)
Unopenable == \E s \in Splits : Potentials(s) = {}

-----------------------------------------------------------------------------
(* The pools.  The loop over the jobs adds the next ones to the pool, then   *)
(* waits in Promise.race if the pool is full, or for all the rest.           *)
RoomForOneMore(pool) == poolSize + 1 - Cardinality(pool)   (* mutant *)
Room(pool) == poolSize - Cardinality(pool)

NextJobs(jobs, n) == {i \in jobs : Cardinality({j \in jobs : j < i}) < n}

RaceAlways(pool) == "race"   (* mutant: the loop has no end *)
WaitingFor(pool) == IF Cardinality(pool) < poolSize THEN "rest" ELSE "race"

(* allPool's loop from one await to the next.  labelPromise calls the job at *)
(* once, so the anyPool of a split that is added asks its first KASes.       *)
RunSplits(pool) ==
  LET waiting == {s \in Splits : shareState[s] = "idle"}
      started == NextJobs(waiting, Room(pool))
      First(s) == NextJobs(Potentials(s), Room({}))
      asked == UNION {First(s) : s \in started}
  IN /\ splitPool' = pool \cup started
     /\ splitState' = WaitingFor(splitPool')
     /\ sharePool' = [s \in Splits |->
                        IF s \in started THEN First(s) ELSE sharePool[s]]
     /\ shareState' = [s \in Splits |->
                         IF s \in started THEN WaitingFor(First(s)) ELSE shareState[s]]
     /\ kas' = [i \in Kaos |-> IF i \in asked THEN "asked" ELSE kas[i]]

Start ==
  /\ outcome = "new"
  /\ IF TooFewSplits \/ DuplicateUrl \/ Unopenable
       THEN /\ outcome' = "rejected"
            /\ UNCHANGED <<kas, sharePool, shareState, splitPool, splitState>>
       ELSE /\ outcome' = "pending"
            /\ RunSplits({})
  /\ UNCHANGED <<call, shares>>

(* tryKasRewrap ends: the KAS grants the share or the request fails.         *)
Answer(i) ==
  /\ kas[i] = "asked"
  /\ \E answer \in {"granted", "refused"} : kas' = [kas EXCEPT ![i] = answer]
  /\ UNCHANGED <<call, sharePool, shareState,
                 splitPool, splitState, shares, outcome>>

(* anyPool resolves with the first success.  Nobody looks at the rest of its *)
(* pool again: from here on sharePool holds what it resolved with.           *)
ShareOpened(s) ==
  /\ shareState[s] \in {"race", "rest"}
  /\ \E i \in sharePool[s] :
       /\ kas[i] = "granted"
       /\ sharePool' = [sharePool EXCEPT ![s] = {i}]
  /\ shareState' = [shareState EXCEPT ![s] = "opened"]
  /\ UNCHANGED <<call, kas, splitPool, splitState, shares, outcome>>

(* The race goes to a failure: drop it, ask the next KAS.                    *)
ShareRefused(s) ==
  /\ shareState[s] = "race"
  /\ \E i \in sharePool[s] :
       /\ kas[i] = "refused"
       /\ LET pool == sharePool[s] \ {i}
              next == NextJobs({j \in Potentials(s) : kas[j] = "idle"}, Room(pool))
          IN /\ sharePool' = [sharePool EXCEPT ![s] = pool \cup next]
             /\ shareState' = [shareState EXCEPT ![s] = WaitingFor(pool \cup next)]
             /\ kas' = [j \in Kaos |-> IF j \in next THEN "asked" ELSE kas[j]]
  /\ UNCHANGED <<call, splitPool, splitState, shares, outcome>>

(* Promise.any of what is left rejects.                                      *)
ShareLost(s) ==
  /\ shareState[s] = "rest"
  /\ \A i \in sharePool[s] : kas[i] = "refused"
  /\ shareState' = [shareState EXCEPT ![s] = "lost"]
  /\ UNCHANGED <<call, kas, sharePool,
                 splitPool, splitState, shares, outcome>>

Pushed(new) == shares \o new

RestDropped == <<>>   (* mutant: what Promise.all yields is forgotten *)
InOrder(S) ==
  [k \in 1 .. Cardinality(S) |-> CHOOSE i \in S : Cardinality({j \in S : j < i}) = k - 1]
Rest == InOrder(UNION {sharePool[s] : s \in splitPool})

(* allPool's race goes to a split that was opened: keep its share, start the *)
(* next split.                                                               *)
SplitOpened ==
  /\ outcome = "pending"
  /\ splitState = "race"
  /\ \E s \in splitPool :
       /\ shareState[s] = "opened"
       /\ \E i \in sharePool[s] : shares' = Pushed(<<i>>)
       /\ RunSplits(splitPool \ {s})
  /\ UNCHANGED <<call, outcome>>

(* A split is lost: allPool throws.  The other pools go on.                  *)
SplitLost ==
  /\ outcome = "pending"
  /\ \E s \in splitPool : shareState[s] = "lost"
  /\ outcome' = "error"
  /\ UNCHANGED <<call, kas, sharePool, shareState,
                 splitPool, splitState, shares>>

(* Promise.all of what is left resolves; unwrapKey merges the shares.        *)
AllOpened ==
  /\ outcome = "pending"
  /\ splitState = "rest"
  /\ \A s \in splitPool : shareState[s] = "opened"
  /\ shares' = Pushed(Rest)
  /\ outcome' = "key"
  /\ UNCHANGED <<call, kas, sharePool, shareState,
                 splitPool, splitState>>

Init ==
  /\ call \in Calls
  /\ kas = [i \in Kaos |-> "idle"]
  /\ sharePool = [s \in Splits |-> {}]
  /\ shareState = [s \in Splits |-> "idle"]
  /\ splitPool = {}
  /\ splitState = "race"
  /\ shares = <<>>
  /\ outcome = "new"

PoolStep ==
  \/ \E s \in Splits : ShareOpened(s) \/ ShareRefused(s) \/ ShareLost(s)
  \/ SplitOpened
  \/ SplitLost
  \/ AllOpened

Next == Start \/ (\E i \in Kaos : Answer(i)) \/ PoolStep

Spec == Init /\ [][Next]_vars

-----------------------------------------------------------------------------
(* A call whose requests end is settled in the end, whatever KASes refuse.   *)
EveryUnwrapEnds == outcome = "pending" ~> outcome \in {"key", "error"}

(* unwrapKey behaves as the and-or of its contract: in particular a manifest *)
(* that cannot be opened with the allowed KASes is refused before any KAS is *)
(* asked, although the check on the number of splits counts a missing and    *)
(* an empty sid twice; and the key is merged from one granted share of every *)
(* split, whichever of the loops and the last wait of a pool it came from.   *)
Recovery == INSTANCE KeyRecovery WITH
  potentials <- [s \in Splits |-> Potentials(s)],
  merged <- IF outcome = "key" THEN shares ELSE <<>>
RecoversKey == Recovery!RecoverySpec

(* A KAS is asked for a share only while there is room, "at most n active    *)
(* promises at a time" in both pools: rewraps under way for one split, and   *)
(* splits whose search is under way.  Without a concurrency limit the KASes  *)
(* are asked one after the other, each when every KAS listed before it for   *)
(* that share has refused and every split before has been opened.            *)
NoNeedlessRewrap ==
  [][\A i \in Kaos : kas[i] = "idle" /\ kas'[i] = "asked" =>
       /\ Cardinality({j \in Kaos : SplitOf(j) = SplitOf(i) /\ kas'[j] = "asked"}) <= poolSize
       /\ Cardinality({s \in Splits : shareState'[s] \in {"race", "rest"}}) <= poolSize
       /\ poolSize = 1 =>
            /\ \A j \in 1 .. i - 1 :
                 SplitOf(j) = SplitOf(i) /\ IsAllowed(j) => kas[j] = "refused"
            /\ \A s \in Splits :
                 (\E r \in Splits : s < r /\ SplitOf(r) = SplitOf(i)) =>
                    \E j \in Potentials(s) : kas[j] = "granted"]_vars
=============================================================================
