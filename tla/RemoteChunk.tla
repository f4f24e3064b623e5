---------------------------- MODULE RemoteChunk ----------------------------
(***************************************************************************)
(* getRemoteChunk of lib/src/seekable.ts: one read of a source that is a     *)
(* URL.  A request that gets no answer, or one with an error status, is      *)
(* made again after a delay, three times in all; 416 and 404 are final, and  *)
(* so is a body that breaks off after its headers have come.  The wait goes  *)
(* with every failure, that of the last attempt included.                    *)
(***************************************************************************)
EXTENDS Naturals

VARIABLE
  fetch             (* the read: where it is, and i of its loop               *)

Attempts == 3

FirstAttempt == [at |-> "fetching", i |-> 0]

At(at) == fetch' = [fetch EXCEPT !.at = at]

(* fetch throws, or answers with a status other than 416 and 404.            *)
AttemptFails == fetch.at = "fetching" /\ At("sleeping")

RangeRefused == fetch.at = "fetching" /\ At("refused")

HeadersArrive == fetch.at = "fetching" /\ At("body")

BodyArrives == fetch.at = "body" /\ At("read")
BodyBreaksOff == fetch.at = "body" /\ At("brokenOff")

(* The wait is over: the next attempt, or an AggregateError.                 *)
SleepEnds ==
  /\ fetch.at = "sleeping"
  /\ fetch' = [fetch EXCEPT !.at = IF fetch.i + 1 < Attempts THEN "fetching" ELSE "exhausted",
                            !.i = @ + 1]

FetchStep ==
  AttemptFails \/ RangeRefused \/ HeadersArrive \/ BodyArrives \/ BodyBreaksOff \/ SleepEnds

Failed == fetch.at \in {"refused", "brokenOff", "exhausted"}
=============================================================================
