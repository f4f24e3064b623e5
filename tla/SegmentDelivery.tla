-------------------------- MODULE SegmentDelivery --------------------------
(***************************************************************************)
(* What decryptStreamFrom of lib/tdf3/src/tdf.ts promises the consumer of    *)
(* its stream, whatever the strategy that downloads the payload: the         *)
(* segments of the file in order, each once, then exactly one ending, and    *)
(* "complete" only after the last segment.                                   *)
(***************************************************************************)
EXTENDS Naturals, Sequences

CONSTANT totalSegments

VARIABLES received, outcome

deliveryVars == <<received, outcome>>

DeliveryInit == received = <<>> /\ outcome = "open"

(* The consumer gets the segment that follows the last one it got.           *)
Receive ==
  /\ Len(received) < totalSegments
  /\ received' = Append(received, Len(received))

DeliverSegment == outcome = "open" /\ Receive /\ UNCHANGED outcome

Complete ==
  /\ outcome = "open"
  /\ Len(received) = totalSegments
  /\ outcome' = "complete"
  /\ UNCHANGED received

(* An error, or the consumer's cancel, ends the delivery at any segment.     *)
(* The application's own progress handler may fail once the segment it is    *)
(* told about is out.                                                        *)
Interrupt ==
  /\ outcome = "open"
  /\ outcome' \in {"failed", "cancelled"}
  /\ \/ UNCHANGED received
     \/ outcome' = "failed" /\ Receive

DeliveryNext == DeliverSegment \/ Complete \/ Interrupt

DeliverySpec == DeliveryInit /\ [][DeliveryNext]_deliveryVars
=============================================================================
