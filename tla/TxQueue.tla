------------------------------ MODULE TxQueue ------------------------------
(***************************************************************************)
(* The transmit queue of the LoRa interface                                *)
(* (core/transport/LoRaInterface.cpp) as the interface pump feeds it       *)
(* (core/protocol/RustInterfacePump.cpp, offerReceipt and leaseLive).      *)
(*                                                                         *)
(* A frame is retained with the receipt of whoever queued it, and the      *)
(* owner decides, when the frame reaches the radio, whether it may still   *)
(* go out.  This module keeps the queue; the module that owns the receipts *)
(* passes the set of frames that are live and retires the receipts of the  *)
(* frames that leave.  Whether the radio is in the middle of a burst, paces*)
(* itself or waits for the second half of a split packet is not followed:  *)
(* it may be ready or not at any moment.                                   *)
(***************************************************************************)
EXTENDS Naturals, Sequences, FiniteSets, SequencesExt

CONSTANTS
  TxQueueMax,  \* TX_QUEUE_MAX, the frames retained
  Foreign      \* a frame without a receipt: announces, links, diagnostics

ASSUME QueueAssumption == TxQueueMax \in Nat \ {0}

VARIABLES
  txQueue,  \* _txQueue[0 .. _txCount - 1]
  radio     \* "off", "on" (_online), or "maintenance" (_online and _maintenance)

radioVars == <<txQueue, radio>>

TxQueueInit == txQueue = <<>> /\ radio = "off"

Frames == ToSet(txQueue)

\* What discardExpired leaves of the queue: the live frames close up.  (Said by
\* the places they had and not by recursion, for the sake of the proofs.)
LivePlaces(live) == {k \in DOMAIN txQueue : txQueue[k] \in live}
Place(live, n) == CHOOSE k \in LivePlaces(live) : Cardinality({l \in LivePlaces(live) : l <= k}) = n
Kept(live) == [n \in 1 .. Cardinality(LivePlaces(live)) |-> txQueue[Place(live, n)]]

\* The frames a step of the radio finds dead; their receipts are dropped.
Dead(live) == Frames \ live

\* send_outgoing: the radio takes the frame only past an empty queue, an
\* accepted frame is never evicted for a new one, and an offer refused for
\* the moment (a full queue, a busy driver, a pending retune) is repeated by
\* the producer.  "Rejected" ends the receipt.
Offer(frame, live, offer) ==
  /\ UNCHANGED radio
  /\ \/ offer = "Blocked" /\ radio = "on" /\ UNCHANGED txQueue
     \/ offer = "Rejected" /\ radio # "on" /\ UNCHANGED txQueue
     \/ offer = "Started" /\ radio = "on" /\ Kept(live) = <<>> /\ txQueue' = <<>>
     \/ /\ offer = "Queued" /\ radio = "on"
        /\ Len(Kept(live)) < TxQueueMax
        /\ txQueue' = Append(Kept(live), frame)
     \/ /\ offer = "Blocked" /\ radio = "on"
        /\ Len(Kept(live)) \in {0, TxQueueMax}
        /\ txQueue' = Kept(live)

\* discardExpired, when no frame can go out in this round.
DiscardExpired(live) ==
  /\ radio = "on" /\ Dead(live) # {}
  /\ txQueue' = Kept(live)
  /\ UNCHANGED radio

\* drainTx: the oldest live frame goes to the radio and leaves the queue.
DrainTx(live, frame) ==
  /\ radio = "on" /\ Kept(live) # <<>> /\ frame = Head(Kept(live))
  /\ txQueue' = Tail(Kept(live))
  /\ UNCHANGED radio

\* stop: every retained frame is dropped.
Stop == radio # "off" /\ radio' = "off" /\ txQueue' = <<>>

\* start: an interface in maintenance has to be stopped first.
Start == radio = "off" /\ radio' = "on" /\ UNCHANGED txQueue

\* beginMaintenance: the gate is closed before the first frame is dropped.
BeginMaintenance ==
  /\ radio' = IF radio = "on" THEN "maintenance" ELSE radio
  /\ txQueue' = <<>>
=============================================================================
