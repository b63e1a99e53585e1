-------------------------- MODULE ResourceTransfer --------------------------
(***************************************************************************)
(* Messages too long for a packet: the transfer of a resource from the     *)
(* sending half of one device to the receiving half of another             *)
(* (core/protocol/RustResourceEngine.cpp, with the receipts of             *)
(* RustIncomingDelivery and the codec behind protocol/src/resource.rs).    *)
(*                                                                         *)
(* The sender advertises and serves requests, the receiver asks for parts, *)
(* assembles them, hands the message to the store and proves it once it is *)
(* durable.  The network loses and reorders frames, either side may give   *)
(* up, the control frames that say so have a bounded pool, and the link    *)
(* may be replaced under a transfer.                                       *)
(*                                                                         *)
(* Time is not followed: a deadline may pass at any moment.  Both ends see *)
(* a new link at once.  The window of the receiver, which the codec keeps, *)
(* has any of a few sizes at any moment.                                   *)
(***************************************************************************)
EXTENDS Naturals, FiniteSets

CONSTANTS
  Messages,          \* bound: the messages sent, one after the other
  NumParts,          \* numParts
  MAX_ADV_RETRIES,   \* 4 in the code
  MAX_PART_RETRIES,  \* 16 in the code
  Windows,           \* the parts the receiver may ask for at once
  Controls,          \* the control frames a device can retain (4 in the code)
  MaxFlight,         \* bound: frames on the way at once; a radio with more to send does not take any
  MaxLinks,          \* bound: links, one after the other
  MaxLost            \* bound: lost frames a transfer has to survive

ASSUME TransferAssumption ==
  /\ {MAX_ADV_RETRIES, MAX_PART_RETRIES, MaxLost} \subseteq Nat
  /\ Windows # {} /\ Windows \subseteq Nat \ {0}
  /\ {Messages, NumParts, Controls, MaxFlight, MaxLinks} \subseteq Nat \ {0}

VARIABLES
  out,      \* _out of the sender
  in,       \* _in of the receiver
  outcome,  \* what the sender told the engine of each message
  context,  \* the receipt context of each resource at the receiver
  saving,   \* the messages the receiver's store has not answered
  stored,   \* the messages the receiver holds durably
  control,  \* the control frames each side retains
  net,      \* the frames on the way
  link,     \* the number of the present link
  trouble   \* history: frames lost so far, or Fault

vars == <<out, in, outcome, context, saving, stored, control, net, link, trouble>>

\* The resource hashes, and the parts of each.
Ids == 1 .. Messages
Parts == 0 .. NumParts - 1
None == 0
Sides == {"sender", "receiver"}

NoOut == [id |-> None, link |-> 0, adv |-> 0, req |-> FALSE, pending |-> {}]
NoIn == [id |-> None, link |-> 0, got |-> {}, asked |-> 0, retries |-> 0,
         requestPending |-> FALSE, cancelPending |-> FALSE]
Contexts == {"none", "reserved", "waiting", "proof"}
Outcomes == {"none", "delivered", "failed"}

Frames == [kind : {"ADV", "REQ", "PART", "PRF", "ICL", "RCL"}, id : Ids, parts : SUBSET Parts]
Frame(kind, id, parts) == [kind |-> kind, id |-> id, parts |-> parts]
ADV(id) == Frame("ADV", id, {})
REQ(id, parts) == Frame("REQ", id, parts)
PART(id, part) == Frame("PART", id, {part})
PRF(id) == Frame("PRF", id, {})
ICL(id) == Frame("ICL", id, {})
RCL(id) == Frame("RCL", id, {})

Init ==
  /\ out = NoOut /\ in = NoIn
  /\ outcome = [i \in Ids |-> "none"] /\ context = [i \in Ids |-> "none"]
  /\ saving = {} /\ stored = {}
  /\ control = [side \in Sides |-> {}]
  /\ net = {} /\ link = 1 /\ trouble = 0

sender == <<out, outcome>>
receiver == <<in, context, saving, stored>>
network == <<net, link>>

\* Something happened that a transfer need not survive.
Fault == MaxLost + 1
Faulty == trouble' = Fault
FaultyIf(condition) == trouble' = IF condition THEN Fault ELSE trouble

\* sendTo and offerResource: the frames are taken.
Taken(rest, frames) == Cardinality(rest \cup frames) <= MaxFlight /\ net' = rest \cup frames

\* retainControl: the pool holds the frame until the radio takes it.
HasRoom(side) == Cardinality(control[side]) < Controls
Retain(side, frame) == HasRoom(side) /\ control' = [control EXCEPT ![side] = @ \cup {frame}]

----------------------------------------------------------------------------
(* The sender. *)

\* closeOutbound, with its outcome.
CloseOutbound(result) == out' = NoOut /\ outcome' = [outcome EXCEPT ![out.id] = result]

\* startSend.  An advertisement that is not taken leaves no trace.
StartSend(i) ==
  /\ out.id = None /\ outcome[i] = "none" /\ \A j \in Ids : j < i => outcome[j] # "none"
  /\ out' = [NoOut EXCEPT !.id = i, !.link = link, !.adv = MAX_ADV_RETRIES]
  /\ Taken(net, {ADV(i)})
  /\ UNCHANGED <<outcome, receiver, control, link, trouble>>

\* servePendingParts: in order, up to the first that is not taken.
Served(pending) == {p \in SUBSET pending : \A k \in p, l \in pending \ p : k < l}
Emitted(parts) == {PART(out.id, k) : k \in parts}

\* A request for another resource names no part of this one, but it is taken
\* for an answer all the same.
OnRequest(f) ==
  /\ f.kind = "REQ" /\ out.id # None /\ out.link = link
  /\ LET asked == IF f.id = out.id THEN f.parts ELSE {}
         pending == out.pending \cup asked
     IN \E parts \in Served(pending) :
          /\ out' = [out EXCEPT !.req = TRUE, !.pending = pending \ parts]
          /\ Taken(net \ {f}, Emitted(parts))
  /\ UNCHANGED <<outcome, trouble>>

OnProof(f) ==
  /\ f.kind = "PRF" /\ out.id = f.id /\ out.link = link
  /\ CloseOutbound("delivered") /\ net' = net \ {f}
  /\ UNCHANGED trouble

OnReject(f) ==
  /\ f.kind = "RCL" /\ out.id = f.id /\ out.link = link
  /\ CloseOutbound("failed") /\ net' = net \ {f}
  /\ UNCHANGED trouble

SenderIgnores(f) ==
  /\ f.kind \in {"REQ", "PRF", "RCL"}
  /\ out.id = None \/ out.link # link \/ (f.kind # "REQ" /\ f.id # out.id)
  /\ net' = net \ {f} /\ UNCHANGED <<sender, trouble>>

SenderReceives ==
  /\ \E f \in net : OnRequest(f) \/ OnProof(f) \/ OnReject(f) \/ SenderIgnores(f)
  /\ UNCHANGED <<receiver, control, link>>

ServePending ==
  /\ out.id # None /\ out.link = link /\ out.pending # {}
  /\ \E parts \in Served(out.pending) \ {{}} :
       /\ out' = [out EXCEPT !.pending = @ \ parts]
       /\ Taken(net, Emitted(parts))
  /\ UNCHANGED <<outcome, receiver, control, link, trouble>>

\* Nothing that is on its way would still help the transfer.
Quiescent ==
  /\ net = {} /\ out.pending = {} /\ saving = {}
  /\ \A side \in Sides : control[side] = {}
  /\ \A i \in Ids : context[i] # "proof"

\* No request has come.
ReAdvertise ==
  /\ out.id # None /\ out.link = link /\ ~out.req /\ out.adv > 0
  /\ out' = [out EXCEPT !.adv = @ - 1]
  /\ Taken(net, {ADV(out.id)})
  /\ FaultyIf(~Quiescent \/ in.requestPending)
  /\ UNCHANGED <<outcome, receiver, control, link>>

\* The link of the transfer is no more: nothing can be said about it.
LinkGone == out.link # link

\* The idle limit, before which every advertisement was repeated, and which
\* is longer than the receiver takes to ask again: cancelOutbound.
SenderIdle ==
  /\ out.id # None /\ ~LinkGone
  /\ out.link = link /\ Retain("sender", ICL(out.id))
  /\ CloseOutbound("failed")
  /\ FaultyIf(~Quiescent \/ in.id = out.id \/ (~out.req /\ out.adv > 0))
  /\ UNCHANGED <<receiver, network>>

SenderLosesLink ==
  /\ out.id # None /\ LinkGone
  /\ CloseOutbound("failed")
  /\ UNCHANGED <<receiver, control, network, trouble>>

\* cancelSend: the user, or a deleted conversation.  The engine does not wait
\* for a place in the pool.
CancelSend ==
  /\ out.id # None /\ CloseOutbound("failed") /\ Faulty
  /\ Retain("sender", ICL(out.id)) \/ (~HasRoom("sender") /\ UNCHANGED control)
  /\ UNCHANGED <<receiver, network>>

----------------------------------------------------------------------------
(* The receiver. *)

Missing(v) == Parts \ v.got

\* The missing parts among the first ones after those that have come in order.
Window(v, size) ==
  LET first == CHOOSE k \in Missing(v) : \A l \in Missing(v) : k <= l
  IN Missing(v) \cap (first .. first + size - 1)

\* sendRequest for receiver state v: the frame is taken, or asked for again
\* by loop.  A message that is complete has nothing to ask for.
SendRequest(v, rest) ==
  IF Missing(v) = {} THEN in' = v /\ net' = rest
  ELSE \/ \E parts \in {Window(v, size) : size \in Windows} :
            /\ in' = [v EXCEPT !.asked = Cardinality(parts), !.requestPending = FALSE]
            /\ Taken(rest, {REQ(v.id, parts)})
       \/ in' = [v EXCEPT !.requestPending = TRUE] /\ net' = rest

\* Faulty variant: the reservation is forgotten.
CloseInboundOnly == in' = NoIn /\ UNCHANGED <<context, control>>

\* closeInbound without a word to the sender: the reservation is given back.
CloseInbound == in' = NoIn /\ context' = [context EXCEPT ![in.id] = "none"] /\ UNCHANGED control

\* closeInbound with a rejection, which takes the place of the reservation,
\* or is tried again by loop.
RejectInbound(v) ==
  \/ /\ Retain("receiver", RCL(v.id))
     /\ in' = NoIn /\ context' = [context EXCEPT ![v.id] = "none"]
  \/ /\ ~HasRoom("receiver") /\ in' = [v EXCEPT !.cancelPending = TRUE]
     /\ UNCHANGED <<context, control>>

OnAdvertisement(f) ==
  /\ f.kind = "ADV"
  /\ LET rest == net \ {f}
         accepted == [NoIn EXCEPT !.id = f.id, !.link = link, !.retries = MAX_PART_RETRIES]
     IN
     \* a repetition asks for what is missing, and keeps the rest
     \/ /\ in.id = f.id /\ in.link = link /\ UNCHANGED <<context, control, trouble>>
        /\ IF in.cancelPending THEN in' = in /\ net' = rest ELSE SendRequest(in, rest)
     \* busy
     \/ /\ in.id # None /\ ~(in.id = f.id /\ in.link = link)
        /\ Retain("receiver", RCL(f.id)) \/ (~HasRoom("receiver") /\ UNCHANGED control)
        /\ net' = rest /\ Faulty /\ UNCHANGED <<in, context>>
     \* its message is with the store or its proof with the radio
     \/ /\ in.id = None /\ context[f.id] # "none"
        /\ net' = rest /\ UNCHANGED <<in, context, control, trouble>>
     \/ /\ in.id = None /\ context[f.id] = "none"
        /\ context' = [context EXCEPT ![f.id] = "reserved"]
        /\ SendRequest(accepted, rest) /\ UNCHANGED <<control, trouble>>
     \* no receipt, or an advertisement the codec does not take
     \/ /\ in.id = None /\ context[f.id] = "none"
        /\ Retain("receiver", RCL(f.id)) \/ UNCHANGED control
        /\ net' = rest /\ Faulty /\ UNCHANGED <<in, context>>
  /\ UNCHANGED <<saving, stored>>

\* ICL: the transfer is closed, and a proof is no longer wanted.  A message
\* the store already has stays.
OnCancel(f) ==
  /\ f.kind = "ICL"
  /\ in' = IF in.id = f.id /\ in.link = link THEN NoIn ELSE in
  /\ context' = [context EXCEPT ![f.id] = "none"]
  /\ net' = net \ {f}
  /\ UNCHANGED <<saving, stored, control, trouble>>

\* Faulty variant: the proof of a message is ready once the message is whole.
AdmittedEarly(i) == context' = [context EXCEPT ![i] = "proof"]

\* The message went to the store, and its receipt waits for the answer.
Admitted(i) == context' = [context EXCEPT ![i] = "waiting"]

\* assemble and onDirectPayload: the message goes to the store, or is refused.
Assemble(v, rest) ==
  \/ /\ saving' = saving \cup {v.id} /\ Admitted(v.id) /\ in' = NoIn
     /\ net' = rest /\ UNCHANGED <<stored, control, trouble>>
  \/ RejectInbound(v) /\ net' = rest /\ Faulty /\ UNCHANGED <<saving, stored>>

OnPart(f) ==
  /\ f.kind = "PART" /\ in.id # None /\ in.link = link
  /\ LET rest == net \ {f}
         new == f.id = in.id /\ f.parts \cap in.got = {}
         v == [in EXCEPT !.got = @ \cup f.parts, !.retries = MAX_PART_RETRIES,
                         !.asked = IF @ > 0 THEN @ - 1 ELSE 0]
     IN
     \/ new /\ v.got = Parts /\ Assemble(v, rest)
     \/ ~new /\ in.got = Parts /\ Assemble(in, rest)
     \/ /\ new /\ v.got # Parts
        /\ IF in.asked = 1 THEN SendRequest(v, rest) ELSE in' = v /\ net' = rest
        /\ UNCHANGED <<context, saving, stored, control, trouble>>
     \/ /\ ~new /\ in.got # Parts
        /\ in' = in /\ net' = rest /\ UNCHANGED <<context, saving, stored, control, trouble>>

ReceiverIgnores(f) ==
  /\ f.kind = "PART" /\ (in.id = None \/ in.link # link)
  /\ net' = net \ {f} /\ UNCHANGED <<receiver, control, trouble>>

ReceiverReceives ==
  /\ \E f \in net : OnAdvertisement(f) \/ OnCancel(f) \/ OnPart(f) \/ ReceiverIgnores(f)
  /\ UNCHANGED <<sender, link>>

\* loop, while the receipt of the transfer is live.
Receiving == in.id # None /\ in.link = link

RepeatCancel ==
  /\ Receiving /\ in.cancelPending /\ HasRoom("receiver") /\ RejectInbound(in)
  /\ UNCHANGED <<sender, saving, stored, network, trouble>>

\* Faulty variant: a request that was not taken is not repeated.
RequestDueNever(v) == FALSE

RequestDue(v) == v.requestPending

RepeatRequest ==
  /\ Receiving /\ ~in.cancelPending /\ RequestDue(in)
  /\ SendRequest(in, net) /\ in' # in
  /\ UNCHANGED <<sender, context, saving, stored, control, link, trouble>>

\* No progress: a part was lost, or its request.
NoProgress ==
  /\ Receiving /\ ~in.cancelPending /\ ~in.requestPending
  /\ IF in.retries = 0
     THEN RejectInbound(in) /\ UNCHANGED net
     ELSE SendRequest([in EXCEPT !.retries = @ - 1], net) /\ UNCHANGED <<context, control>>
  /\ FaultyIf(~Quiescent)
  /\ UNCHANGED <<sender, saving, stored, link>>

\* The deadline of the whole transfer.  The receipt ends with it, and without
\* the receipt the sender is not told.
Deadline ==
  /\ Receiving
  /\ CloseInbound /\ FaultyIf(~Quiescent \/ RequestDue(in) \/ (~in.requestPending /\ in.retries > 0))
  /\ UNCHANGED <<sender, saving, stored, network>>

ReceiverLosesLink ==
  /\ in.id # None /\ in.link # link
  /\ CloseInbound
  /\ UNCHANGED <<sender, saving, stored, network, trouble>>

\* poll: the store answers, and the proof may go, unless it is not wanted any
\* more.
StoreDone(i) ==
  /\ i \in saving /\ saving' = saving \ {i}
  /\ LET waiting == context[i] = "waiting" IN
     \/ /\ stored' = stored \cup {i}
        /\ context' = IF waiting THEN [context EXCEPT ![i] = "proof"] ELSE context
        /\ UNCHANGED trouble
     \/ /\ context' = IF waiting THEN [context EXCEPT ![i] = "none"] ELSE context
        /\ UNCHANGED stored /\ Faulty
  /\ UNCHANGED <<sender, in, control, network>>

\* drainReceipt.
SendProof(i) ==
  /\ context[i] = "proof" /\ context' = [context EXCEPT ![i] = "none"]
  /\ Taken(net, {PRF(i)})
  /\ UNCHANGED <<sender, in, saving, stored, control, link, trouble>>

----------------------------------------------------------------------------
(* Radio and link. *)

SendControl ==
  /\ \E side \in Sides : \E f \in control[side] :
       control' = [control EXCEPT ![side] = @ \ {f}] /\ Taken(net, {f})
  /\ UNCHANGED <<sender, receiver, link, trouble>>

Lose ==
  /\ \E f \in net :
       /\ net' = net \ {f}
       /\ trouble' = IF trouble < Fault /\ f.kind \in {"ADV", "REQ", "PART"} THEN trouble + 1 ELSE Fault
  /\ UNCHANGED <<sender, receiver, control, link>>

\* A link is closed under a transfer and a new one established: its receipts and frames are
\* gone, and its transfers as soon as loop looks at them.
NewLink ==
  /\ link < MaxLinks /\ {out.id, in.id} # {None} /\ link' = link + 1
  /\ net' = {} /\ control' = [side \in Sides |-> {}]
  /\ context' = [i \in Ids |-> "none"]
  /\ Faulty
  /\ UNCHANGED <<sender, in, saving, stored>>

----------------------------------------------------------------------------
SenderLoop == ServePending \/ ReAdvertise \/ SenderIdle \/ SenderLosesLink
ReceiverLoop == RepeatCancel \/ RepeatRequest \/ NoProgress \/ Deadline \/ ReceiverLosesLink
Poll == \E i \in Ids : StoreDone(i) \/ SendProof(i)

Next ==
  \/ SenderReceives \/ SenderLoop \/ CancelSend \/ \E i \in Ids : StartSend(i)
  \/ ReceiverReceives \/ ReceiverLoop \/ Poll
  \/ SendControl \/ Lose \/ NewLink

\* Frames arrive or are lost, the loops run until they have nothing to do (a
\* deadline is something to do), and the store answers.  Nobody has to
\* cancel, lose a frame or close a link.
Fairness ==
  /\ WF_vars(SenderReceives) /\ WF_vars(SenderLoop)
  /\ WF_vars(ReceiverReceives) /\ WF_vars(ReceiverLoop)
  /\ WF_vars(SendControl) /\ WF_vars(Poll)

Spec == Init /\ [][Next]_vars /\ Fairness

----------------------------------------------------------------------------
(* Properties. *)

TypeOK ==
  /\ out \in [id : Ids \cup {None}, link : 0 .. MaxLinks, adv : 0 .. MAX_ADV_RETRIES,
              req : BOOLEAN, pending : SUBSET Parts]
  /\ in \in [id : Ids \cup {None}, link : 0 .. MaxLinks, got : SUBSET Parts, asked : 0 .. Cardinality(Parts),
             retries : 0 .. MAX_PART_RETRIES, requestPending : BOOLEAN, cancelPending : BOOLEAN]
  /\ outcome \in [Ids -> Outcomes] /\ context \in [Ids -> Contexts]
  /\ {saving, stored} \subseteq SUBSET Ids
  /\ control \in [Sides -> SUBSET Frames] /\ net \subseteq Frames /\ link \in 1 .. MaxLinks
  /\ trouble \in 0 .. Fault

\* The sender calls a message delivered only if the receiver holds it durably,
\* and never changes its verdict: whatever is lost, cancelled or repeated, and
\* with the proofs of other transfers on the way.
Delivery == INSTANCE MessageDelivery WITH Messages <- Ids, verdict <- outcome, held <- stored
ImplementsDelivery == Delivery!Spec

\* A receipt is reserved for the transfer the receiver is busy with, as long
\* as its link lives, and for no other: the credit of a closed transfer is
\* given back.  A message that waits for its proof has not left the store.
ReceiptsAgree ==
  /\ \A i \in Ids : context[i] = "reserved" <=> in.id = i /\ in.link = link
  /\ \A i \in Ids : (context[i] = "waiting" => i \in saving) /\ (context[i] = "proof" => i \in stored)
Consistent == TypeOK /\ ReceiptsAgree

\* A transfer ends at the sender, though frames keep coming, the pool of
\* control frames is full or the link is gone, and the next one can start.
\* And if nobody gives up before his time, nor cancels, and the network loses
\* no more than MaxLost advertisements, requests and parts, it ends with the
\* message delivered.
EveryTransferEnds ==
  \A i \in Ids : out.id = i ~> out.id # i /\ (outcome[i] = "delivered" \/ trouble = Fault)
=============================================================================
