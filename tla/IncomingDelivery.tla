-------------------------- MODULE IncomingDelivery --------------------------
(***************************************************************************)
(* Incoming messages and the proofs of their delivery                      *)
(* (core/protocol/RustIncomingDelivery.cpp), with the transmit queue the   *)
(* proofs wait in (TxQueue), the storage worker that makes the messages    *)
(* durable, one link, and the receiving half of the resource engine as far *)
(* as it holds a receipt (core/protocol/RustResourceEngine.cpp).           *)
(*                                                                         *)
(* A message takes a row while its record is being written.  Each copy of  *)
(* it that arrives takes a receipt, which holds the signed proof; the      *)
(* receipt is eligible once the record is committed and then waits in the  *)
(* queue of the radio, where it is validated again at the last moment.     *)
(* Deleting a conversation or stopping must revoke all of it, although the *)
(* worker may be half way and the radio holds copies of the frames.        *)
(*                                                                         *)
(* The rows are visited by poll one by one and so are the receipts: a      *)
(* visit is an action of its own, since the worker may answer just after   *)
(* a row was passed.  Row generations are left out: Consistent says that a *)
(* row is never released under a receipt of its own, and then they agree.  *)
(***************************************************************************)
EXTENDS Naturals, Sequences, FiniteSets, FiniteSetsExt, TxQueue

CONSTANTS
  Rows,            \* 0 .. RowCount - 1
  Slots,           \* the receipt slots, 0 .. ReceiptCount - 1
  ReceiptsPerRow,  \* ReceiptsPerRow
  MaxControls,     \* the quota of link control frames (4)
  MaxGeneration,   \* UINT32_MAX: a receipt slot that reached it is retired
  MaxVisibility,   \* UINT32_MAX of _visibilityGeneration
  Worn,            \* the receipt slots that begin with one generation left
  Peers, Messages,
  Reactions,       \* the messages that are reactions: never stored
  Source,          \* Source[m]: the peer message m is from
  Called,          \* the peers we open a link to
  NoRow, NoMessage, NoPeer

ASSUME DeliveryAssumption ==
  /\ Rows \subseteq Nat /\ Slots \subseteq Nat /\ IsFiniteSet(Rows) /\ IsFiniteSet(Slots)
  /\ {ReceiptsPerRow, MaxControls, MaxGeneration, MaxVisibility} \subseteq Nat \ {0}
  /\ Reactions \subseteq Messages /\ Source \in [Messages -> Peers]
  /\ Worn \subseteq Slots /\ Called \subseteq Peers /\ NoRow \notin Rows /\ NoMessage \notin Messages /\ NoPeer \notin Peers

\* A frame without a receipt is not one of ours.
ASSUME ForeignAssumption ==
  Foreign \notin [slot : Slots, gen : 0 .. MaxGeneration, msg : Messages \cup {NoMessage},
                  to : Peers \cup {NoPeer}, revoked : BOOLEAN]

VARIABLES
  rows,        \* _rows; revoked is history: its peer was deleted, or delivery stopped
  receipts,    \* _receipts; fresh: within maxWaitMs and on the same interface generation
  accepting,   \* _accepting
  visibility,  \* _visibilityGeneration
  link,        \* "down", "answered" (the remote end is unknown), or the peer we called
  inbound,     \* the resource being received: RustResourceEngine::_in
  stored,      \* the messages with a durable record
  event        \* history: the proof or notice the last step gave out

delivery == <<rows, receipts, accepting, visibility>>
vars == <<delivery, link, inbound, stored, event, radioVars>>

Phases == {"Free", "Reserved", "AwaitStore", "Committed", "Reaction", "Invisible"}
Tickets == {"none", "waiting", "committed", "duplicate", "failed"}
States == {"Free", "Reserved", "Eligible", "Queued"}
\* ReservedResource and PreparedResource differ in their deadline only.
Kinds == {"Packet", "LinkPacket", "Resource", "Control", "Reservation"}

FreeRow == [phase |-> "Free", msg |-> NoMessage, ticket |-> "none", proofs |-> {}, revoked |-> FALSE]
FreeReceipt(gen) == [gen |-> gen, state |-> "Free", kind |-> "Packet", row |-> NoRow,
                     fresh |-> FALSE, revoked |-> FALSE]
NoInbound == [phase |-> "none", slot |-> 0, gen |-> 0]
Silent == [what |-> "none", msg |-> NoMessage, revoked |-> FALSE]

Init ==
  /\ TxQueueInit
  /\ rows = [j \in Rows |-> FreeRow]
  /\ receipts = [i \in Slots |-> FreeReceipt(IF i \in Worn THEN MaxGeneration - 1 ELSE 0)]
  /\ accepting = FALSE /\ visibility = 1
  /\ link = "down" /\ inbound = NoInbound /\ stored = {} /\ event = Silent

----------------------------------------------------------------------------
OnLink(kind) == kind # "Packet"
\* Faulty variant: the slot is looked at, not the generation.
HeldSlot(i, gen) == i \in Slots /\ receipts[i].state # "Free"

Held(i, gen) == i \in Slots /\ receipts[i].state # "Free" /\ receipts[i].gen = gen

BindingLive(i) ==
  /\ accepting /\ receipts[i].fresh
  /\ OnLink(receipts[i].kind) => link # "down"

\* The last word on a frame, asked by the radio right before it transmits.
ReceiptLive(i, gen) ==
  /\ Held(i, gen)
  /\ receipts[i].state \in {"Eligible", "Queued"}
  /\ BindingLive(i)
  /\ IF receipts[i].row = NoRow THEN receipts[i].kind = "Control"
     ELSE rows[receipts[i].row].phase \in {"Committed", "Reaction"}

Live == {f \in Frames : f # Foreign /\ ReceiptLive(f.slot, f.gen)}

\* The receipts the hook retires when these frames leave the queue.
ReceiptsOf(frames) == {f.slot : f \in {g \in frames \ {Foreign} : Held(g.slot, g.gen)}}

\* retireReceipt on a set of receipts, on the receipts and on the rows: a row
\* left without a proof and without a ticket is released.
RetiredFrom(rs, gone) == [i \in Slots |-> IF i \in gone THEN FreeReceipt(rs[i].gen) ELSE rs[i]]
Without(rw, gone) ==
  [j \in Rows |-> LET left == rw[j].proofs \ gone IN
     IF rw[j].ticket = "none" /\ left = {} THEN FreeRow ELSE [rw[j] EXCEPT !.proofs = left]]

Retire(gone) == receipts' = RetiredFrom(receipts, gone) /\ rows' = Without(rows, gone)

FreeRows == {j \in Rows : rows[j].phase = "Free"}
FreeSlots(rs) == {i \in Slots : rs[i].state = "Free" /\ rs[i].gen < MaxGeneration}
Controls(rs) == {i \in Slots : rs[i].state # "Free" /\ rs[i].kind = "Control"}

Allocated(rs, i, kind, state, row) ==
  [rs EXCEPT ![i] = [gen |-> rs[i].gen + 1, state |-> state, kind |-> kind, row |-> row,
                     fresh |-> TRUE, revoked |-> FALSE]]

\* The row of a message that is still being delivered.
Existing(m) == {j \in Rows : rows[j].msg = m /\ rows[j].phase \notin {"Free", "Invisible"}}

\* Faulty variant: a late copy waits for a commit that has already been seen.
ProofStateReserved(j) == "Reserved"

ProofState(j) == IF rows[j].phase \in {"Committed", "Reaction"} THEN "Eligible" ELSE "Reserved"

\* captureSeed: who may still take a receipt.
MaySeed(kind) == accepting /\ radio # "off" /\ (OnLink(kind) => link # "down")

NewRow(m, ticket, proofs) ==
  [phase |-> IF m \in Reactions THEN "Reaction" ELSE "AwaitStore",
   msg |-> m, ticket |-> ticket, proofs |-> proofs, revoked |-> FALSE]

----------------------------------------------------------------------------
(* Messages in one packet: captureSeed, then accept. *)

\* Another copy of a message in delivery takes a further receipt.  (The same
\* packet again changes nothing.)
AcceptCopy(m, kind) ==
  /\ MaySeed(kind) /\ FreeSlots(receipts) # {}
  /\ \E j \in Existing(m) :
       LET i == Min(FreeSlots(receipts)) IN
       /\ Cardinality(rows[j].proofs) < ReceiptsPerRow
       /\ receipts' = Allocated(receipts, i, kind, ProofState(j), j)
       /\ rows' = [rows EXCEPT ![j].proofs = @ \cup {i}]
  /\ UNCHANGED <<accepting, visibility, link, inbound, stored, radioVars>>
  /\ event' = Silent

\* The first copy takes a row; a reaction is done with at once, any other
\* message waits for the store, which may refuse it.
AcceptNew(m, kind) ==
  /\ MaySeed(kind) /\ FreeSlots(receipts) # {} /\ FreeRows # {} /\ Existing(m) = {}
  /\ LET i == Min(FreeSlots(receipts))
         j == Min(FreeRows)
     IN \/ /\ receipts' = Allocated(receipts, i, kind, IF m \in Reactions THEN "Eligible" ELSE "Reserved", j)
           /\ rows' = [rows EXCEPT ![j] = NewRow(m, IF m \in Reactions THEN "none" ELSE "waiting", {i})]
        \/ /\ m \notin Reactions
           /\ receipts' = [receipts EXCEPT ![i].gen = @ + 1]
           /\ UNCHANGED rows
  /\ UNCHANGED <<accepting, visibility, link, inbound, stored, radioVars>>
  /\ event' = Silent

\* A link we opened gives no proofs; the message is stored all the same.
AcceptUnproved(m) ==
  /\ accepting /\ radio # "off" /\ link \in Peers
  /\ m \notin Reactions /\ FreeRows # {} /\ Existing(m) = {}
  /\ rows' = [rows EXCEPT ![Min(FreeRows)] = NewRow(m, "waiting", {})]
  /\ UNCHANGED <<receipts, accepting, visibility, link, inbound, stored, radioVars>>
  /\ event' = Silent

ReceivePacket(m) == AcceptCopy(m, "Packet") \/ AcceptNew(m, "Packet")
ReceiveOnLink(m) ==
  \/ link = "answered" /\ (AcceptCopy(m, "LinkPacket") \/ AcceptNew(m, "LinkPacket"))
  \/ AcceptUnproved(m)

----------------------------------------------------------------------------
(* Messages in a resource: the receipt is reserved before the first part. *)

ReserveResource ==
  /\ inbound.phase = "none" /\ MaySeed("Reservation") /\ FreeSlots(receipts) # {}
  /\ LET i == Min(FreeSlots(receipts)) IN
     /\ receipts' = Allocated(receipts, i, "Reservation", "Reserved", NoRow)
     /\ inbound' = [phase |-> "active", slot |-> i, gen |-> receipts[i].gen + 1]
  /\ UNCHANGED <<rows, accepting, visibility, link, stored, radioVars>>
  /\ event' = Silent

\* closeInbound(true): the rejection goes out as a control frame, in the
\* place of the reservation if that is still held; without a credit for it
\* the transfer stays open and asks again.
CloseCancelled(rs) ==
  LET i == inbound.slot
      reserved == rs[i].state # "Free" /\ rs[i].gen = inbound.gen
      quota == MaySeed("Control") /\ Cardinality(Controls(rs)) < MaxControls
  IN IF reserved /\ quota /\ rs[i].kind = "Reservation"
     THEN /\ receipts' = [rs EXCEPT ![i].kind = "Control", ![i].state = "Eligible", ![i].fresh = TRUE]
          /\ inbound' = NoInbound
     ELSE IF ~reserved /\ quota /\ FreeSlots(rs) # {}
     THEN /\ receipts' = Allocated(rs, Min(FreeSlots(rs)), "Control", "Eligible", NoRow)
          /\ inbound' = NoInbound
     ELSE /\ receipts' = rs
          /\ inbound' = [inbound EXCEPT !.phase = "cancel"]

Assembled == inbound.phase # "none" /\ link # "down"
ReservationLive == Held(inbound.slot, inbound.gen) /\ receipts[inbound.slot].kind = "Reservation"
                     /\ BindingLive(inbound.slot)

\* The last part of message m arrived: accept moves the reservation to the
\* row of the message, and the assembly is closed.
CompleteResource(m) ==
  LET i == inbound.slot
      Proof(state, j) == [receipts EXCEPT ![i].kind = "Resource", ![i].state = state, ![i].row = j]
  IN
  /\ Assembled /\ ReservationLive
  /\ \/ \E j \in Existing(m) :
          /\ Cardinality(rows[j].proofs) < ReceiptsPerRow
          /\ receipts' = Proof(ProofState(j), j)
          /\ rows' = [rows EXCEPT ![j].proofs = @ \cup {i}]
     \/ /\ Existing(m) = {} /\ FreeRows # {}
        /\ LET j == Min(FreeRows) IN
           /\ receipts' = Proof(IF m \in Reactions THEN "Eligible" ELSE "Reserved", j)
           /\ rows' = [rows EXCEPT ![j] = NewRow(m, IF m \in Reactions THEN "none" ELSE "waiting", {i})]
  /\ inbound' = NoInbound
  /\ UNCHANGED <<accepting, visibility, link, stored, radioVars>>
  /\ event' = Silent

\* It arrived but cannot be admitted: undecodable, no credit left, the
\* reservation ran out, or (its receipt is then gone) the store refused.
RefuseResource ==
  /\ Assembled
  /\ \/ CloseCancelled(receipts)
     \/ ReservationLive /\ FreeRows # {} /\ CloseCancelled(RetiredFrom(receipts, {inbound.slot}))
  /\ UNCHANGED <<rows, accepting, visibility, link, stored, radioVars>>
  /\ event' = Silent

\* RustResourceEngine::loop: a transfer whose receipt is not live is closed
\* (and releaseReservation finds at most that receipt), a pending rejection is
\* repeated, one without progress is rejected.
ResourceLoop ==
  /\ inbound.phase # "none"
  /\ IF Held(inbound.slot, inbound.gen) /\ BindingLive(inbound.slot)
     THEN CloseCancelled(receipts) /\ UNCHANGED rows
     ELSE /\ Retire(IF Held(inbound.slot, inbound.gen) THEN {inbound.slot} ELSE {})
          /\ inbound' = NoInbound
  /\ UNCHANGED <<accepting, visibility, link, stored, radioVars>>
  /\ event' = Silent

\* The sender cancels a transfer, be it assembling or waiting for its proof.
CancelResource(i) ==
  /\ link # "down" /\ receipts[i].state # "Free" /\ receipts[i].kind \in {"Resource", "Reservation"}
  /\ BindingLive(i)
  /\ Retire({i})
  /\ inbound' = IF inbound.phase # "none" /\ Held(inbound.slot, inbound.gen) /\ inbound.slot = i
                THEN NoInbound ELSE inbound
  /\ UNCHANGED <<accepting, visibility, link, stored, radioVars>>
  /\ event' = Silent

\* Another transfer is offered while one is in progress: it is refused with a
\* control frame, or not at all when there is no credit.
RefuseSecondTransfer ==
  /\ inbound.phase # "none" /\ MaySeed("Control")
  /\ Cardinality(Controls(receipts)) < MaxControls /\ FreeSlots(receipts) # {}
  /\ receipts' = Allocated(receipts, Min(FreeSlots(receipts)), "Control", "Eligible", NoRow)
  /\ UNCHANGED <<rows, accepting, visibility, link, inbound, stored, radioVars>>
  /\ event' = Silent

----------------------------------------------------------------------------
(* The storage worker, and poll. *)

\* A cancelled ticket may still be executed, or fail: both look the same here.
StoreExecute(j) ==
  /\ rows[j].ticket = "waiting"
  /\ \/ /\ rows' = [rows EXCEPT ![j].ticket = IF rows[j].msg \in stored THEN "duplicate" ELSE "committed"]
        /\ stored' = stored \cup {rows[j].msg}
     \/ rows' = [rows EXCEPT ![j].ticket = "failed"] /\ UNCHANGED stored
  /\ UNCHANGED <<receipts, accepting, visibility, link, inbound, radioVars>>
  /\ event' = Silent

\* Faulty variant: any answer of the store counts as a commit.
PollRowAnyAnswer(j) ==
  LET visible == accepting /\ rows[j].phase # "Invisible" IN
  /\ rows[j].ticket \notin {"none", "waiting"} /\ visible
  /\ rows' = Without([rows EXCEPT ![j].ticket = "none", ![j].phase = "Committed"], {})
  /\ receipts' = [i \in Slots |-> IF i \in rows[j].proofs THEN [receipts[i] EXCEPT !.state = "Eligible"]
                                  ELSE receipts[i]]
  /\ event' = Silent
  /\ UNCHANGED <<accepting, visibility, link, inbound, stored, radioVars>>

\* Faulty variant: a stopped delivery leaves the answers where they are.
PollRowAccepting(j) ==
  /\ accepting /\ rows[j].ticket \notin {"none", "waiting"}
  /\ rows' = Without([rows EXCEPT ![j].ticket = "none", ![j].phase = "Committed"], {})
  /\ receipts' = [i \in Slots |-> IF i \in rows[j].proofs THEN [receipts[i] EXCEPT !.state = "Eligible"]
                                  ELSE receipts[i]]
  /\ event' = Silent
  /\ UNCHANGED <<accepting, visibility, link, inbound, stored, radioVars>>

\* The visit of a row whose ticket is answered.
PollRow(j) ==
  LET visible == accepting /\ rows[j].phase # "Invisible"
      committed == rows[j].ticket \in {"committed", "duplicate"} /\ visible
      answered == [rows EXCEPT ![j].ticket = "none", ![j].phase = IF committed THEN "Committed" ELSE "Invisible"]
  IN
  /\ rows[j].ticket \notin {"none", "waiting"}
  /\ IF committed
     THEN /\ rows' = Without(answered, {})
          /\ receipts' = [i \in Slots |-> IF i \in rows[j].proofs THEN [receipts[i] EXCEPT !.state = "Eligible"]
                                          ELSE receipts[i]]
     ELSE rows' = Without(answered, rows[j].proofs) /\ receipts' = RetiredFrom(receipts, rows[j].proofs)
  /\ event' = IF committed /\ rows[j].ticket = "committed"
              THEN [what |-> "notice", msg |-> rows[j].msg, revoked |-> rows[j].revoked]
              ELSE Silent
  /\ UNCHANGED <<accepting, visibility, link, inbound, stored, radioVars>>

FrameOf(i) ==
  LET j == receipts[i].row IN
  [slot |-> i, gen |-> receipts[i].gen, msg |-> IF j = NoRow THEN NoMessage ELSE rows[j].msg,
   to |-> IF j # NoRow THEN Source[rows[j].msg] ELSE IF link \in Peers THEN link ELSE NoPeer,
   revoked |-> receipts[i].revoked]
ProofOf(frame) == [what |-> "proof", msg |-> frame.msg, revoked |-> frame.revoked]

\* The visit of a receipt: one whose binding ended is retired, an eligible one
\* is offered to the radio, whose discard of dead frames comes first.
PollReceipt(i) ==
  /\ receipts[i].state # "Free"
  /\ \/ /\ ~BindingLive(i)
        /\ Retire({i}) /\ event' = Silent /\ UNCHANGED radioVars
     \/ /\ receipts[i].state = "Eligible" /\ BindingLive(i)
        /\ IF ~ReceiptLive(i, receipts[i].gen)
           THEN Retire({i}) /\ event' = Silent /\ UNCHANGED radioVars
           ELSE \E offer \in {"Blocked", "Rejected", "Started", "Queued"}, others \in SUBSET {Foreign} :
                  LET live == Live \cup others
                      gone == IF txQueue' # txQueue THEN ReceiptsOf(Dead(live)) ELSE {}
                  IN
                  /\ Offer(FrameOf(i), live, offer)
                  /\ rows' = Without(rows, IF offer \in {"Started", "Rejected"} THEN gone \cup {i} ELSE gone)
                  /\ receipts' = IF offer \in {"Started", "Rejected"} THEN RetiredFrom(receipts, gone \cup {i})
                                 ELSE IF offer = "Queued" THEN [RetiredFrom(receipts, gone) EXCEPT ![i].state = "Queued"]
                                 ELSE RetiredFrom(receipts, gone)
                  /\ event' = IF offer = "Started" THEN ProofOf(FrameOf(i)) ELSE Silent
  /\ UNCHANGED <<accepting, visibility, link, inbound, stored>>

----------------------------------------------------------------------------
(* The radio. *)

Transmit ==
  \E others \in SUBSET {Foreign}, frame \in Frames :
    LET live == Live \cup others IN
    /\ DrainTx(live, frame)
    /\ Retire(ReceiptsOf(Dead(live) \cup {frame}))
    /\ event' = IF frame = Foreign THEN Silent ELSE ProofOf(frame)
    /\ UNCHANGED <<accepting, visibility, link, inbound, stored>>

Discard ==
  \E others \in SUBSET {Foreign} :
    /\ DiscardExpired(Live \cup others)
    /\ Retire(ReceiptsOf(Dead(Live \cup others)))
    /\ event' = Silent
    /\ UNCHANGED <<accepting, visibility, link, inbound, stored>>

\* Other traffic takes a place in the queue.
OfferForeign ==
  /\ Foreign \notin Frames
  /\ Offer(Foreign, Live, "Queued")
  /\ Retire(ReceiptsOf(Dead(Live)))
  /\ event' = Silent
  /\ UNCHANGED <<accepting, visibility, link, inbound, stored>>

\* A stopped interface comes back under another generation: no receipt of
\* before is fresh again.
RadioStop ==
  /\ Stop
  /\ LET kept == RetiredFrom(receipts, ReceiptsOf(Frames)) IN
     receipts' = [i \in Slots |-> [kept[i] EXCEPT !.fresh = FALSE]]
  /\ rows' = Without(rows, ReceiptsOf(Frames))
  /\ event' = Silent
  /\ UNCHANGED <<accepting, visibility, link, inbound, stored>>

RadioStart == Start /\ event' = Silent /\ UNCHANGED <<delivery, link, inbound, stored>>

\* maxWaitMs elapsed.
Expire(i) ==
  /\ receipts[i].fresh
  /\ receipts' = [receipts EXCEPT ![i].fresh = FALSE]
  /\ event' = Silent
  /\ UNCHANGED <<rows, accepting, visibility, link, inbound, stored, radioVars>>

----------------------------------------------------------------------------
(* The link, deletions, and the end. *)

OpenLink(remote) ==
  /\ link = "down" /\ radio # "off" /\ link' = remote
  /\ event' = Silent
  /\ UNCHANGED <<delivery, inbound, stored, radioVars>>

\* closeLink calls dropLink.
CloseLink ==
  /\ link # "down" /\ link' = "down"
  /\ Retire({i \in Slots : receipts[i].state # "Free" /\ OnLink(receipts[i].kind)})
  /\ event' = Silent
  /\ UNCHANGED <<accepting, visibility, inbound, stored, radioVars>>

\* stopAdmissions on the rows and the receipts of this moment.
StopEffects ==
  /\ accepting' = FALSE
  /\ receipts' = [i \in Slots |-> FreeReceipt(receipts[i].gen)]
  /\ rows' = [j \in Rows |-> IF rows[j].phase = "Free" \/ rows[j].ticket = "none" THEN FreeRow
                             ELSE [rows[j] EXCEPT !.phase = "Invisible", !.proofs = {}, !.revoked = TRUE]]

AllRevoked(queue) == [k \in DOMAIN queue |-> IF queue[k] = Foreign THEN Foreign ELSE [queue[k] EXCEPT !.revoked = TRUE]]

StopAdmissions ==
  /\ accepting
  /\ StopEffects
  /\ txQueue' = AllRevoked(txQueue) /\ UNCHANGED radio
  /\ event' = Silent
  /\ UNCHANGED <<visibility, link, inbound, stored>>

\* ProtocolRuntime::beginMaintenance: the stop, then the gate of the radio.
EnterMaintenance ==
  /\ radio = "on"
  /\ StopEffects
  /\ BeginMaintenance
  /\ event' = Silent
  /\ UNCHANGED <<visibility, link, inbound, stored>>

\* dropPeer: the rows of the peer, their proofs, and everything on a link that
\* may be his.  A deletion past the last generation stops delivery for good.
Hidden(p) == {j \in Rows : rows[j].phase # "Free" /\ Source[rows[j].msg] = p}
OnSuspectLink(p) ==
  {i \in Slots : /\ receipts[i].state # "Free" /\ receipts[i].row = NoRow /\ OnLink(receipts[i].kind)
                 /\ (receipts[i].kind = "Reservation" \/ link \notin Peers \/ link = p)}

\* RustLxmfEngine::beginPeerDelete: dropPeer, then that of the resource engine.
DropPeer(p) ==
  /\ accepting
  /\ IF visibility = MaxVisibility THEN StopEffects /\ UNCHANGED visibility
     ELSE LET gone == (UNION {rows[j].proofs : j \in Hidden(p)}) \cup OnSuspectLink(p)
              \* history: receipts left behind would be revoked
              marked == [i \in Slots |-> IF receipts[i].state # "Free" /\
                            (IF receipts[i].row = NoRow THEN receipts[i].kind = "Control" /\ link = p
                             ELSE Source[rows[receipts[i].row].msg] = p)
                          THEN [receipts[i] EXCEPT !.revoked = TRUE] ELSE receipts[i]]
          IN
          /\ visibility' = visibility + 1
          /\ receipts' = RetiredFrom(marked, gone)
          /\ rows' = Without([j \in Rows |-> IF j \in Hidden(p) THEN [rows[j] EXCEPT !.phase = "Invisible", !.revoked = TRUE]
                                             ELSE rows[j]], gone)
          /\ UNCHANGED accepting
  /\ txQueue' = [k \in DOMAIN txQueue |-> IF txQueue[k] # Foreign /\ (visibility = MaxVisibility \/ txQueue[k].to = p)
                                          THEN [txQueue[k] EXCEPT !.revoked = TRUE] ELSE txQueue[k]]
  /\ inbound' = IF link = p THEN NoInbound ELSE inbound
  /\ event' = Silent
  /\ UNCHANGED <<radio, link, stored>>

\* begin, for the next identity: refused until everything is drained.
Drained == (\A j \in Rows : rows[j].phase = "Free") /\ (\A i \in Slots : receipts[i].state = "Free")

Begin ==
  /\ ~accepting /\ Drained
  /\ accepting' = TRUE
  /\ inbound' = NoInbound /\ link' = "down"
  /\ txQueue' = Kept({Foreign}) /\ UNCHANGED radio
  /\ event' = Silent
  /\ UNCHANGED <<rows, receipts, visibility, stored>>

----------------------------------------------------------------------------
Next ==
  \/ \E m \in Messages : ReceivePacket(m) \/ ReceiveOnLink(m) \/ CompleteResource(m)
  \/ ReserveResource \/ RefuseResource \/ ResourceLoop \/ RefuseSecondTransfer
  \/ \E j \in Rows : StoreExecute(j) \/ PollRow(j)
  \/ \E i \in Slots : PollReceipt(i) \/ Expire(i) \/ CancelResource(i)
  \/ Transmit \/ Discard \/ OfferForeign \/ RadioStop \/ RadioStart
  \/ \E remote \in Called \cup {"answered"} : OpenLink(remote)
  \/ CloseLink \/ StopAdmissions \/ EnterMaintenance \/ Begin
  \/ \E p \in Peers : DropPeer(p)

\* The worker answers every ticket, and the owner polls.
Fairness == \A j \in Rows : WF_vars(StoreExecute(j)) /\ WF_vars(PollRow(j))

Spec == Init /\ [][Next]_vars /\ Fairness

----------------------------------------------------------------------------
(* Properties. *)

TypeOK ==
  /\ rows \in [Rows -> [phase : Phases, msg : Messages \cup {NoMessage}, ticket : Tickets,
                        proofs : SUBSET Slots, revoked : BOOLEAN]]
  /\ receipts \in [Slots -> [gen : 0 .. MaxGeneration, state : States, kind : Kinds, row : Rows \cup {NoRow},
                             fresh : BOOLEAN, revoked : BOOLEAN]]
  /\ accepting \in BOOLEAN /\ visibility \in 1 .. MaxVisibility
  /\ link \in Peers \cup {"down", "answered"} /\ stored \subseteq Messages

\* A row holds exactly the receipts that point at it, and is not released
\* while its ticket is out: what makes the row generation redundant.
MasksAgree ==
  \A j \in Rows :
    /\ rows[j].proofs = {i \in Slots : receipts[i].state # "Free" /\ receipts[i].row = j}
    /\ rows[j].phase = "Free" <=> rows[j].ticket = "none" /\ rows[j].proofs = {}
    /\ rows[j].phase = "AwaitStore" => rows[j].ticket # "none"

\* A message is in delivery once, however many copies of it arrive.
OneRowEach == \A m \in Messages : Cardinality(Existing(m)) <= 1

\* A receipt the row of which is settled has left "Reserved", so that poll
\* offers it; a queued receipt has exactly one frame in the queue, which
\* alone can still retire it.
NoneStranded ==
  \A i \in Slots :
    LET mine == {k \in DOMAIN txQueue : txQueue[k] # Foreign /\ txQueue[k].slot = i /\ txQueue[k].gen = receipts[i].gen}
    IN /\ receipts[i].state = "Reserved" /\ receipts[i].row # NoRow => rows[receipts[i].row].phase = "AwaitStore"
       /\ receipts[i].state = "Queued" => Cardinality(mine) = 1
       /\ receipts[i].state \in {"Reserved", "Eligible"} => mine = {}

CreditsKept ==
  /\ Cardinality(Controls(receipts)) <= MaxControls
  /\ \A j \in Rows : Cardinality(rows[j].proofs) <= ReceiptsPerRow

\* The bookkeeping of rows, receipts and queued frames agrees.
Consistent == TypeOK /\ MasksAgree /\ OneRowEach /\ NoneStranded /\ CreditsKept

\* A proof of delivery goes on the air only for a message whose record is
\* durable (a reaction is never stored).  The sender stops repeating then.
ProofAfterStore ==
  event.what = "proof" /\ event.msg # NoMessage => event.msg \in stored \cup Reactions

\* Once a conversation is deleted, or delivery is stopped, nothing received
\* before is proved or announced any more: not by a frame the radio already
\* holds, a ticket answered afterwards, or a slot that was taken again.
SilentAfterDrop == ~event.revoked

\* After the stop every row and receipt comes free, which begin waits for.
StopDrains == ~accepting ~> (Drained \/ accepting)
=============================================================================
