----------------------------- MODULE LxmfEngine -----------------------------
(***************************************************************************)
(* Outgoing messages: the delivery engine                                  *)
(* (core/protocol/RustLxmfEngine.cpp) with the storage worker that saves   *)
(* the messages and their status, the transmit queue (TxQueue), and the    *)
(* sending half of the resource engine as far as it answers to a message.  *)
(*                                                                         *)
(* A message takes a row: it is saved, read back into the one workspace    *)
(* all rows share, sent, and waits for its proof; each change of status is *)
(* written to its record.  Cancellations, deletions and the stop come from *)
(* the clients at any moment, the store answers late, and the radio holds  *)
(* frames it may transmit long after they were queued.                     *)
(*                                                                         *)
(* A visit of a row by loop is an action, and so is the settlement of its  *)
(* ticket: the worker may answer between two rows.  Time is not followed:  *)
(* a proof may be overdue, and a retry due, at any visit.  One conversation*)
(* is modelled; rows of others only take room.  Routes and keys are left   *)
(* out: an attempt ends in any of the ways it can end.  Row generations    *)
(* are left out too: Consistent says that no frame and no ticket outlives  *)
(* its row, and then they agree.                                           *)
(***************************************************************************)
EXTENDS Naturals, Sequences, FiniteSets, TxQueue

CONSTANTS
  Rows,           \* 0 .. RowCount - 1
  NoRow,
  MaxRecords,     \* bound: the records of the conversation
  Loads           \* bound: what the devices looked at are used for (see load)

ASSUME EngineAssumption ==
  /\ IsFiniteSet(Rows) /\ Rows # {} /\ NoRow \notin Rows
  /\ MaxRecords \in Nat
  /\ \A l \in Loads : l.rows \in SUBSET Rows /\ l.attempts \in Nat \ {0} /\ l.pending \in 0 .. MaxRecords
                     /\ l.uses \subseteq {"cancel", "delete", "resource", "stop"}

VARIABLES
  rows,       \* _rows; history: aired, a frame of it was transmitted; proved, its proof was verified
  body,       \* _body.slot: the row that holds the workspace
  out,        \* RustResourceEngine::_out: the row whose resource is being sent
  accepting, recovering,
  cursor,     \* _recoveryCursor
  deletion,   \* the deletion of the conversation, between begin- and finishPeerDelete
  records,    \* the status each record has in the store, by counter
  jobs,       \* the tickets the worker has not executed, oldest first
  load,       \* bound: the rows there are, the attempts per message, the records at
              \* the start and which of "cancel", "delete", "resource" and "stop"
              \* occur; it never changes
  withdrawn,  \* history: the records not to be sent any more before the next begin
  astray      \* history: a frame was transmitted that should not have been

engine == <<rows, body, out, accepting, recovering, cursor>>
store == <<records, jobs, deletion>>
history == <<withdrawn, astray>>
vars == <<engine, store, history, radioVars, load>>

Phases == {"Free", "Saving", "Query", "Ready", "Reading", "AwaitProof", "Resource", "Grace", "Settled"}
Statuses == {"QUEUED", "SENDING", "SENT", "DELIVERED", "FAILED", "UNCONFIRMED"}
Flags == {"Acknowledged", "Suppressed", "DeletePending", "Deleted", "Blocked", "Recovered"}
Operations == {"CreateOutgoing", "UpdateStatus", "ReadPending", "ReadRecord"}
Answers == {"queued", "cancelQueued", "ok", "failed", "cancelled", "invalid", "foreign", "unsendable"}

NoTicket == [op |-> "none", answer |-> "none", rec |-> 0, status |-> "QUEUED"]
TicketFor(op, rec, status) == [op |-> op, answer |-> "queued", rec |-> rec, status |-> status]

\* ProofAttempts: packets sent before a message is given up as unconfirmed (3).
ProofAttempts == load.attempts

\* resource is the receipt variant of resource frames (3 in the code).
Resource == ProofAttempts

FreeRow ==
  [phase |-> "Free", rec |-> 0, flags |-> {}, initial |-> "none", ticket |-> NoTicket,
   desired |-> "QUEUED", durable |-> "QUEUED",
   attempts |-> 0, mask |-> {}, queued |-> 0, aired |-> FALSE, proved |-> FALSE]

NoDeletion == [state |-> "none", through |-> 0]

Init ==
  /\ load \in Loads
  /\ txQueue = <<>> /\ radio = "on"
  /\ rows = [r \in Rows |-> FreeRow] /\ body = NoRow /\ out = NoRow
  /\ accepting = FALSE /\ recovering = FALSE /\ cursor = 0
  /\ deletion = NoDeletion /\ jobs = <<>>
  /\ records \in UNION {[1 .. n -> {"QUEUED", "SENDING"}] : n \in 0 .. load.pending}
  /\ withdrawn = {} /\ astray = FALSE

----------------------------------------------------------------------------
(* Rows, receipts and status. *)

Used(r) == rows[r].phase # "Free"
Idle(r) == rows[r].ticket = NoTicket
Has(r, flag) == flag \in rows[r].flags

\* The rows of the conversation: a recovering row belongs to it only once its
\* record is known.
OfPeer(r) == Used(r) /\ (Has(r, "Recovered") => rows[r].rec # 0)

\* Faulty variant: any frame of a row in use goes out.
ReceiptLiveUsed(r, variant) == accepting /\ Used(r)

\* receiptHook, on Validate: asked by the radio right before it transmits.
ReceiptLive(r, variant) ==
  /\ accepting /\ Used(r)
  /\ rows[r].flags \cap {"Suppressed", "Deleted"} = {}
  /\ rows[r].desired # "DELIVERED"
  /\ variant \in rows[r].mask

Live == {f \in Frames : ReceiptLive(f.row, f.variant)}

CountOf(queue, r) == Cardinality({k \in DOMAIN queue : queue[k].row = r})

\* setStatus on a row: nothing follows a delivery, and a delivery ends the row.
WithStatus(v, status) ==
  IF "Deleted" \in v.flags \/ v.desired = "DELIVERED" THEN v
  ELSE IF status = "DELIVERED" THEN [v EXCEPT !.desired = status, !.mask = {}, !.phase = "Settled"]
  ELSE [v EXCEPT !.desired = status]

\* Faulty variant: the workspace stays with a row whose read came to nothing.
ReleasedNever(held, r) == held

\* releaseBody, and cancelSend.
Released(held, r) == IF held = r THEN NoRow ELSE held

\* A frame of row v went out.
OnAir(v) == [WithStatus(v, "SENT") EXCEPT !.aired = TRUE]

\* cancel on a row: a save or a recovery query still has to be answered.
Cancelled(v) ==
  [v EXCEPT !.flags = @ \cup {"Suppressed"}, !.mask = {},
            !.phase = IF v.ticket = NoTicket \/ v.phase \notin {"Saving", "Query"} THEN "Settled" ELSE @,
            !.ticket.answer = IF v.ticket.op \notin {"none", "UpdateStatus"} /\ @ = "queued" THEN "cancelQueued" ELSE @]

\* History: transmitting frame f now would be wrong.
Wrong(f) ==
  \/ ~accepting \/ f.rec = 0 \/ f.rec \in withdrawn \/ records[f.rec] = "gone"
  \/ rows[f.row].rec # f.rec \/ rows[f.row].proved
Transmitted(f) == astray' = (astray \/ Wrong(f))
NothingSent == UNCHANGED astray

\* allocate: a free row, or one that only waits for a late proof.
Reclaimable(r) ==
  /\ rows[r].phase = "Grace" /\ Has(r, "Acknowledged") /\ Idle(r)
  /\ rows[r].queued = 0 /\ rows[r].desired = rows[r].durable
Allocable(r) == r \in load.rows /\ (~Used(r) \/ (Reclaimable(r) /\ \A q \in load.rows : Used(q)))

Request(r, job) == jobs' = Append(jobs, job) /\ UNCHANGED <<records, deletion>>

\* submit refuses a conversation that is being deleted, and so does the store
\* until the deletion is settled (not the first query, which names no peer).
Fenced == deletion.state = "queued"
Creating == {r \in Rows : rows[r].ticket.op = "CreateOutgoing"}
RecordsLeft == Len(records) + Cardinality(Creating) < MaxRecords

----------------------------------------------------------------------------
(* The clients. *)

Drained == deletion = NoDeletion /\ body = NoRow /\ \A r \in Rows : ~Used(r)

\* drainError, at the moment a status update fails (the error stays with the
\* row until an update succeeds, which is not followed).
DrainError == \E r \in Rows : rows[r].ticket.op = "UpdateStatus" /\ rows[r].ticket.answer = "failed" /\ ~Has(r, "Deleted")

Begin ==
  /\ ~accepting /\ Drained
  /\ accepting' = TRUE /\ recovering' = TRUE /\ cursor' = 0
  /\ withdrawn' = {}
  /\ NothingSent
  /\ UNCHANGED <<load, rows, body, out, store, radioVars>>

Submit(r) ==
  /\ accepting /\ ~recovering /\ deletion = NoDeletion /\ RecordsLeft /\ Allocable(r)
  /\ \/ /\ rows' = [rows EXCEPT ![r] = [FreeRow EXCEPT !.phase = "Saving", !.initial = "pending",
                                          !.ticket = TicketFor("CreateOutgoing", 0, "QUEUED")]]
        /\ Request(r, r)
     \* the store has no room; a reclaimed row is gone all the same
     \/ rows' = [rows EXCEPT ![r] = FreeRow] /\ UNCHANGED store
  /\ NothingSent
  /\ UNCHANGED <<load, body, out, accepting, recovering, cursor, withdrawn, radioVars>>

\* The client has read the result of the save.
Acknowledge(r) ==
  /\ rows[r].initial \notin {"none", "pending"} /\ ~Has(r, "Acknowledged")
  /\ rows' = [rows EXCEPT ![r].flags = @ \cup {"Acknowledged"}, ![r].initial = "none"]
  /\ NothingSent
  /\ UNCHANGED <<load, body, out, accepting, recovering, cursor, store, withdrawn, radioVars>>

RecordsOf(gone) == {rows[r].rec : r \in gone} \ {0}

\* cancel on several rows.
CancelRows(gone, flag) ==
  /\ rows' = [r \in Rows |-> IF r \in gone THEN [Cancelled(rows[r]) EXCEPT !.flags = @ \cup flag] ELSE rows[r]]
  /\ body' = IF body \in gone THEN NoRow ELSE body
  /\ out' = IF out \in gone THEN NoRow ELSE out
  /\ withdrawn' = withdrawn \cup RecordsOf(gone)

\* DeviceService cancels a send whose result it has not yet acknowledged.
Cancel(r) ==
  /\ "cancel" \in load.uses
  /\ Used(r) /\ rows[r].initial # "none" /\ ~Has(r, "Acknowledged") /\ ~Has(r, "Suppressed")
  /\ CancelRows({r}, {})
  /\ NothingSent
  /\ UNCHANGED <<load, accepting, recovering, cursor, store, radioVars>>

\* DeviceService, DeleteConversation: the rows are cancelled, then the store
\* takes the request or refuses it, which ends the deletion at once.
BeginPeerDelete ==
  /\ "delete" \in load.uses
  /\ accepting /\ deletion = NoDeletion
  /\ \E taken \in BOOLEAN :
       /\ CancelRows({r \in Rows : OfPeer(r)}, IF taken THEN {"DeletePending"} ELSE {})
       /\ IF taken THEN jobs' = Append(jobs, NoRow) /\ deletion' = [state |-> "queued", through |-> 0]
          ELSE UNCHANGED <<jobs, deletion>>
  /\ NothingSent
  /\ UNCHANGED <<load, accepting, recovering, cursor, records, radioVars>>

\* A row the deletion reached will never be written again.
MarkDeleted(v) ==
  IF deletion.state = "ok" /\ v.rec <= deletion.through
  THEN [v EXCEPT !.flags = (@ \ {"DeletePending"}) \cup {"Deleted"}]
  ELSE [v EXCEPT !.flags = @ \ {"DeletePending"}]

FinishPeerDelete ==
  /\ deletion.state \in {"ok", "failed"}
  /\ rows' = [r \in Rows |-> IF OfPeer(r) /\ Has(r, "DeletePending") THEN MarkDeleted(rows[r]) ELSE rows[r]]
  /\ deletion' = NoDeletion
  /\ NothingSent
  /\ UNCHANGED <<load, body, out, accepting, recovering, cursor, records, jobs, withdrawn, radioVars>>

\* A saved interrupted attempt stays restartable.
Stopped(v) == Cancelled(IF v.desired = "SENT" THEN WithStatus(v, "QUEUED") ELSE v)

StopAdmissions ==
  /\ accepting /\ "stop" \in load.uses
  /\ accepting' = FALSE /\ recovering' = FALSE
  /\ rows' = [r \in Rows |-> IF Used(r) THEN Stopped(rows[r]) ELSE rows[r]]
  /\ body' = NoRow /\ out' = NoRow
  /\ withdrawn' = withdrawn \cup RecordsOf(Rows)
  /\ NothingSent
  /\ UNCHANGED <<load, cursor, store, radioVars>>

----------------------------------------------------------------------------
(* The store. *)

NextPending == {c \in DOMAIN records : c > cursor /\ records[c] \in {"QUEUED", "SENDING"}}
Present(c) == c \in DOMAIN records /\ records[c] # "gone"

Answer(r, answer, rec, status) ==
  rows' = [rows EXCEPT ![r].ticket = [@ EXCEPT !.answer = answer, !.rec = rec, !.status = status]]

\* The worker executes the oldest ticket: MessageTransactions::execute.
ExecuteFor(r) ==
  LET t == rows[r].ticket IN
  /\ UNCHANGED deletion
  /\ \/ t.answer = "cancelQueued" /\ Answer(r, "cancelled", t.rec, t.status) /\ UNCHANGED records
     \/ t.answer = "queued" /\ Answer(r, "failed", t.rec, t.status) /\ UNCHANGED records
     \/ /\ t.answer = "queued" /\ t.op = "CreateOutgoing"
        /\ records' = Append(records, "QUEUED")
        /\ Answer(r, "ok", Len(records) + 1, "QUEUED")
     \/ /\ t.answer = "queued" /\ t.op = "UpdateStatus" /\ Present(t.rec)
        /\ records[t.rec] \in {t.status} \cup (Statuses \ {"DELIVERED"})
        /\ records' = [records EXCEPT ![t.rec] = t.status]
        /\ Answer(r, "ok", t.rec, t.status)
     \/ /\ t.answer = "queued" /\ t.op = "ReadPending"
        /\ IF NextPending = {} THEN Answer(r, "ok", 0, "QUEUED")
           ELSE \E answer \in {"ok", "invalid", "unsendable"} :
                  LET c == CHOOSE c \in NextPending : \A d \in NextPending : c <= d
                  IN Answer(r, answer, c, records[c])
        /\ UNCHANGED records
     \/ /\ t.answer = "queued" /\ t.op = "ReadRecord" /\ Present(t.rec)
        /\ \E answer \in {"ok", "invalid", "foreign"} : Answer(r, answer, t.rec, t.status)
        /\ UNCHANGED records

ExecuteDeletion ==
  /\ \/ /\ deletion' = [state |-> "ok", through |-> Len(records)]
        /\ records' = [c \in DOMAIN records |-> "gone"]
     \/ deletion' = [state |-> "failed", through |-> 0] /\ UNCHANGED records
  /\ UNCHANGED rows

StoreExecute ==
  /\ jobs # <<>> /\ jobs' = Tail(jobs)
  /\ IF Head(jobs) = NoRow THEN ExecuteDeletion ELSE ExecuteFor(Head(jobs))
  /\ NothingSent
  /\ UNCHANGED <<load, body, out, accepting, recovering, cursor, withdrawn, radioVars>>

----------------------------------------------------------------------------
(* settleStorage, by the operation the ticket was for. *)

Blocked(v) == [v EXCEPT !.flags = @ \cup {"Suppressed", "Blocked"}, !.phase = "Settled"]

SettledCreate(v, t) ==
  IF t.answer = "ok"
  THEN [v EXCEPT !.initial = "committed", !.rec = t.rec, !.durable = t.status,
                 !.phase = IF "Suppressed" \in v.flags THEN "Settled" ELSE "Ready"]
  ELSE [v EXCEPT !.initial = IF t.answer = "cancelled" THEN "cancelled" ELSE "failed", !.phase = "Settled"]

SettledStatus(v, t) == IF t.answer = "ok" THEN [v EXCEPT !.durable = t.status] ELSE v

\* A record already in delivery is not taken up a second time.
InDelivery(c) == \E r \in Rows : Used(r) /\ rows[r].rec = c

SettledPending(v, t) ==
  IF ~recovering \/ "Suppressed" \in v.flags THEN [v EXCEPT !.phase = "Settled"]
  ELSE IF t.answer = "failed" THEN v
  ELSE IF t.rec = 0 \/ t.answer = "invalid" \/ InDelivery(t.rec) THEN [v EXCEPT !.phase = "Settled"]
  ELSE LET found == [v EXCEPT !.rec = t.rec, !.durable = t.status, !.desired = "QUEUED", !.phase = "Ready"]
       IN IF t.answer = "ok" THEN found ELSE WithStatus(Blocked(found), "FAILED")

SettledRead(v, t) ==
  IF "Suppressed" \in v.flags \/ v.desired = "DELIVERED" THEN [v EXCEPT !.phase = "Settled"]
  ELSE IF t.answer \in {"failed", "cancelled"} THEN [v EXCEPT !.phase = "Ready"]
  ELSE IF t.answer = "foreign" THEN [Blocked(v) EXCEPT !.mask = {}, !.attempts = 0, !.desired = v.durable]
  ELSE IF t.answer = "invalid" THEN WithStatus(Blocked(v), "FAILED")
  ELSE [v EXCEPT !.phase = "Reading"]

Settled(v, t) ==
  CASE t.op = "CreateOutgoing" -> SettledCreate(v, t)
    [] t.op = "UpdateStatus" -> SettledStatus(v, t)
    [] t.op = "ReadPending" -> SettledPending(v, t)
    [] t.op = "ReadRecord" -> SettledRead(v, t)

SettleStorage(r) ==
  LET t == rows[r].ticket
      v == Settled([rows[r] EXCEPT !.ticket = NoTicket], t)
      found == t.op = "ReadPending" /\ recovering /\ ~Has(r, "Suppressed") /\ t.answer # "failed"
  IN
  /\ t.op # "none" /\ t.answer \notin {"queued", "cancelQueued"}
  /\ rows' = [rows EXCEPT ![r] = v]
  /\ body' = IF t.op = "ReadRecord" /\ v.phase # "Reading" THEN Released(body, r) ELSE body
  /\ cursor' = IF found /\ t.rec # 0 THEN t.rec ELSE cursor
  /\ recovering' = (recovering /\ ~(found /\ t.rec = 0))
  /\ withdrawn' = IF "Suppressed" \in v.flags /\ v.rec # 0 THEN withdrawn \cup {v.rec} ELSE withdrawn
  /\ NothingSent
  /\ UNCHANGED <<load, out, accepting, store, radioVars>>

----------------------------------------------------------------------------
(* The frames of a message. *)

\* What the hook is told of the frames that left the queue in this step.
Left(r, new) == CountOf(txQueue, r) + new - CountOf(txQueue', r)

\* Faulty variant: a queued frame counts as sent.
OfferedSent(rs, r, offer) ==
  [q \in Rows |->
     LET new == IF q = r /\ offer = "Queued" THEN 1 ELSE 0
         v == [rs[q] EXCEPT !.queued = @ + new - Left(q, new)]
     IN IF q = r /\ offer = "Started" THEN OnAir(v)
        ELSE IF q = r /\ offer = "Queued" THEN WithStatus(v, "SENT") ELSE v]

\* offerReceipt on the LoRa interface, for row r: the receipt is counted before
\* the offer, given back by the row if the frame was blocked, and by the hook
\* in every other case but a queued frame.
Offered(rs, r, offer) ==
  [q \in Rows |->
     LET new == IF q = r /\ offer = "Queued" THEN 1 ELSE 0
         v == [rs[q] EXCEPT !.queued = @ + new - Left(q, new)]
     IN IF q = r /\ offer = "Started" THEN OnAir(v) ELSE v]

FrameOf(r, variant) == [row |-> r, variant |-> variant, rec |-> rows[r].rec]

\* The receipts of dead frames may also be dropped for their age.
Aging == SUBSET Live

\* An attempt, and what it is when every interface refused it.
Prepared(v) == [v EXCEPT !.attempts = @ + 1, !.mask = @ \cup {v.attempts}, !.phase = "AwaitProof"]
TakenBack(v, attempt) == [v EXCEPT !.attempts = attempt, !.mask = @ \ {attempt}, !.phase = "Ready"]

\* offerPrepared: the LoRa interface and the others that can reach the peer,
\* all of which must refuse for the attempt to be taken back.  An interface
\* other than LoRa transmits or refuses at once.
OfferPrepared(r, v) ==
  \E live \in Aging, offer \in {"none", "Blocked", "Started", "Queued"}, net \in {"none", "Started"} :
    LET start == [rows EXCEPT ![r] = Prepared(v)]
        lora == IF offer = "none" THEN start ELSE Offered(start, r, offer)
        both == IF net = "Started" THEN [lora EXCEPT ![r] = OnAir(@)] ELSE lora
        accepted == offer \in {"Started", "Queued"} \/ net = "Started"
    IN
    /\ IF offer = "none" THEN UNCHANGED radioVars ELSE Offer(FrameOf(r, v.attempts), live, offer)
    /\ rows' = IF accepted THEN both ELSE [both EXCEPT ![r] = TakenBack(@, v.attempts)]
    /\ IF "Started" \in {offer, net} THEN Transmitted(FrameOf(r, v.attempts)) ELSE NothingSent

\* startSend: the advertisement is the first frame of a resource.
StartResource(r, v) ==
  /\ out = NoRow /\ "resource" \in load.uses
  /\ \E live \in Aging, offer \in {"Blocked", "Started", "Queued"} :
       LET sent == offer \in {"Started", "Queued"}
           sending == [v EXCEPT !.phase = IF sent THEN "Resource" ELSE "Ready", !.mask = @ \cup {Resource}]
       IN
       /\ Offer(FrameOf(r, Resource), live, offer)
       /\ rows' = Offered([rows EXCEPT ![r] = sending], r, offer)
       /\ out' = IF sent THEN r ELSE NoRow
       /\ IF offer = "Started" THEN Transmitted(FrameOf(r, Resource)) ELSE NothingSent

\* finishRouteFailure, or an attempt that cannot be made at all.
RouteFailed(v) ==
  IF v.attempts > 0 THEN WithStatus([v EXCEPT !.phase = "Grace"], "UNCONFIRMED")
  ELSE WithStatus([v EXCEPT !.phase = "Settled"], "FAILED")
Impossible(v) == WithStatus([v EXCEPT !.phase = "Settled"], "FAILED")

\* attempt, with the text in the workspace.  A packet is not prepared past
\* the last attempt; everything else gives the workspace back.
Attempt(r, v) ==
  /\ v.phase = "Reading" /\ body = r
  /\ \/ /\ body' = NoRow /\ UNCHANGED <<out, radioVars>> /\ NothingSent
        /\ \E w \in {[v EXCEPT !.phase = "Ready"], RouteFailed(v), Impossible(v)} : rows' = [rows EXCEPT ![r] = w]
     \/ body' = NoRow /\ StartResource(r, v)
     \/ /\ v.attempts < ProofAttempts
        /\ body' = NoRow /\ OfferPrepared(r, v) /\ UNCHANGED out
  /\ UNCHANGED <<recovering, cursor, store>>

----------------------------------------------------------------------------
(* loop. *)

\* Faulty variant: a row with frames in the queue may go.
MayRetireQueued(r) ==
  /\ rows[r].phase = "Settled" /\ Has(r, "Acknowledged")
  /\ ~(accepting /\ Has(r, "Blocked") /\ ~Has(r, "Recovered"))
  /\ ~Has(r, "DeletePending")
  /\ rows[r].desired = rows[r].durable \/ Has(r, "Deleted") \/ rows[r].rec = 0

\* Faulty variant: a row waits for its last status although the record is gone.
MayRetireSaved(r) ==
  /\ rows[r].phase = "Settled" /\ Has(r, "Acknowledged") /\ rows[r].queued = 0
  /\ ~(accepting /\ Has(r, "Blocked") /\ ~Has(r, "Recovered"))
  /\ ~Has(r, "DeletePending")
  /\ rows[r].desired = rows[r].durable

MayRetire(r) ==
  /\ rows[r].phase = "Settled" /\ Has(r, "Acknowledged") /\ rows[r].queued = 0
  /\ ~(accepting /\ Has(r, "Blocked") /\ ~Has(r, "Recovered"))
  /\ ~Has(r, "DeletePending")
  /\ rows[r].desired = rows[r].durable \/ Has(r, "Deleted") \/ rows[r].rec = 0

\* The proof is overdue: another attempt, or none.
Overdue(v) ==
  IF v.attempts >= ProofAttempts THEN WithStatus([v EXCEPT !.phase = "Grace"], "UNCONFIRMED")
  ELSE WithStatus([v EXCEPT !.phase = "Ready"], "QUEUED")

Aged(v) ==
  {v} \cup (IF v.phase = "AwaitProof" THEN {Overdue(v)} ELSE {})
      \cup (IF v.phase = "Grace" THEN {[v EXCEPT !.phase = "Settled"]} ELSE {})

\* Status updates share one slot of the store.
UpdateSlotFree == \A r \in Rows : rows[r].ticket.op # "UpdateStatus"

StatusUpdate(r, v) ==
  /\ v.rec # 0 /\ v.desired # v.durable /\ v.flags \cap {"Deleted", "DeletePending"} = {}
  /\ UpdateSlotFree /\ ~Fenced
  /\ rows' = [rows EXCEPT ![r] = [v EXCEPT !.ticket = TicketFor("UpdateStatus", v.rec, v.desired)]]
  /\ Request(r, r)
  /\ UNCHANGED <<body, out, recovering, cursor, radioVars>> /\ NothingSent

Query(r, v) ==
  /\ v.phase = "Query" /\ ~(Fenced /\ cursor # 0)
  /\ rows' = [rows EXCEPT ![r].ticket = TicketFor("ReadPending", cursor, "QUEUED")]
  /\ Request(r, r)
  /\ UNCHANGED <<body, out, recovering, cursor, radioVars>> /\ NothingSent

Read(r, v) ==
  /\ v.phase = "Ready" /\ body = NoRow /\ ~Fenced
  /\ body' = r
  /\ rows' = [rows EXCEPT ![r] = [v EXCEPT !.phase = "Reading", !.ticket = TicketFor("ReadRecord", v.rec, "QUEUED")]]
  /\ Request(r, r)
  /\ UNCHANGED <<out, recovering, cursor, radioVars>> /\ NothingSent

\* advance.  A status update comes before anything else the row may need.
Advance(r) ==
  /\ Used(r) /\ Idle(r)
  /\ IF MayRetire(r)
     THEN /\ rows' = [rows EXCEPT ![r] = FreeRow] /\ body' = Released(body, r)
          /\ UNCHANGED <<out, recovering, cursor, store, radioVars>> /\ NothingSent
     ELSE \E v \in Aged(rows[r]) :
            \/ StatusUpdate(r, v)
            \/ /\ v # rows[r] /\ rows' = [rows EXCEPT ![r] = v]
               /\ UNCHANGED <<body, out, recovering, cursor, store, radioVars>> /\ NothingSent
            \/ "Suppressed" \notin v.flags /\ Query(r, v)
            \/ "Suppressed" \notin v.flags /\ accepting /\ (Read(r, v) \/ Attempt(r, v))
  /\ UNCHANGED <<load, accepting, withdrawn>>

\* The end of loop: while recovering, one row at a time asks for the next
\* record that was left unsent.
Recover(r) ==
  /\ accepting /\ recovering /\ (\A q \in Rows : rows[q].phase # "Query") /\ Allocable(r)
  /\ rows' = [rows EXCEPT ![r] = [FreeRow EXCEPT !.phase = "Query", !.flags = {"Acknowledged", "Recovered"}]]
  /\ NothingSent
  /\ UNCHANGED <<load, body, out, accepting, recovering, cursor, store, withdrawn, radioVars>>

----------------------------------------------------------------------------
(* The network and the radio. *)

Delivered(r, v) ==
  /\ rows' = [rows EXCEPT ![r] = [WithStatus(v, "DELIVERED") EXCEPT !.proved = TRUE]]
  /\ body' = Released(body, r) /\ out' = Released(out, r)

\* onProofFrame: the proof of a packet that was transmitted.
OnProof(r) ==
  /\ rows[r].aired /\ rows[r].attempts > 0 /\ Used(r)
  /\ rows[r].flags \cap {"Deleted", "DeletePending"} = {} /\ rows[r].desired # "DELIVERED"
  /\ Delivered(r, rows[r])
  /\ NothingSent
  /\ UNCHANGED <<load, accepting, recovering, cursor, store, withdrawn, radioVars>>

\* offerResource, for a part or a repeated advertisement.
SendPart(r) ==
  /\ out = r /\ rows[r].phase = "Resource" /\ accepting /\ ~Has(r, "Suppressed")
  /\ \E live \in Aging, offer \in {"Blocked", "Started", "Queued"} :
       /\ Offer(FrameOf(r, Resource), live, offer)
       /\ rows' = Offered([rows EXCEPT ![r].mask = @ \cup {Resource}], r, offer)
       /\ IF offer = "Started" THEN Transmitted(FrameOf(r, Resource)) ELSE NothingSent
  /\ UNCHANGED <<load, body, out, accepting, recovering, cursor, store, withdrawn>>

\* onResourceOutcome.
ResourceOutcome(r) ==
  /\ out = r /\ rows[r].phase = "Resource"
  /\ LET v == [rows[r] EXCEPT !.mask = @ \ {Resource}, !.phase = "Settled"] IN
     \/ rows[r].aired /\ Delivered(r, v)
     \/ rows' = [rows EXCEPT ![r] = WithStatus(v, "FAILED")] /\ out' = NoRow /\ UNCHANGED body
  /\ NothingSent
  /\ UNCHANGED <<load, accepting, recovering, cursor, store, withdrawn, radioVars>>

\* The hook, for the frames that leave the queue without an offer.
Hooked(rs) == [q \in Rows |-> [rs[q] EXCEPT !.queued = @ - Left(q, 0)]]

Transmit ==
  \E live \in Aging, frame \in Frames :
    /\ DrainTx(live, frame)
    /\ rows' = Hooked([rows EXCEPT ![frame.row] = OnAir(@)])
    /\ Transmitted(frame)
    /\ UNCHANGED <<load, body, out, accepting, recovering, cursor, store, withdrawn>>

Discard ==
  /\ \E live \in Aging : DiscardExpired(live)
  /\ rows' = Hooked(rows)
  /\ NothingSent
  /\ UNCHANGED <<load, body, out, accepting, recovering, cursor, store, withdrawn>>

\* The interface is stopped and started again: every frame is dropped.
RadioRestart ==
  /\ txQueue' = <<>> /\ UNCHANGED radio
  /\ rows' = Hooked(rows)
  /\ NothingSent
  /\ UNCHANGED <<load, body, out, accepting, recovering, cursor, store, withdrawn>>

----------------------------------------------------------------------------
Next ==
  \/ Begin \/ StopAdmissions \/ BeginPeerDelete \/ FinishPeerDelete \/ StoreExecute
  \/ \E r \in Rows :
       \/ Submit(r) \/ Acknowledge(r) \/ Cancel(r) \/ SettleStorage(r) \/ Advance(r) \/ Recover(r)
       \/ OnProof(r) \/ SendPart(r) \/ ResourceOutcome(r)
  \/ Transmit \/ Discard \/ RadioRestart

\* The worker answers, the owner loops, the device service reads the results,
\* and a frame in the queue is transmitted or dropped.
Fairness ==
  /\ WF_vars(StoreExecute) /\ WF_vars(FinishPeerDelete) /\ WF_vars(Discard)
  /\ \A r \in Rows : WF_vars(SettleStorage(r)) /\ WF_vars(Advance(r)) /\ WF_vars(Acknowledge(r))

\* loop visits the rows in turn, from where the last round ended: between two
\* reads of one row every other is visited, with the workspace free.
Turn(r) == Cardinality(load.rows) > 1 /\ Advance(r) /\ body' # body
FairTurns == \A r \in Rows : SF_vars(Turn(r))

Spec == Init /\ [][Next]_vars /\ Fairness /\ FairTurns

----------------------------------------------------------------------------
(* Properties. *)

TypeOK ==
  /\ rows \in [Rows -> [phase : Phases, rec : 0 .. MaxRecords, flags : SUBSET Flags,
                        initial : {"none", "pending", "committed", "failed", "cancelled"},
                        ticket : [op : Operations \cup {"none"}, answer : Answers \cup {"none"},
                                  rec : 0 .. MaxRecords, status : Statuses],
                        desired : Statuses, durable : Statuses,
                        attempts : 0 .. ProofAttempts, mask : SUBSET (0 .. Resource),
                        queued : Nat, aired : BOOLEAN, proved : BOOLEAN]]
  /\ {body, out} \subseteq Rows \cup {NoRow}
  /\ accepting \in BOOLEAN /\ recovering \in BOOLEAN /\ cursor \in 0 .. MaxRecords

\* Every receipt a row counts has a frame in the queue, and the other way
\* round: no frame outlives its row.
ReceiptsAgree == \A r \in Rows : rows[r].queued = CountOf(txQueue, r) /\ (~Used(r) => rows[r] = FreeRow)

\* One ticket of each row is with the store, in the order of the requests.
TicketsAgree ==
  \A r \in Rows : Cardinality({k \in DOMAIN jobs : jobs[k] = r})
                    = IF rows[r].ticket.answer \in {"queued", "cancelQueued"} THEN 1 ELSE 0

\* The workspace belongs to the row that reads, and to no row that has gone
\* on without it, and every attempt that is due can be made.
WorkspaceHeld ==
  /\ \A r \in Rows : body = r <=> rows[r].phase = "Reading"
  /\ \A r \in Rows : rows[r].phase \in {"Ready", "Reading"} => rows[r].attempts < ProofAttempts
  /\ out # NoRow <=> \E r \in Rows : rows[r].phase = "Resource"
  /\ out # NoRow => rows[out].phase = "Resource"

\* A record is delivered by one row, which knows its durable status, but for
\* the update that is on its way and the deletion that took the record away.
RecordsAgree ==
  \A r \in Rows :
    rows[r].rec # 0 =>
      /\ \A q \in Rows \ {r} : rows[q].rec # rows[r].rec
      /\ records[rows[r].rec] \in {rows[r].durable, "gone"} \/ rows[r].ticket.op = "UpdateStatus"

\* The rows, the workspace, the tickets, the queue and the records agree.
Consistent == TypeOK /\ ReceiptsAgree /\ TicketsAgree /\ WorkspaceHeld /\ RecordsAgree

\* What a status says is so, in the row, on its way to the store and in the
\* store: sent means that transmission started, delivered that the proof was
\* verified; and a message reported as saved has a record.
Truthful(v, status) == (status = "SENT" => v.aired) /\ (status = "DELIVERED" => v.proved)
TruthfulStatus ==
  \A r \in Rows :
    /\ Truthful(rows[r], rows[r].desired) /\ Truthful(rows[r], rows[r].durable)
    /\ rows[r].rec # 0 => Truthful(rows[r], records[rows[r].rec])
    /\ rows[r].initial = "committed" \/ rows[r].aired => rows[r].rec \in DOMAIN records

\* Nothing is transmitted of a message that was cancelled, deleted, already
\* delivered or not saved, nor anything after the stop, though the radio may
\* hold its frames and the store its tickets from before.
SilentWhenWithdrawn == ~astray

\* After the stop the engine drains, or says that the store refuses a status:
\* the maintenance barrier never waits for it in vain.
StopResolves == ~accepting ~> (Drained \/ DrainError \/ accepting)

\* A message that is ready, with its last status saved, gets the workspace
\* sooner or later, however often the attempts and the reads of the others
\* fail.
Waiting(r) ==
  /\ accepting /\ rows[r].phase = "Ready" /\ ~Has(r, "Suppressed")
  /\ rows[r].desired = rows[r].durable
EveryMessageTried == \A r \in Rows : Waiting(r) ~> ~Waiting(r)
=============================================================================
