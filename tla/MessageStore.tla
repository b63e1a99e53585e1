---------------------------- MODULE MessageStore ----------------------------
(***************************************************************************)
(* The owner's side of message storage (core/storage/MessageStore.cpp and  *)
(* MessageStoreTransactions.cpp) on top of the WriteQueue executor: the    *)
(* running totals of conversations and unread messages, which are only     *)
(* ever adjusted by the deltas of settled results; the order in which      *)
(* results are settled; and the fence that keeps requests for a peer out   *)
(* while a deletion of that peer's conversation is pending.                *)
(*                                                                         *)
(* The executor is the message store on the media, reduced to how many     *)
(* records and how many unread records each conversation has.              *)
(***************************************************************************)
EXTENDS WriteQueue, Integers, FiniteSets

CONSTANTS
  Peers,       \* the peers of the conversations; requests have a field peer
  Stored,      \* what the media may hold at start: [records, unread] of each peer
  TrimLimit    \* how many records of a conversation a trim keeps

\* What a transaction may report.
Reports == [outcome : {"Committed", "Failed"}, conversationDelta : -1 .. 1,
            unreadDelta : Int, duplicate : BOOLEAN]

ASSUME PeersAssumption ==
  /\ IsFiniteSet(Peers) /\ Peers # {}
  /\ \A r \in Requests : r.peer \in Peers
ASSUME TrimLimitAssumption == TrimLimit \in Nat \ {0}
ASSUME StoredAssumption ==
  \A held \in Stored : \A p \in Peers : held[p].records \in Nat /\ held[p].unread \in 0 .. held[p].records

VARIABLES
  records,            \* records[p]: how many records of p the media hold
  unread,             \* unread[p]: how many of them are incoming and not read
  settledThrough,     \* _settledThrough
  fence,              \* _deleteFence: the ticket of a pending deletion, or 0
  fencedPeer,         \* _fencedPeer
  totalConversations, \* _totalConversations
  totalUnread,        \* _totalUnread
  historyRevision,    \* _historyRevision
  scanAt,             \* nextReady's loop index, EndOfScan, or NotPolling
  scanFirst           \* nextReady's first: the oldest slot seen, or NoSlot

mediaVars == <<records, unread>>
totals == <<totalConversations, totalUnread, historyRevision>>
fenceVars == <<fence, fencedPeer>>
scanVars == <<scanAt, scanFirst>>
storeVars == <<mediaVars, settledThrough, fenceVars, totals, scanVars>>
allVars == <<vars, storeVars>>

EndOfScan == NumNormal + 2
NotPolling == NumNormal + 3
NoSlot == NumNormal + 2

Reads == {"ReadRecord", "ReadPending", "ReadHistoryPage", "ReadConversationPage", "ReadConversation"}
Creates == {"CreateIncoming", "CreateOutgoing"}

\* The sum of what a function gives, of counts and of differences.
Sum(counts) == Cardinality(UNION {{x} \X (1 .. counts[x]) : x \in DOMAIN counts})
Net(deltas) == Sum(deltas) - Sum([x \in DOMAIN deltas |-> -deltas[x]])

Conversations(counts) == Cardinality({p \in Peers : counts[p] > 0})

Result(outcome, conversations, reads, duplicate) ==
  [outcome |-> outcome, conversationDelta |-> conversations,
   unreadDelta |-> reads, duplicate |-> duplicate]
Failure == Result("Failed", 0, 0, FALSE)
Success(conversations, reads) == Result("Committed", conversations, reads, FALSE)
-----------------------------------------------------------------------------
StoreInit ==
  /\ Init
  /\ \E held \in Stored :
       /\ records = [p \in Peers |-> held[p].records]
       /\ unread = [p \in Peers |-> held[p].unread]
  /\ settledThrough = 0
  /\ fence = 0
  /\ fencedPeer \in {CHOOSE p \in Peers : TRUE}
  /\ totalConversations = 0
  /\ totalUnread = 0
  /\ historyRevision = 0
  /\ scanAt = NotPolling
  /\ scanFirst = NoSlot

\* The owner is in none of nextReady's loads: it may start another call.
OwnerFree == scanAt = NotPolling

\* begin loads the totals from the media (loadStartupMetadata) and then starts
\* the executor, with a worker task (STORAGE_DEFERRED_IO).
StoreBegin ==
  /\ OwnerFree
  /\ Begin /\ deferred'
  /\ totalConversations' = Conversations(records)
  /\ totalUnread' = Sum(unread)
  /\ UNCHANGED <<mediaVars, settledThrough, fenceVars, historyRevision, scanVars>>

\* Faulty variant: only saves are held back while a deletion is pending.
FencedForSaves(r) == fence # 0 /\ fencedPeer = r.peer /\ r.op \in Creates
Fenced(r) == fence # 0 /\ fencedPeer = r.peer

\* submit: a request for the fenced peer is refused; an accepted deletion
\* raises the fence.
StoreSubmit(r, s) ==
  /\ OwnerFree
  /\ ~Fenced(r)
  /\ Submit(r, s)
  /\ IF r.op = "DeleteConversation" /\ HasCredit
       THEN fence' = nextSequence + 1 /\ fencedPeer' = r.peer
       ELSE UNCHANGED fenceVars
  /\ UNCHANGED <<mediaVars, settledThrough, totals, scanVars>>

StoreCancel(s, t) ==
  /\ OwnerFree
  /\ CancelRequest(s, t)
  /\ UNCHANGED storeVars

\* Faulty variant: a result may be taken before it is settled.
MayTakeUnsettled(t) == TRUE
\* peekResult, readPayload and releaseResult show a client only settled tickets.
MayTake(t) == t <= settledThrough

StoreRelease(s, t) ==
  /\ OwnerFree
  /\ MayTake(t)
  /\ Release(s, t)
  /\ UNCHANGED storeVars

StoreRequestStop ==
  /\ OwnerFree
  /\ RequestStop
  /\ UNCHANGED storeVars
-----------------------------------------------------------------------------
(* What the transactions of MessageTransactions::execute do to the counts, *)
(* and the deltas they report.                                             *)

Changed(p, count, new, res) ==
  /\ records' = [records EXCEPT ![p] = count]
  /\ unread' = [unread EXCEPT ![p] = new]
  /\ WorkerExecute(res)

Transaction(r) ==
  LET p == r.peer IN
  \/ Changed(p, records[p], unread[p], Failure)
  \/ /\ r.op \in Creates
     /\ LET new == IF r.op = "CreateIncoming" THEN 1 ELSE 0 IN
        Changed(p, records[p] + 1, unread[p] + new,
                Success(IF records[p] = 0 THEN 1 ELSE 0, new))
  \/ /\ r.op = "CreateIncoming"  \* its messageId is already stored
     /\ records[p] > 0
     /\ Changed(p, records[p], unread[p], Result("Committed", 0, 0, TRUE))
  \/ /\ r.op = "DeleteConversation"
     /\ Changed(p, 0, 0, Success(IF records[p] > 0 THEN -1 ELSE 0, -unread[p]))
  \/ /\ r.op = "MarkRead"  \* any record of the batch may fail
     /\ \E k \in 0 .. unread[p] : Changed(p, records[p], unread[p] - k, Success(0, -k))
  \/ /\ r.op = "Trim"      \* only records above the limit are dropped
     /\ \E n \in 0 .. records[p] :
          /\ n > 0 => records[p] - n >= TrimLimit
          /\ \E k \in 0 .. n :
               /\ unread[p] - k \in 0 .. (records[p] - n)
               /\ Changed(p, records[p] - n, unread[p] - k, Success(0, -k))
  \/ /\ r.op \in Reads \cup {"UpdateStatus"}
     /\ Changed(p, records[p], unread[p], Success(0, 0))

StoreExecute ==
  /\ worker = "running"
  /\ Transaction(request[current])
  /\ UNCHANGED <<settledThrough, fenceVars, totals, scanVars>>

StoreWorker ==
  \/ StoreExecute
  \/ /\ WorkerReceive \/ WorkerClaim \/ WorkerDrop \/ WorkerPublish \/ WorkerStop
     /\ UNCHANGED storeVars
-----------------------------------------------------------------------------
(* poll: settle the finished tickets, oldest first.  nextReady loads one   *)
(* slot's state at a time while the worker runs on.                        *)

PollBegin ==
  /\ OwnerFree
  /\ scanAt' = 0
  /\ scanFirst' = NoSlot
  /\ UNCHANGED <<vars, mediaVars, settledThrough, fenceVars, totals>>

\* Faulty variant: only finished tickets are compared.
CountsReady(s) == state[s] = "Ready" /\ seq[s] > settledThrough
\* Every outstanding ticket counts, finished or not.
Counts(s) == state[s] # "Free" /\ seq[s] > settledThrough

PollLoad ==
  /\ scanAt \in Slots
  /\ scanAt' = scanAt + 1
  /\ scanFirst' = IF Counts(scanAt) /\ (scanFirst = NoSlot \/ seq[scanAt] < seq[scanFirst])
                    THEN scanAt ELSE scanFirst
  /\ UNCHANGED <<vars, mediaVars, settledThrough, fenceVars, totals>>

\* settle: reads, failures and duplicates change no total; a decrease stops
\* at zero.
AddToTotals(res) ==
  /\ totalConversations' = totalConversations
       + (IF res.conversationDelta < 0 /\ totalConversations = 0 THEN 0 ELSE res.conversationDelta)
  /\ totalUnread' = IF totalUnread + res.unreadDelta < 0 THEN 0 ELSE totalUnread + res.unreadDelta

Settle(s) ==
  IF result[s] = Cancelled \/ request[s].op \in Reads
    THEN UNCHANGED totals
    ELSE IF result[s].outcome # "Committed" \/ result[s].duplicate
      THEN UNCHANGED totals
      ELSE /\ AddToTotals(result[s])
           /\ historyRevision' = IF request[s].op \in Creates \cup {"DeleteConversation", "Trim"}
                                   THEN historyRevision + 1 ELSE historyRevision

\* Faulty variant: the fence is lifted only when the deletion committed.
FenceAfterCommit(s) ==
  IF fence = seq[s] /\ result[s] # Cancelled THEN 0 ELSE fence
FenceAfter(s) == IF fence = seq[s] THEN 0 ELSE fence

\* The oldest outstanding ticket is finished: settle it and look again.
PollSettle ==
  /\ scanAt = EndOfScan
  /\ scanFirst # NoSlot
  /\ state[scanFirst] = "Ready"
  /\ Settle(scanFirst)
  /\ settledThrough' = seq[scanFirst]
  /\ fence' = FenceAfter(scanFirst)
  /\ scanAt' = 0
  /\ scanFirst' = NoSlot
  /\ UNCHANGED <<vars, mediaVars, fencedPeer>>

PollEnd ==
  /\ scanAt = EndOfScan
  /\ scanFirst # NoSlot => state[scanFirst] # "Ready"
  /\ scanAt' = NotPolling
  /\ scanFirst' = NoSlot
  /\ UNCHANGED <<vars, mediaVars, settledThrough, fenceVars, totals>>

Poll == PollBegin \/ PollLoad \/ PollSettle \/ PollEnd
-----------------------------------------------------------------------------
StoreNext ==
  \/ StoreBegin
  \/ \E r \in Requests, s \in Slots : StoreSubmit(r, s)
  \/ \E s \in Slots, t \in 1 .. MaxSequence : StoreCancel(s, t)
  \/ \E s \in Slots, t \in 1 .. MaxSequence : StoreRelease(s, t)
  \/ StoreRequestStop
  \/ StoreWorker
  \/ Poll

StoreSpec == StoreInit /\ [][StoreNext]_allVars

\* The service task polls on every tick and the worker task is scheduled.
StoreFairSpec == StoreSpec /\ WF_allVars(StoreWorker) /\ WF_allVars(Poll)
-----------------------------------------------------------------------------
StoreTypeOK ==
  /\ records \in [Peers -> Nat]
  /\ unread \in [Peers -> Nat]
  /\ settledThrough \in 0 .. MaxSequence
  /\ fence \in 0 .. MaxSequence
  /\ fencedPeer \in Peers
  /\ totalConversations \in 0 .. Cardinality(Peers)
  /\ totalUnread \in Nat
  /\ historyRevision \in Nat
  /\ scanAt \in Slots \cup {EndOfScan, NotPolling}
  /\ scanFirst \in Slots \cup {NoSlot}

\* The results that are on the media and not yet in the totals.
Pending == {s \in Slots : /\ seq[s] > settledThrough
                          /\ result[s] \notin {NoResult, Cancelled}
                          /\ state[s] \in {"Running", "Ready"}}

\* The totals the screens show, plus the deltas still to be settled, are what
\* the media hold: no delta is lost, applied twice, or cut off at zero because
\* it was applied before the one that makes room for it
\* (MessageStoreTransactions.cpp:136-186).
TotalsExact ==
  /\ StoreTypeOK
  /\ accepting \/ nextSequence > 0 =>
       /\ totalConversations + Net([s \in Pending |-> result[s].conversationDelta])
            = Conversations(records)
       /\ totalUnread + Net([s \in Pending |-> result[s].unreadDelta]) = Sum(unread)

\* Tickets are settled in the order they were handed out, whatever the worker
\* finishes while the owner is scanning (WriteQueue.cpp:210-225).
SettlesInOrder ==
  [][settledThrough' # settledThrough =>
       /\ settledThrough' > settledThrough
       /\ \A s \in Slots : state[s] # "Free" /\ seq[s] > settledThrough => seq[s] >= settledThrough']_allVars

\* Nothing for the peer is accepted behind a pending deletion: it could only
\* restore, or act on, a conversation the user has already given up.
NothingBehindDelete ==
  fence # 0 => \A s \in Slots : state[s] # "Free" /\ request[s].peer = fencedPeer => seq[s] <= fence

\* Liveness: a fence never outlives its deletion and locks the peer out for good,
\* whatever clients do with their results (MessageStoreTransactions.cpp:24-29, 146).
FenceLifts == fence # 0 ~> fence = 0
=============================================================================
