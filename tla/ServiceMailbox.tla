--------------------------- MODULE ServiceMailbox ---------------------------
(***************************************************************************)
(* The bridge between the user interface and the device service            *)
(* (core/runtime/ServiceMailbox.h): a fixed array of request slots, each   *)
(* handed back and forth through its atomic state, and a ring of slot      *)
(* numbers that keeps the order of admission.                              *)
(*                                                                         *)
(* One task submits, cancels and releases (the UI), one task takes and     *)
(* completes (the service).  An action is what one of them does between    *)
(* two points where the other could tell the difference: submit is two     *)
(* actions, the store of Ready and the later store of the ring's tail, and *)
(* a completion is the claim and the later publication.  Payload bytes     *)
(* are not modelled, the blocks that hold them are.                        *)
(***************************************************************************)
EXTENDS Naturals, FiniteSets, FiniteSetsExt

CONSTANTS
  NormalSlots,   \* how many slots serve ordinary requests
  BlockCount,    \* blocks in the payload arena
  MaxBlocks,     \* the most blocks of one request (MaxPayload / BlockSize)
  MaxId,         \* UINT32_MAX, the identifier after which nothing is admitted
  NormalOps,     \* ordinary operations; only "Send" can be cancelled
  LifecycleOps,  \* operations that end in a restart; "Restart" is one
  Outcomes,      \* what a result may say
  NoOutcome      \* the empty result a slot starts with

ASSUME SizesAssumption ==
  /\ NormalSlots \in Nat \ {0} /\ BlockCount \in Nat /\ MaxId \in Nat
  /\ MaxBlocks \in 0 .. BlockCount
ASSUME OpsAssumption ==
  /\ NormalOps \cap LifecycleOps = {}
  /\ "Send" \notin LifecycleOps /\ "Restart" \notin NormalOps

Normal == 0 .. (NormalSlots - 1)
Lifecycle == NormalSlots
Slots == Normal \cup {Lifecycle}
NoSlot == NormalSlots + 1
Blocks == 0 .. (BlockCount - 1)

States == {"Free", "Ready", "CancelReady", "Running", "CancelRunning", "Completing", "Done"}
RunningStates == {"Running", "CancelRunning", "Completing"}
PendingStates == RunningStates \cup {"Ready", "CancelReady"}

VARIABLES
  state,        \* state[s]: the atomic state of slot s
  request,      \* request[s]: its identifier, operation and blocks
  outcome,      \* outcome[s]: the result of slot s
  readySlots,   \* the ring
  readyHead,    \* how many entries of the ring were taken
  readyTail,    \* how many were published
  accepting,    \* _accepting
  recovery,     \* _recovery
  usedBlocks,   \* the UI's map of blocks in use
  outstanding,  \* the UI's count of requests admitted and not released
  nextId,       \* the last identifier given out
  publishing    \* the slot that submit made Ready and has not put in the ring

slotVars == <<state, request, outcome>>
ringVars == <<readySlots, readyHead, readyTail>>
uiVars == <<usedBlocks, outstanding, nextId, publishing>>
mailboxVars == <<slotVars, ringVars, accepting, recovery, uiVars>>

NoRequest == [id |-> 0, op |-> "none", blocks |-> {}]

MailboxTypeOK ==
  /\ state \in [Slots -> States]
  /\ request \in [Slots -> {NoRequest} \cup
       [id : 1 .. MaxId, op : NormalOps \cup LifecycleOps, blocks : SUBSET Blocks]]
  /\ outcome \in [Slots -> Outcomes \cup {NoOutcome}]
  /\ readySlots \in [Normal -> Normal]
  /\ readyHead \in 0 .. MaxId /\ readyTail \in readyHead .. MaxId
  /\ accepting \in BOOLEAN /\ recovery \in BOOLEAN
  /\ usedBlocks \subseteq Blocks
  /\ outstanding \in 0 .. (NormalSlots + 1)
  /\ nextId \in 0 .. MaxId
  /\ publishing \in Normal \cup {NoSlot}

MailboxInit ==
  /\ state = [s \in Slots |-> "Free"]
  /\ request = [s \in Slots |-> NoRequest]
  /\ outcome = [s \in Slots |-> NoOutcome]
  /\ readySlots = [i \in Normal |-> 0]
  /\ readyHead = 0 /\ readyTail = 0
  /\ accepting = FALSE /\ recovery = FALSE
  /\ usedBlocks = {} /\ outstanding = 0 /\ nextId = 0
  /\ publishing = NoSlot
-----------------------------------------------------------------------------
(* The UI task.                                                            *)

Admitted(op) == accepting \/ (op = "Restart" /\ recovery)

SlotsFor(op) == IF op \in LifecycleOps THEN {Lifecycle} ELSE Normal
FreeSlots(op) == {s \in SlotsFor(op) : state[s] = "Free"}

\* The n lowest blocks that are free.
LowestFreeBlocks(n) ==
  {b \in Blocks \ usedBlocks : Cardinality({c \in Blocks \ usedBlocks : c < b}) < n}

AcceptingAfter(op) == accepting /\ op \notin LifecycleOps

\* submit, up to the store of Ready, for a request of n blocks.  A refusal
\* (nothing admitted, no slot, no blocks, no identifier) leaves all as it was.
Submit(op, n) ==
  /\ publishing = NoSlot
  /\ Admitted(op) /\ nextId < MaxId
  /\ Cardinality(Blocks \ usedBlocks) >= n
  /\ \E s \in FreeSlots(op) :
     /\ \A t \in FreeSlots(op) : s <= t
     /\ request' = [request EXCEPT ![s] =
          [id |-> nextId + 1, op |-> op, blocks |-> LowestFreeBlocks(n)]]
     /\ usedBlocks' = usedBlocks \cup LowestFreeBlocks(n)
     /\ outcome' = [outcome EXCEPT ![s] = NoOutcome]
     /\ state' = [state EXCEPT ![s] = "Ready"]
     /\ publishing' = IF op \in LifecycleOps THEN NoSlot ELSE s
  /\ nextId' = nextId + 1
  /\ outstanding' = outstanding + 1
  /\ accepting' = AcceptingAfter(op)
  /\ UNCHANGED <<ringVars, recovery>>

\* Faulty variant: the last place of the ring is never used.
RingIndexShort(n) == IF n % NormalSlots = NormalSlots - 1 THEN 0 ELSE n % NormalSlots
RingIndex(n) == n % NormalSlots

\* The rest of submit: the slot enters the ring.
Publish ==
  /\ publishing # NoSlot
  /\ readySlots' = [readySlots EXCEPT ![RingIndex(readyTail)] = publishing]
  /\ readyTail' = readyTail + 1
  /\ publishing' = NoSlot
  /\ UNCHANGED <<slotVars, readyHead, accepting, recovery, usedBlocks, outstanding, nextId>>

\* cancelSend: the identifier still names a Send in slot s.
CanCancel(s) == request[s].op = "Send" /\ state[s] \in {"Ready", "Running", "CancelReady", "CancelRunning"}

CancelMark(st) == CASE st = "Ready" -> "CancelReady" [] st = "Running" -> "CancelRunning" [] OTHER -> st

\* cancelSend returns true.
CancelSend(s) ==
  /\ publishing = NoSlot
  /\ s \in Normal /\ CanCancel(s)
  /\ state' = [state EXCEPT ![s] = CancelMark(@)]
  /\ UNCHANGED <<request, outcome, ringVars, accepting, recovery, uiVars>>

\* nextResult: the lowest slot with a result.
NextResult(s) == state[s] = "Done" /\ \A t \in Slots : state[t] = "Done" => s <= t

\* Faulty variant: the blocks of every finished slot are given back at once.
ReturnedOfDone(s) == UNION {request[t].blocks : t \in {u \in Slots : state[u] = "Done"}}
Returned(s) == request[s].blocks

CountAfterRelease(s) == outstanding - 1

\* The result is read and its slot released.
Release(s) ==
  /\ publishing = NoSlot
  /\ NextResult(s)
  /\ state' = [state EXCEPT ![s] = "Free"]
  /\ usedBlocks' = usedBlocks \ Returned(s)
  /\ outstanding' = CountAfterRelease(s)
  /\ UNCHANGED <<request, outcome, ringVars, accepting, recovery, nextId, publishing>>
-----------------------------------------------------------------------------
(* The service task.                                                       *)

RingEmpty == readyHead = readyTail
\* Faulty variant: scans the slots instead of the ring.
RingFrontScan == Min({s \in Normal : state[s] \in {"Ready", "CancelReady"}})
RingFront == readySlots[RingIndex(readyHead)]

StartedAs(st) == IF st = "CancelReady" THEN "CancelRunning" ELSE "Running"

\* take, when an ordinary request waits.
TakeNormal ==
  /\ ~RingEmpty
  /\ readyHead' = readyHead + 1
  /\ state' = [state EXCEPT ![RingFront] = StartedAs(@)]
  /\ accepting' = (accepting /\ state[Lifecycle] # "Ready")
  /\ UNCHANGED <<request, outcome, readySlots, readyTail, recovery, uiVars>>

NothingRunning == \A s \in Normal : state[s] \notin RunningStates

\* take, when the lifecycle request is all that waits.
TakeLast ==
  /\ RingEmpty /\ state[Lifecycle] = "Ready" /\ NothingRunning
  /\ state' = [state EXCEPT ![Lifecycle] = "Running"]
  /\ accepting' = FALSE
  /\ UNCHANGED <<request, outcome, ringVars, recovery, uiVars>>

\* takeLifecycle: whatever else waits or runs.
TakeLifecycle ==
  /\ state[Lifecycle] = "Ready"
  /\ state' = [state EXCEPT ![Lifecycle] = "Running"]
  /\ UNCHANGED <<request, outcome, ringVars, accepting, recovery, uiVars>>

NormalWorkPending == \E s \in Normal : state[s] \in PendingStates
CancellationRequested(s) == state[s] \in {"CancelReady", "CancelRunning"}

\* claimCompletion: from here on a cancellation is refused.
Claim(s) ==
  /\ state[s] \in {"Running", "CancelRunning"}
  /\ state' = [state EXCEPT ![s] = "Completing"]
  /\ UNCHANGED <<request, outcome, ringVars, accepting, recovery, uiVars>>

\* publishCompletion.
PublishCompletion(s, o) ==
  /\ state[s] = "Completing"
  /\ outcome' = [outcome EXCEPT ![s] = o]
  /\ state' = [state EXCEPT ![s] = "Done"]
  /\ UNCHANGED <<request, ringVars, accepting, recovery, uiVars>>

\* complete: both, for each slot of S, with its answer.
Complete(S, answer) ==
  /\ \A s \in S : state[s] \in {"Running", "CancelRunning"}
  /\ outcome' = [s \in Slots |-> IF s \in S THEN answer[s] ELSE outcome[s]]
  /\ state' = [s \in Slots |-> IF s \in S THEN "Done" ELSE state[s]]
  /\ UNCHANGED <<request, ringVars, accepting, recovery, uiVars>>

SetAccepting(value) ==
  /\ accepting' = value
  /\ UNCHANGED <<slotVars, ringVars, recovery, uiVars>>

AllowRecovery ==
  /\ recovery' = TRUE
  /\ UNCHANGED <<slotVars, ringVars, accepting, uiVars>>
-----------------------------------------------------------------------------
(* The mailbox between two tasks that do nothing else: what any pair of    *)
(* them may do to it.                                                      *)

UINext ==
  \/ \E op \in NormalOps \cup LifecycleOps, n \in 0 .. MaxBlocks : Submit(op, n)
  \/ Publish
  \/ \E s \in Slots : CancelSend(s) \/ Release(s)

ServiceNext ==
  \/ TakeNormal
  \/ TakeLast
  \/ TakeLifecycle
  \/ \E s \in Slots : Claim(s)
  \/ \E s \in Slots, o \in Outcomes : PublishCompletion(s, o)
  \/ \E value \in BOOLEAN : SetAccepting(value)
  \/ AllowRecovery

MailboxNext == UINext \/ ServiceNext
MailboxSpec == MailboxInit /\ [][MailboxNext]_mailboxVars
-----------------------------------------------------------------------------
(* Properties.                                                             *)

\* The slots in the ring, and the one on its way there, are the ordinary
\* slots that wait to be taken, each once: a request is neither lost nor
\* taken twice, although slots are reused in any order.
RingHoldsWaiting ==
  LET waiting == {s \in Normal : state[s] \in {"Ready", "CancelReady"}}
      entries == readyHead .. (readyTail - 1)
  IN /\ {readySlots[i % NormalSlots] : i \in entries} = waiting \ {publishing}
     /\ Cardinality(entries) = Cardinality(waiting \ {publishing})
     /\ publishing # NoSlot => publishing \in waiting

\* Requests are taken in the order in which they were admitted: the
\* identifiers in the ring increase, and the request being published is
\* younger than all of them.
AdmissionOrder ==
  LET id(i) == request[readySlots[i % NormalSlots]].id IN
  \A i \in readyHead .. (readyTail - 1) :
    /\ \A j \in readyHead .. (i - 1) : id(j) < id(i)
    /\ publishing # NoSlot => id(i) < request[publishing].id

\* Every slot that is not free holds one credit and its own blocks: no block
\* serves two requests, none leaks, and the count returns to zero.
CreditsExact ==
  LET held == {s \in Slots : state[s] # "Free"} IN
  /\ MailboxTypeOK
  /\ outstanding = Cardinality(held)
  /\ usedBlocks = UNION {request[s].blocks : s \in held}
  /\ \A s, t \in held : s # t => request[s].blocks \cap request[t].blocks = {}
=============================================================================
