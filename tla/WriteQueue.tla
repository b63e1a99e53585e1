----------------------------- MODULE WriteQueue -----------------------------
(***************************************************************************)
(* The storage executor of the firmware (core/storage/WriteQueue.cpp): a   *)
(* fixed array of request slots shared by the owner, the one task that     *)
(* submits, cancels and releases, and the "WriteQ" worker task, which      *)
(* takes slot numbers from a FreeRTOS queue and executes them.             *)
(*                                                                         *)
(* The slots are 0 .. NumNormal+1: NumNormal normal slots, then the slot   *)
(* reserved for deletions, then the one reserved for status updates.  A    *)
(* request is a record with its operation in field op and in field large   *)
(* whether its body or its result needs a large payload buffer.            *)
(***************************************************************************)
EXTENDS Naturals, Sequences, FiniteSets

CONSTANTS
  NumNormal,    \* Budget::NormalSlots
  LargeSlots,   \* the normal slots whose payload buffer is the large one
  Requests,     \* the requests that may be submitted
  Results,      \* what the executor may answer
  Cancelled,    \* the result of a request that was cancelled in time
  NoResult,     \* the empty result a slot starts with
  Stop,         \* StopSlot, the number no slot has that ends the worker
  MaxSequence   \* the last ticket number (UINT64_MAX in the code)

ASSUME NumNormalAssumption == NumNormal \in Nat \ {0}
ASSUME LargeSlotsAssumption == LargeSlots \subseteq 0 .. (NumNormal - 1)
ASSUME MaxSequenceAssumption == MaxSequence \in Nat
ASSUME StopAssumption == Stop \in Nat /\ Stop > NumNormal + 1
ASSUME RequestsAssumption == Requests # {}
ASSUME ResultsAssumption == Cancelled \notin Results /\ NoResult \notin Results \cup {Cancelled}

Slots == 0 .. (NumNormal + 1)
SlotStates == {"Free", "Queued", "CancelQueued", "Running", "Ready"}
WorkerStates == {"idle", "received", "running", "publishing", "stopped"}

\* Faulty variant: no credit of its own for the sentinel.
QueueDepthOfSlots == NumNormal + 2
\* The worker's queue has one place more than there are slots, for Stop.
QueueDepth == NumNormal + 3

VARIABLES
  state,          \* state[s]: the atomic State of slot s
  seq,            \* seq[s]: the ticket number of the request in slot s
  request,        \* request[s]
  result,         \* result[s]
  fifo,           \* the FreeRTOS queue of slot numbers, Stop last
  worker,         \* where the worker task is
  current,        \* the slot the worker took from the queue
  deferred,       \* _execution: a worker task executes, or submit itself does
  accepting,      \* _accepting
  stopRequested,  \* _stopRequested
  nextSequence,   \* _nextSequence, the last ticket handed out
  outstanding,    \* _outstanding
  owner,          \* the task bound as _owner: "setup", later "service"
  cancelled,      \* history: tickets whose cancel() returned true
  executed        \* history: tickets whose request the executor has run

slotVars == <<state, seq, request, result>>
workerVars == <<fifo, worker, current>>
ownerVars == <<deferred, accepting, stopRequested, nextSequence, outstanding, owner>>
history == <<cancelled, executed>>
vars == <<slotVars, workerVars, ownerVars, history>>
-----------------------------------------------------------------------------
Init ==
  /\ state = [s \in Slots |-> "Free"]
  /\ seq = [s \in Slots |-> 0]
  /\ request = [s \in Slots |-> CHOOSE r \in Requests : TRUE]
  /\ result = [s \in Slots |-> NoResult]
  /\ fifo = <<>>
  /\ worker = "stopped"
  /\ current = 0
  /\ deferred = FALSE
  /\ accepting = FALSE
  /\ stopRequested = FALSE
  /\ nextSequence = 0
  /\ outstanding = 0
  /\ owner = "setup"
  /\ cancelled = {}
  /\ executed = {}

\* finishStop: nothing admitted, the worker gone, every result given back.
FinishStop == ~accepting /\ worker = "stopped" /\ outstanding = 0

\* begin starts a worker only from a finished stop; tickets are never reused.
\* The caller chooses whether there is one.
Begin ==
  /\ FinishStop
  /\ deferred' \in BOOLEAN
  /\ accepting' = TRUE
  /\ stopRequested' = FALSE
  /\ worker' = IF deferred' THEN "idle" ELSE "stopped"
  /\ fifo' = <<>>
  /\ UNCHANGED <<slotVars, current, nextSequence, outstanding, owner, history>>

\* Faulty variant: the hand-over looks only at the stop protocol.
CanAdoptAnyTime == ~(stopRequested /\ worker # "stopped")
CanAdopt == outstanding = 0 /\ ~(stopRequested /\ worker # "stopped")

AdoptOwner ==
  /\ owner = "setup"
  /\ CanAdopt
  /\ owner' = "service"
  /\ UNCHANGED <<slotVars, workerVars, accepting, stopRequested, nextSequence, outstanding, history, deferred>>

\* The slots a request may use: deletions and updates have one of their own.
SlotClass(r) ==
  CASE r.op = "DeleteConversation" -> {NumNormal}
    [] r.op \in {"UpdateStatus", "MarkRead"} -> {NumNormal + 1}
    [] OTHER -> {s \in 0 .. (NumNormal - 1) : r.large => s \in LargeSlots}

\* submit takes the first free slot of the class; with none it answers Busy.
FirstFit(r, s) ==
  LET fit == {t \in SlotClass(r) : state[t] = "Free"}
  IN  s \in fit /\ \A t \in fit : s <= t

\* The guards before a slot is filled; otherwise the call is rejected.
Admits(r, s) ==
  /\ accepting
  /\ nextSequence < MaxSequence
  /\ FirstFit(r, s)

\* xQueueSend with no wait: FALSE when the queue is full.
HasCredit == Len(fifo) < QueueDepth

\* Faulty variant: the newest request overtakes the waiting ones.
EnqueueFront(s) == <<s>> \o fifo
Enqueue(s) == Append(fifo, s)

Submit(r, s) ==
  /\ deferred
  /\ Admits(r, s)
  /\ nextSequence' = nextSequence + 1
  /\ seq' = [seq EXCEPT ![s] = nextSequence + 1]
  /\ request' = [request EXCEPT ![s] = r]
  /\ result' = [result EXCEPT ![s] = NoResult]
  /\ state' = [state EXCEPT ![s] = IF HasCredit THEN "Queued" ELSE "Free"]
  /\ fifo' = IF HasCredit THEN Enqueue(s) ELSE fifo
  /\ outstanding' = IF HasCredit THEN outstanding + 1 ELSE outstanding
  /\ UNCHANGED <<worker, current, accepting, stopRequested, owner, history, deferred>>

\* In immediate mode submit itself runs executeSlot before it returns.
SubmitImmediate(r, s, res) ==
  /\ ~deferred
  /\ Admits(r, s)
  /\ nextSequence' = nextSequence + 1
  /\ seq' = [seq EXCEPT ![s] = nextSequence + 1]
  /\ request' = [request EXCEPT ![s] = r]
  /\ result' = [result EXCEPT ![s] = res]
  /\ state' = [state EXCEPT ![s] = "Ready"]
  /\ outstanding' = outstanding + 1
  /\ executed' = executed \cup {nextSequence + 1}
  /\ UNCHANGED <<workerVars, accepting, stopRequested, owner, cancelled, deferred>>
-----------------------------------------------------------------------------
(* The worker task.                                                        *)

WorkerReceive ==
  /\ worker = "idle"
  /\ fifo # <<>>
  /\ Head(fifo) # Stop
  /\ current' = Head(fifo)
  /\ fifo' = Tail(fifo)
  /\ worker' = "received"
  /\ UNCHANGED <<slotVars, ownerVars, history>>

\* executeSlot's compare-exchange Queued -> Running decides the race with cancel.
WorkerClaim ==
  /\ worker = "received"
  /\ state[current] = "Queued"
  /\ state' = [state EXCEPT ![current] = "Running"]
  /\ worker' = "running"
  /\ UNCHANGED <<seq, request, result, fifo, current, ownerVars, history>>

\* Faulty variant: executeSlot returns whenever the exchange fails.
WorkerDropSilently ==
  /\ worker = "received"
  /\ state[current] = "CancelQueued"
  /\ worker' = "idle"
  /\ UNCHANGED <<slotVars, fifo, current, ownerVars, history>>
\* The exchange failed on CancelQueued: the request is answered, not executed.
WorkerDrop ==
  /\ worker = "received"
  /\ state[current] = "CancelQueued"
  /\ result' = [result EXCEPT ![current] = Cancelled]
  /\ worker' = "publishing"
  /\ UNCHANGED <<state, seq, request, fifo, current, ownerVars, history>>

WorkerExecute(res) ==
  /\ worker = "running"
  /\ result' = [result EXCEPT ![current] = res]
  /\ executed' = executed \cup {seq[current]}
  /\ worker' = "publishing"
  /\ UNCHANGED <<state, seq, request, fifo, current, ownerVars, cancelled>>

WorkerPublish ==
  /\ worker = "publishing"
  /\ state' = [state EXCEPT ![current] = "Ready"]
  /\ worker' = "idle"
  /\ UNCHANGED <<seq, request, result, fifo, current, ownerVars, history>>

WorkerStop ==
  /\ worker = "idle"
  /\ fifo # <<>>
  /\ Head(fifo) = Stop
  /\ fifo' = Tail(fifo)
  /\ worker' = "stopped"
  /\ UNCHANGED <<slotVars, current, ownerVars, history>>
-----------------------------------------------------------------------------
(* The owner task.  A ticket is a slot number and a ticket number; a       *)
(* client may still hold a ticket whose slot was released and refilled.    *)

Matches(s, t) == t # 0 /\ seq[s] = t

\* peekResult and readPayload: the holder of ticket (s, t) may see result[s].
Readable(s, t) == Matches(s, t) /\ state[s] = "Ready"

Release(s, t) ==
  /\ Readable(s, t)
  /\ state' = [state EXCEPT ![s] = "Free"]
  /\ outstanding' = outstanding - 1
  /\ UNCHANGED <<seq, request, result, workerVars, accepting, stopRequested, nextSequence, owner, history, deferred>>

\* Faulty variant: a request the worker has already claimed.
CancellableLate(s, t) == Matches(s, t) /\ state[s] \in {"Queued", "Running"}
Cancellable(s, t) == Matches(s, t) /\ state[s] = "Queued"

\* cancel: a compare-exchange Queued -> CancelQueued; it never frees the slot.
CancelRequest(s, t) ==
  /\ Cancellable(s, t)
  /\ state' = [state EXCEPT ![s] = "CancelQueued"]
  /\ cancelled' = cancelled \cup {t}
  /\ UNCHANGED <<seq, request, result, workerVars, ownerVars, executed>>

\* The sentinel is sent once, and only to a live worker.
RequestStop ==
  /\ accepting' = FALSE
  /\ stopRequested' = TRUE
  /\ fifo' = IF ~stopRequested /\ worker # "stopped" /\ HasCredit THEN Append(fifo, Stop) ELSE fifo
  /\ UNCHANGED <<slotVars, worker, current, nextSequence, outstanding, owner, history, deferred>>
-----------------------------------------------------------------------------
Worker ==
  \/ WorkerReceive
  \/ WorkerClaim
  \/ WorkerDrop
  \/ \E res \in Results : WorkerExecute(res)
  \/ WorkerPublish
  \/ WorkerStop

Next ==
  \/ Begin
  \/ AdoptOwner
  \/ \E r \in Requests, s \in Slots : Submit(r, s)
  \/ \E r \in Requests, s \in Slots, res \in Results : SubmitImmediate(r, s, res)
  \/ Worker
  \/ \E s \in Slots, t \in 1 .. MaxSequence : Release(s, t)
  \/ \E s \in Slots, t \in 1 .. MaxSequence : CancelRequest(s, t)
  \/ RequestStop

Spec == Init /\ [][Next]_vars

\* FreeRTOS schedules the worker whenever its queue has an entry, and the
\* storage calls it makes return.
FairSpec == Spec /\ WF_vars(Worker)
-----------------------------------------------------------------------------
TypeOK ==
  /\ state \in [Slots -> SlotStates]
  /\ seq \in [Slots -> 0 .. MaxSequence]
  /\ request \in [Slots -> Requests]
  /\ result \in [Slots -> Results \cup {Cancelled, NoResult}]
  /\ fifo \in Seq(Slots \cup {Stop})
  /\ worker \in WorkerStates
  /\ current \in Slots
  /\ deferred \in BOOLEAN
  /\ accepting \in BOOLEAN
  /\ stopRequested \in BOOLEAN
  /\ nextSequence \in 0 .. MaxSequence
  /\ outstanding \in Nat
  /\ owner \in {"setup", "service"}
  /\ cancelled \subseteq 1 .. MaxSequence
  /\ executed \subseteq 1 .. MaxSequence

\* The sentinel's own credit: requestStop asserts that its send succeeds, even
\* when every slot is queued, so a stop that was requested reaches the worker
\* (WriteQueue.cpp:226-236).
StopReachesWorker ==
  stopRequested /\ worker # "stopped" => \E i \in 1 .. Len(fifo) : fifo[i] = Stop

\* A slot number is in the worker's hands exactly while the slot's state says
\* so: no slot is queued twice, lost, or still in the queue when it is released
\* and refilled (WriteQueue.cpp:111-121, 193-202).
Holder(s) == Cardinality({i \in 1 .. Len(fifo) : fifo[i] = s})
             + (IF worker \in {"received", "running", "publishing"} /\ current = s THEN 1 ELSE 0)
EverySlotHeldOnce ==
  \A s \in Slots : Holder(s) = IF state[s] \in {"Free", "Ready"} THEN 0 ELSE 1

\* The result a client reads is the truth about its request: Cancelled exactly
\* when cancel() returned true, and then the executor never ran it.
ResultIsTheTruth ==
  \A s \in Slots : state[s] = "Ready" =>
    /\ result[s] = Cancelled <=> seq[s] \in cancelled
    /\ result[s] \in Results <=> seq[s] \in executed
CancelledNeverExecuted == cancelled \cap executed = {}
FatesAreHonest == ResultIsTheTruth /\ CancelledNeverExecuted

\* A finished stop leaves nothing behind: no slot in use and no number queued
\* (begin, the destructor and the maintenance steps rely on it).
FinishedIsQuiet ==
  FinishStop => fifo = <<>> /\ \A s \in Slots : state[s] = "Free"

\* The hand-over from setup to the service task happens with no request alive
\* and no slot in the worker's hands (WriteQueue.cpp:50-54).
HandoffIsQuiet ==
  [][owner' # owner => /\ \A s \in Slots : state[s] = "Free"
                       /\ worker \in {"idle", "stopped"}
                       /\ fifo = <<>>]_vars

\* Liveness: every admitted request is answered, executed or cancelled, even if
\* a stop is requested meanwhile and no client ever releases a result.
EveryRequestAnswered ==
  \A s \in Slots : state[s] \in {"Queued", "CancelQueued", "Running"} ~> state[s] = "Ready"
-----------------------------------------------------------------------------
(* The queue implements TicketedExecutor.  A ticket is decided at the      *)
(* worker's compare-exchange, so it is open while its slot number is in    *)
(* the queue or just taken from it.                                        *)

OpenTickets == {t \in 1 .. nextSequence :
                  \/ \E i \in 1 .. Len(fifo) : fifo[i] # Stop /\ seq[fifo[i]] = t
                  \/ worker = "received" /\ seq[current] = t}
InProgress == IF worker \in {"running", "publishing"} THEN {seq[current]} ELSE {}
Unreleased == {seq[s] : s \in {u \in Slots : state[u] # "Free"}}

Tickets == INSTANCE TicketedExecutor WITH
  issued <- nextSequence,
  decided <- nextSequence - Cardinality(OpenTickets),
  executed <- executed \cup (IF worker = "running" THEN InProgress ELSE {}),
  published <- nextSequence - Cardinality(OpenTickets \cup InProgress),
  released <- (1 .. nextSequence) \ Unreleased

\* The worker decides the tickets in order, runs none that was cancelled, and
\* publishes and gives back each result once.
ImplementsTickets == Tickets!Spec
=============================================================================
