-------------------------- MODULE MessageStoreProofs --------------------------
(***************************************************************************)
(* The queue, for every number of slots, every set of requests and every   *)
(* bound on the ticket numbers: it keeps its types, cancellation and       *)
(* execution exclude each other, the results are true, the stop sentinel   *)
(* always has its place in the worker's queue, a stop that is finished or  *)
(* an owner that is handed over leaves nothing behind, and the queue       *)
(* implements TicketedExecutor.                                            *)
(*                                                                         *)
(* The owner's side of storage, for every number of peers and any records: *)
(* results are settled in the order of their tickets, although the worker  *)
(* runs on while the owner scans, nothing is accepted for a peer behind a  *)
(* pending deletion, the fence always has a deletion that will lift it,    *)
(* and the totals are exact.                                               *)
(***************************************************************************)
EXTENDS MessageStore, FiniteSetTheorems, SequenceTheorems, TLAPS

USE NumNormalAssumption, LargeSlotsAssumption, MaxSequenceAssumption,
    StopAssumption, RequestsAssumption, ResultsAssumption

InUse == {s \in Slots : state[s] # "Free"}

\* _outstanding counts the slots in use, so it never falls below zero.
OutstandingExact == outstanding = Cardinality(InUse)

\* Ticket numbers identify requests: no two slots carry the same one, and none
\* is ahead of the counter.
TicketInv ==
  /\ \A s \in Slots : seq[s] <= nextSequence
  /\ \A s \in Slots : state[s] # "Free" => seq[s] # 0
  /\ \A s, u \in Slots : seq[s] = seq[u] /\ seq[s] # 0 => s = u
  /\ \A t \in cancelled \cup executed : t <= nextSequence

\* What the state of a slot says about the fate of its request.
FateInv ==
  /\ \A s \in Slots :
       /\ state[s] = "Queued" => seq[s] \notin cancelled \cup executed
       /\ state[s] = "CancelQueued" => seq[s] \in cancelled /\ seq[s] \notin executed
       /\ state[s] = "Running" => /\ seq[s] \notin cancelled
                                  /\ s = current
                                  /\ worker \in {"running", "publishing"}
  /\ worker = "running" => state[current] = "Running" /\ seq[current] \notin executed
  /\ worker = "publishing" =>
       \/ state[current] = "Running" /\ result[current] \in Results /\ seq[current] \in executed
       \/ state[current] = "CancelQueued" /\ result[current] = Cancelled

Inv == TypeOK /\ OutstandingExact /\ TicketInv /\ FateInv /\ ResultIsTheTruth /\ CancelledNeverExecuted

LEMMA SlotsFinite == IsFiniteSet(Slots) /\ Cardinality(Slots) = NumNormal + 2
<1>1. IsFiniteSet(0 .. (NumNormal + 1)) /\ Cardinality(0 .. (NumNormal + 1)) = NumNormal + 2
  BY FS_Interval
<1>2. QED
  BY <1>1 DEF Slots

LEMMA InUseFinite == IsFiniteSet(InUse) /\ Cardinality(InUse) \in Nat
<1>1. InUse \subseteq Slots
  BY DEF InUse
<1>2. IsFiniteSet(InUse)
  BY <1>1, SlotsFinite, FS_Subset
<1>3. QED
  BY <1>2, FS_CardinalityType

\* A slot that enters or leaves the set of slots in use moves the count by one.
LEMMA InUseGrows ==
  ASSUME NEW s \in Slots, TypeOK, OutstandingExact, state[s] = "Free",
         NEW x \in SlotStates \ {"Free"}, state' = [state EXCEPT ![s] = x]
  PROVE  (outstanding' = outstanding + 1) => OutstandingExact'
<1>1. InUse' = InUse \cup {s} /\ s \notin InUse
  BY DEF InUse, TypeOK, SlotStates
<1>2. Cardinality(InUse') = Cardinality(InUse) + 1
  BY <1>1, InUseFinite, FS_AddElement
<1>3. QED
  BY <1>2 DEF OutstandingExact

LEMMA InUseShrinks ==
  ASSUME NEW s \in Slots, TypeOK, OutstandingExact, state[s] # "Free",
         state' = [state EXCEPT ![s] = "Free"], outstanding' = outstanding - 1
  PROVE  OutstandingExact' /\ outstanding' \in Nat
<1>1. InUse' = InUse \ {s} /\ s \in InUse
  BY DEF InUse, TypeOK
<1>2. Cardinality(InUse') = Cardinality(InUse) - 1
  BY <1>1, InUseFinite, FS_RemoveElement
<1>3. IsFiniteSet(InUse')
  BY <1>1, InUseFinite, FS_RemoveElement
<1>4. Cardinality(InUse') \in Nat
  BY <1>3, FS_CardinalityType
<1>5. QED
  BY <1>2, <1>4 DEF OutstandingExact

\* A step that frees no slot and takes none leaves the count alone.
LEMMA InUseSame ==
  ASSUME OutstandingExact, outstanding' = outstanding,
         \A s \in Slots : (state'[s] = "Free") <=> (state[s] = "Free")
  PROVE  OutstandingExact'
<1>1. InUse' = InUse
  BY DEF InUse
<1>2. QED
  BY <1>1 DEF OutstandingExact

LEMMA InvInit == Init => Inv
<1> SUFFICES ASSUME Init PROVE Inv
  OBVIOUS
<1>1. TypeOK
  <2>1. /\ state \in [Slots -> SlotStates] /\ seq \in [Slots -> 0 .. MaxSequence]
        /\ request \in [Slots -> Requests] /\ result \in [Slots -> Results \cup {Cancelled, NoResult}]
    BY DEF Init, SlotStates
  <2>2. fifo \in Seq(Slots \cup {Stop}) /\ worker \in WorkerStates /\ current \in Slots
    BY DEF Init, Slots, WorkerStates
  <2>3. deferred \in BOOLEAN /\ accepting \in BOOLEAN /\ stopRequested \in BOOLEAN
    BY Zenon DEF Init
  <2>4. /\ nextSequence \in 0 .. MaxSequence /\ outstanding \in Nat /\ owner \in {"setup", "service"}
        /\ cancelled \subseteq 1 .. MaxSequence /\ executed \subseteq 1 .. MaxSequence
    BY DEF Init
  <2>5. QED
    BY <2>1, <2>2, <2>3, <2>4 DEF TypeOK
<1>2. OutstandingExact
  <2>1. InUse = {}
    BY DEF Init, InUse
  <2>2. QED
    BY <2>1, FS_EmptySet DEF Init, OutstandingExact
<1>3. TicketInv /\ FateInv /\ ResultIsTheTruth /\ CancelledNeverExecuted
  BY DEF Init, TicketInv, FateInv, ResultIsTheTruth, CancelledNeverExecuted
<1>4. QED
  BY <1>1, <1>2, <1>3 DEF Inv

\* Type correctness of one step; only Release needs more than the types.
LEMMA TypeNext == Inv /\ [Next]_vars => TypeOK'
<1> SUFFICES ASSUME Inv, [Next]_vars PROVE TypeOK'
  OBVIOUS
<1> USE DEF TypeOK, SlotStates, WorkerStates, slotVars, workerVars, ownerVars, history, Inv
<1>1. CASE Begin
  <2>1. fifo' \in Seq(Slots \cup {Stop}) /\ worker' \in WorkerStates
    BY <1>1 DEF Begin
  <2>2. accepting' \in BOOLEAN /\ stopRequested' \in BOOLEAN /\ deferred' \in BOOLEAN
    BY <1>1 DEF Begin
  <2>3. UNCHANGED <<state, seq, request, result, current, nextSequence, outstanding, owner, cancelled, executed>>
    BY <1>1 DEF Begin
  <2>4. QED
    BY <2>1, <2>2, <2>3
<1>2. CASE AdoptOwner
  BY <1>2 DEF AdoptOwner
<1>3. ASSUME NEW r \in Requests, NEW s \in Slots, Submit(r, s) PROVE TypeOK'
  <2>1. Append(fifo, s) \in Seq(Slots \cup {Stop})
    BY AppendProperties
  <2>2. nextSequence + 1 \in 0 .. MaxSequence
    BY <1>3 DEF Submit, Admits
  <2>3. QED
    BY <1>3, <2>1, <2>2 DEF Submit, Enqueue
<1>4. ASSUME NEW r \in Requests, NEW s \in Slots, NEW res \in Results, SubmitImmediate(r, s, res)
      PROVE TypeOK'
  BY <1>4 DEF SubmitImmediate, Admits
<1>5. CASE WorkerReceive
  <2>1. Tail(fifo) \in Seq(Slots \cup {Stop}) /\ Head(fifo) \in Slots
    BY <1>5, HeadTailProperties DEF WorkerReceive
  <2>2. QED
    BY <1>5, <2>1 DEF WorkerReceive
<1>6. CASE WorkerClaim
  BY <1>6 DEF WorkerClaim
<1>7. CASE WorkerDrop
  BY <1>7 DEF WorkerDrop
<1>8. ASSUME NEW res \in Results, WorkerExecute(res) PROVE TypeOK'
  <2>1. seq[current] \in 1 .. MaxSequence
    BY <1>8 DEF WorkerExecute, FateInv, TicketInv
  <2>2. QED
    BY <1>8, <2>1 DEF WorkerExecute
<1>9. CASE WorkerPublish
  BY <1>9 DEF WorkerPublish
<1>10. CASE WorkerStop
  <2>1. Tail(fifo) \in Seq(Slots \cup {Stop})
    BY <1>10, HeadTailProperties DEF WorkerStop
  <2>2. QED
    BY <1>10, <2>1 DEF WorkerStop
<1>11. ASSUME NEW s \in Slots, NEW t \in 1 .. MaxSequence, Release(s, t) PROVE TypeOK'
  <2>1. outstanding' \in Nat
    BY <1>11, InUseShrinks DEF Release, Readable
  <2>2. QED
    BY <1>11, <2>1 DEF Release
<1>12. ASSUME NEW s \in Slots, NEW t \in 1 .. MaxSequence, CancelRequest(s, t) PROVE TypeOK'
  BY <1>12 DEF CancelRequest
<1>13. CASE RequestStop
  <2>1. Append(fifo, Stop) \in Seq(Slots \cup {Stop})
    BY AppendProperties
  <2>2. QED
    BY <1>13, <2>1 DEF RequestStop
<1>14. CASE UNCHANGED vars
  BY <1>14 DEF vars
<1>15. QED
  BY <1>1, <1>2, <1>3, <1>4, <1>5, <1>6, <1>7, <1>8, <1>9, <1>10, <1>11, <1>12, <1>13, <1>14
     DEF Next, Worker

\* Every action that takes or frees a slot moves the count with it.
LEMMA OutstandingNext == Inv /\ [Next]_vars => OutstandingExact'
<1> SUFFICES ASSUME Inv, [Next]_vars PROVE OutstandingExact'
  OBVIOUS
<1> USE DEF Inv, slotVars, workerVars, ownerVars, history
<1>1. ASSUME NEW r \in Requests, NEW s \in Slots, Submit(r, s) PROVE OutstandingExact'
  <2>1. CASE HasCredit
    BY <1>1, <2>1, InUseGrows DEF Submit, Admits, FirstFit, SlotStates
  <2>2. CASE ~HasCredit
    BY <1>1, <2>2, InUseSame DEF Submit, Admits, FirstFit, TypeOK
  <2>3. QED
    BY <2>1, <2>2
<1>2. ASSUME NEW r \in Requests, NEW s \in Slots, NEW res \in Results, SubmitImmediate(r, s, res)
      PROVE OutstandingExact'
  BY <1>2, InUseGrows DEF SubmitImmediate, Admits, FirstFit, SlotStates
<1>3. ASSUME NEW s \in Slots, NEW t \in 1 .. MaxSequence, Release(s, t) PROVE OutstandingExact'
  BY <1>3, InUseShrinks DEF Release, Readable
<1>4. ASSUME NEW s \in Slots, NEW t \in 1 .. MaxSequence, CancelRequest(s, t) PROVE OutstandingExact'
  BY <1>4, InUseSame DEF CancelRequest, Cancellable, TypeOK
<1>5. CASE WorkerClaim
  BY <1>5, InUseSame DEF WorkerClaim, TypeOK
<1>6. CASE WorkerPublish
  BY <1>6, InUseSame DEF WorkerPublish, TypeOK, FateInv
<1>7. CASE UNCHANGED <<state, outstanding>>
  BY <1>7, InUseSame
<1>8. CASE Begin \/ AdoptOwner \/ WorkerReceive \/ WorkerDrop \/ WorkerStop \/ RequestStop \/ UNCHANGED vars
  BY <1>7, <1>8 DEF Begin, AdoptOwner, WorkerReceive, WorkerDrop, WorkerStop, RequestStop, vars
<1>9. ASSUME NEW res \in Results, WorkerExecute(res) PROVE OutstandingExact'
  BY <1>7, <1>9 DEF WorkerExecute
<1>10. QED
  BY <1>1, <1>2, <1>3, <1>4, <1>5, <1>6, <1>8, <1>9 DEF Next, Worker

\* Numbers are handed out in order, each to one slot.
LEMMA TicketNext == Inv /\ [Next]_vars => TicketInv'
<1> SUFFICES ASSUME Inv, [Next]_vars PROVE TicketInv'
  OBVIOUS
<1> USE DEF Inv, TicketInv, TypeOK, slotVars, workerVars, ownerVars, history
<1>1. ASSUME NEW r \in Requests, NEW s \in Slots, Submit(r, s) PROVE TicketInv'
  BY <1>1 DEF Submit
<1>2. ASSUME NEW r \in Requests, NEW s \in Slots, NEW res \in Results, SubmitImmediate(r, s, res)
      PROVE TicketInv'
  BY <1>2 DEF SubmitImmediate
<1>3. ASSUME NEW s \in Slots, NEW t \in 1 .. MaxSequence, Release(s, t) PROVE TicketInv'
  BY <1>3 DEF Release
<1>4. ASSUME NEW s \in Slots, NEW t \in 1 .. MaxSequence, CancelRequest(s, t) PROVE TicketInv'
  BY <1>4 DEF CancelRequest, Cancellable, Matches
<1>5. ASSUME NEW res \in Results, WorkerExecute(res) PROVE TicketInv'
  BY <1>5 DEF WorkerExecute
<1>6. CASE WorkerClaim
  BY <1>6 DEF WorkerClaim
<1>7. CASE WorkerPublish
  BY <1>7 DEF WorkerPublish, FateInv
<1>8. CASE Begin \/ AdoptOwner \/ WorkerReceive \/ WorkerDrop \/ WorkerStop \/ RequestStop \/ UNCHANGED vars
  BY <1>8 DEF Begin, AdoptOwner, WorkerReceive, WorkerDrop, WorkerStop, RequestStop, vars
<1>9. QED
  BY <1>1, <1>2, <1>3, <1>4, <1>5, <1>6, <1>7, <1>8 DEF Next, Worker

\* The worker's compare-exchange and cancel's exclude each other.
LEMMA FateNext == Inv /\ [Next]_vars => FateInv' /\ ResultIsTheTruth' /\ CancelledNeverExecuted'
<1> SUFFICES ASSUME Inv, [Next]_vars PROVE FateInv' /\ ResultIsTheTruth' /\ CancelledNeverExecuted'
  OBVIOUS
<1> USE DEF Inv, TicketInv, FateInv, ResultIsTheTruth, CancelledNeverExecuted, TypeOK,
            slotVars, workerVars, ownerVars, history
<1> DEFINE Goal == FateInv' /\ ResultIsTheTruth' /\ CancelledNeverExecuted'
<1>1. ASSUME NEW r \in Requests, NEW s \in Slots, Submit(r, s) PROVE Goal
  <2>1. state[s] = "Free" /\ seq'[s] = nextSequence + 1 /\ state'[s] \in {"Free", "Queued"}
    BY <1>1 DEF Submit, Admits, FirstFit
  <2>2. nextSequence + 1 \notin cancelled \cup executed
    OBVIOUS
  <2>3. \A u \in Slots : u # s => state'[u] = state[u] /\ seq'[u] = seq[u] /\ result'[u] = result[u]
    BY <1>1 DEF Submit
  <2>4. UNCHANGED <<worker, current, cancelled, executed>>
    BY <1>1 DEF Submit
  <2>5. QED
    BY <2>1, <2>2, <2>3, <2>4
<1>2. ASSUME NEW r \in Requests, NEW s \in Slots, NEW res \in Results, SubmitImmediate(r, s, res)
      PROVE Goal
  <2>1. /\ state[s] = "Free" /\ state'[s] = "Ready"
        /\ seq'[s] = nextSequence + 1 /\ result'[s] = res
        /\ executed' = executed \cup {nextSequence + 1}
    BY <1>2 DEF SubmitImmediate, Admits, FirstFit
  <2>2. nextSequence + 1 \notin cancelled \cup executed /\ \A u \in Slots : seq[u] # nextSequence + 1
    OBVIOUS
  <2>3. \A u \in Slots : u # s => state'[u] = state[u] /\ seq'[u] = seq[u] /\ result'[u] = result[u]
    BY <1>2 DEF SubmitImmediate
  <2>4. UNCHANGED <<worker, current, cancelled>>
    BY <1>2 DEF SubmitImmediate
  <2>5. QED
    BY <2>1, <2>2, <2>3, <2>4
<1>3. ASSUME NEW s \in Slots, NEW t \in 1 .. MaxSequence, Release(s, t) PROVE Goal
  BY <1>3 DEF Release, Readable
<1>4. ASSUME NEW s \in Slots, NEW t \in 1 .. MaxSequence, CancelRequest(s, t) PROVE Goal
  <2>1. /\ state[s] = "Queued" /\ state'[s] = "CancelQueued"
        /\ seq[s] = t /\ t # 0 /\ cancelled' = cancelled \cup {t}
    BY <1>4 DEF CancelRequest, Cancellable, Matches
  <2>2. \A u \in Slots : u # s => state'[u] = state[u] /\ seq[u] # t
    BY <1>4, <2>1 DEF CancelRequest
  <2>3. UNCHANGED <<seq, result, worker, current, executed>>
    BY <1>4 DEF CancelRequest
  <2>4. QED
    BY <2>1, <2>2, <2>3
<1>5. ASSUME NEW res \in Results, WorkerExecute(res) PROVE Goal
  <2>1. state[current] = "Running" /\ seq[current] \notin executed \cup cancelled /\ seq[current] # 0
    BY <1>5 DEF WorkerExecute
  <2>2. \A u \in Slots : u # current => seq[u] # seq[current] /\ result'[u] = result[u]
    BY <1>5, <2>1 DEF WorkerExecute
  <2>3. /\ result'[current] = res /\ executed' = executed \cup {seq[current]} /\ worker' = "publishing"
        /\ UNCHANGED <<state, seq, current, cancelled>>
    BY <1>5 DEF WorkerExecute
  <2>4. QED
    BY <2>1, <2>2, <2>3
<1>6. CASE WorkerClaim
  BY <1>6 DEF WorkerClaim
<1>7. CASE WorkerPublish
  BY <1>7 DEF WorkerPublish
<1>8. CASE WorkerDrop
  BY <1>8 DEF WorkerDrop
<1>9. CASE Begin \/ AdoptOwner \/ WorkerReceive \/ WorkerStop \/ RequestStop \/ UNCHANGED vars
  BY <1>9 DEF Begin, FinishStop, AdoptOwner, WorkerReceive, WorkerStop, RequestStop, vars
<1>10. QED
  BY <1>1, <1>2, <1>3, <1>4, <1>5, <1>6, <1>7, <1>8, <1>9 DEF Next, Worker

LEMMA InvHolds == Spec => []Inv
<1>1. Inv /\ [Next]_vars => Inv'
  BY TypeNext, OutstandingNext, TicketNext, FateNext DEF Inv
<1>2. QED
  BY InvInit, <1>1, PTL DEF Spec

\* The counter of unreleased results never underflows, and every variable keeps
\* its type (WriteQueue.cpp:193-202).
THEOREM Typing == Spec => []TypeOK
  BY InvHolds, PTL DEF Inv

\* Whatever the interleaving of cancel and executeSlot: a request whose cancel
\* returned true is never executed, every other one that is answered was, and
\* the result says which (WriteQueue.cpp:125-154, 203-208).
THEOREM CancelSafety == Spec => []FatesAreHonest
  BY InvHolds, PTL DEF Inv, FatesAreHonest
-----------------------------------------------------------------------------
(* The worker's queue and the stop protocol.                               *)

InHand(s) == worker \in {"received", "running", "publishing"} /\ current = s
Waiting == {"Queued", "CancelQueued"}

\* Every slot number is queued once, or in the worker's hands, while its slot waits.
QueueInv ==
  /\ \A i, j \in 1 .. Len(fifo) : fifo[i] = fifo[j] => i = j
  /\ \A i \in 1 .. Len(fifo) : fifo[i] # Stop => state[fifo[i]] \in Waiting /\ ~InHand(fifo[i])
  /\ \A s \in Slots : state[s] \in Waiting \cup {"Running"} =>
       InHand(s) \/ \E i \in 1 .. Len(fifo) : fifo[i] = s
  /\ worker = "received" => state[current] \in Waiting

\* The sentinel is sent once, last, to a live worker that admits nothing more.
StopInv ==
  /\ \A i \in 1 .. Len(fifo) : fifo[i] = Stop => i = Len(fifo) /\ stopRequested
  /\ stopRequested => ~accepting
  /\ accepting /\ deferred => worker # "stopped"
  /\ ~deferred => worker = "stopped"
  /\ worker = "stopped" => fifo = <<>>
  /\ StopReachesWorker

FullInv == Inv /\ QueueInv /\ StopInv

\* Without the sentinel the queue holds distinct slots only, so one place is
\* left for the sentinel.
LEMMA Credit == TypeOK /\ QueueInv /\ (\A i \in 1 .. Len(fifo) : fifo[i] # Stop) => HasCredit
<1> SUFFICES ASSUME TypeOK, QueueInv, \A i \in 1 .. Len(fifo) : fifo[i] # Stop, ~HasCredit
             PROVE  FALSE
  OBVIOUS
<1> DEFINE Places == 1 .. Len(fifo)
<1>1. Len(fifo) \in Nat /\ Len(fifo) >= NumNormal + 3
  BY DEF HasCredit, QueueDepth, TypeOK
<1>2. IsFiniteSet(Places) /\ Cardinality(Places) = Len(fifo)
  <2>1. ASSUME NEW n \in Nat PROVE IsFiniteSet(1 .. n) /\ Cardinality(1 .. n) = n
    BY FS_Interval
  <2>2. QED
    BY <1>1, <2>1
<1>3. fifo \in [Places -> Slots]
  BY DEF TypeOK
<1>4. \E i, j \in Places : i # j /\ fifo[i] = fifo[j]
  <2>1. Cardinality(Slots) < Cardinality(Places)
    BY <1>1, <1>2, SlotsFinite
  <2>2. QED
    BY <1>2, <1>3, <2>1, SlotsFinite, FS_PigeonHole
<1>5. QED
  BY <1>4 DEF QueueInv

\* A zero count leaves every slot free.
LEMMA NoneInUse == OutstandingExact /\ outstanding = 0 => \A s \in Slots : state[s] = "Free"
<1> SUFFICES ASSUME OutstandingExact, outstanding = 0 PROVE InUse = {}
  BY DEF InUse
<1>1. QED
  BY InUseFinite, FS_EmptySet DEF OutstandingExact

LEMMA AppendFacts ==
  ASSUME TypeOK, NEW x \in Slots \cup {Stop}, fifo' = Append(fifo, x)
  PROVE  /\ Len(fifo) \in Nat /\ Len(fifo') = Len(fifo) + 1
         /\ \A i \in 1 .. Len(fifo) : fifo'[i] = fifo[i]
         /\ fifo'[Len(fifo) + 1] = x
  BY AppendProperties DEF TypeOK

LEMMA TailFacts ==
  ASSUME TypeOK, fifo # <<>>, fifo' = Tail(fifo)
  PROVE  /\ Len(fifo) \in Nat \ {0} /\ Len(fifo') = Len(fifo) - 1
         /\ \A i \in 1 .. Len(fifo') : fifo'[i] = fifo[i + 1]
         /\ Head(fifo) = fifo[1]
  BY HeadTailProperties DEF TypeOK

LEMMA FullInvInit == Init => FullInv
<1>1. Init => QueueInv /\ StopInv
  BY DEF Init, QueueInv, StopInv, StopReachesWorker, InHand, Waiting
<1>2. QED
  BY <1>1, InvInit DEF FullInv

LEMMA QueueNext == FullInv /\ [Next]_vars => QueueInv'
<1> SUFFICES ASSUME FullInv, [Next]_vars PROVE QueueInv'
  OBVIOUS
<1> USE DEF FullInv, Inv, InHand, Waiting, slotVars, workerVars, ownerVars, history
<1>t. TypeOK /\ FateInv
  OBVIOUS
<1>1. ASSUME NEW r \in Requests, NEW s \in Slots, Submit(r, s) PROVE QueueInv'
  <2>1. state[s] = "Free" /\ worker' = worker /\ current' = current /\ s # Stop
    BY <1>1 DEF Submit, Admits, FirstFit, Slots
  <2>2. \A i \in 1 .. Len(fifo) : fifo[i] # s
    BY <2>1 DEF QueueInv
  <2>3. ~InHand(s)
    BY <2>1 DEF QueueInv, FateInv
  <2>4. \A u \in Slots : u # s => state'[u] = state[u]
    BY <1>1, <1>t DEF Submit, TypeOK
  <2>5. CASE HasCredit
    <3>1. state'[s] = "Queued" /\ fifo' = Append(fifo, s)
      BY <1>1, <1>t, <2>5 DEF Submit, Enqueue, TypeOK
    <3>2. /\ Len(fifo) \in Nat /\ Len(fifo') = Len(fifo) + 1
          /\ \A i \in 1 .. Len(fifo) : fifo'[i] = fifo[i]
          /\ fifo'[Len(fifo) + 1] = s
      BY <3>1, AppendFacts
    <3>3. \A i \in 1 .. Len(fifo') : i \in 1 .. Len(fifo) \/ i = Len(fifo) + 1
      BY <3>2
    <3>4. \A i \in 1 .. Len(fifo) : fifo[i] \in Slots \cup {Stop}
      BY <1>t DEF TypeOK
    <3>5. \A i, j \in 1 .. Len(fifo') : fifo'[i] = fifo'[j] => i = j
      BY <2>2, <3>2, <3>3 DEF QueueInv
    <3>6. (\A i \in 1 .. Len(fifo) : fifo[i] # Stop => state[fifo[i]] \in Waiting /\ ~InHand(fifo[i]))'
      BY <2>1, <2>2, <2>3, <2>4, <3>1, <3>2, <3>3, <3>4 DEF QueueInv
    <3>7. \A u \in Slots : state'[u] \in Waiting \cup {"Running"} =>
            InHand(u)' \/ \E i \in 1 .. Len(fifo') : fifo'[i] = u
      BY <2>1, <2>4, <3>1, <3>2 DEF QueueInv
    <3>8. worker' = "received" => state'[current'] \in Waiting
      BY <1>t, <2>1, <2>3, <2>4 DEF QueueInv, TypeOK
    <3>9. QED
      BY <3>5, <3>6, <3>7, <3>8 DEF QueueInv
  <2>6. CASE ~HasCredit
    <3>1. state' = state /\ fifo' = fifo
      BY <1>1, <1>t, <2>1, <2>6 DEF Submit, TypeOK
    <3>2. QED
      BY <2>1, <3>1 DEF QueueInv
  <2>7. QED
    BY <2>5, <2>6
<1>2. ASSUME NEW r \in Requests, NEW s \in Slots, NEW res \in Results, SubmitImmediate(r, s, res)
      PROVE QueueInv'
  <2>1. fifo = <<>> /\ worker = "stopped" /\ UNCHANGED <<fifo, worker, current>>
    BY <1>2 DEF SubmitImmediate, StopInv
  <2>2. \A u \in Slots : state'[u] = state[u] \/ state'[u] = "Ready"
    BY <1>2, <1>t DEF SubmitImmediate, TypeOK
  <2>3. QED
    BY <2>1, <2>2 DEF QueueInv
<1>3. ASSUME NEW s \in Slots, NEW t \in 1 .. MaxSequence, Release(s, t) PROVE QueueInv'
  BY <1>3, <1>t DEF Release, Readable, QueueInv, TypeOK
<1>4. ASSUME NEW s \in Slots, NEW t \in 1 .. MaxSequence, CancelRequest(s, t) PROVE QueueInv'
  BY <1>4, <1>t DEF CancelRequest, Cancellable, QueueInv, TypeOK
<1>5. CASE WorkerReceive
  <2>1. /\ worker = "idle" /\ worker' = "received" /\ state' = state
        /\ current' = fifo[1] /\ fifo[1] # Stop /\ fifo # <<>> /\ fifo' = Tail(fifo)
    BY <1>5, TailFacts DEF WorkerReceive
  <2>2. /\ Len(fifo) \in Nat \ {0} /\ Len(fifo') = Len(fifo) - 1
        /\ \A i \in 1 .. Len(fifo') : fifo'[i] = fifo[i + 1]
    BY <2>1, TailFacts
  <2>3. \A i \in 1 .. Len(fifo') : i + 1 \in 1 .. Len(fifo) /\ i + 1 # 1
    BY <2>2
  <2>4. \A i \in 1 .. Len(fifo) : i = 1 \/ i - 1 \in 1 .. Len(fifo')
    BY <2>2
  <2>5. \A i, j \in 1 .. Len(fifo') : fifo'[i] = fifo'[j] => i = j
    BY <2>2, <2>3 DEF QueueInv
  <2>6. (\A i \in 1 .. Len(fifo) : fifo[i] # Stop => state[fifo[i]] \in Waiting /\ ~InHand(fifo[i]))'
    BY <2>1, <2>2, <2>3 DEF QueueInv
  <2>7. ASSUME NEW u \in Slots, state'[u] \in Waiting \cup {"Running"}
        PROVE  InHand(u)' \/ \E i \in 1 .. Len(fifo') : fifo'[i] = u
    <3>1. ~InHand(u)
      BY <2>1
    <3>2. PICK i \in 1 .. Len(fifo) : fifo[i] = u
      BY <2>1, <2>7, <3>1 DEF QueueInv
    <3>3. CASE i = 1
      BY <2>1, <3>2, <3>3
    <3>4. CASE i # 1
      <4>1. i - 1 \in 1 .. Len(fifo') /\ fifo'[i - 1] = fifo[(i - 1) + 1] /\ (i - 1) + 1 = i
        BY <2>2, <2>4, <3>2, <3>4
      <4>2. QED
        BY <3>2, <4>1
    <3>5. QED
      BY <3>3, <3>4
  <2>8. state'[current'] \in Waiting
    BY <2>1, <2>2 DEF QueueInv
  <2>9. QED
    BY <2>5, <2>6, <2>7, <2>8 DEF QueueInv
<1>6. CASE WorkerClaim
  <2>1. /\ worker = "received" /\ worker' = "running" /\ UNCHANGED <<fifo, current>>
        /\ state'[current] = "Running" /\ \A u \in Slots : u # current => state'[u] = state[u]
    BY <1>6, <1>t DEF WorkerClaim, TypeOK
  <2>2. \A i \in 1 .. Len(fifo) : fifo[i] # current /\ fifo[i] \in Slots \cup {Stop}
    BY <1>t, <2>1, StopAssumption DEF QueueInv, TypeOK, Slots
  <2>3. QED
    BY <2>1, <2>2 DEF QueueInv
<1>7. CASE WorkerDrop
  BY <1>7 DEF WorkerDrop, QueueInv
<1>8. ASSUME NEW res \in Results, WorkerExecute(res) PROVE QueueInv'
  BY <1>8 DEF WorkerExecute, QueueInv
<1>9. CASE WorkerPublish
  BY <1>9, <1>t DEF WorkerPublish, QueueInv, TypeOK, FateInv
<1>10. CASE WorkerStop
  <2>1. /\ worker = "idle" /\ worker' = "stopped" /\ UNCHANGED <<state, current>>
        /\ fifo[1] = Stop /\ fifo # <<>> /\ fifo' = Tail(fifo)
    BY <1>10, TailFacts DEF WorkerStop
  <2>t. Len(fifo) \in Nat \ {0} /\ Len(fifo') = Len(fifo) - 1
    BY <2>1, TailFacts
  <2>2. Len(fifo) = 1 /\ Len(fifo') = 0
    <3>1. 1 \in 1 .. Len(fifo)
      BY <2>t
    <3>2. \A i \in 1 .. Len(fifo) : fifo[i] = Stop => i = Len(fifo)
      BY DEF StopInv
    <3>3. 1 = Len(fifo)
      BY <2>1, <3>1, <3>2
    <3>4. Len(fifo') = 1 - 1
      BY <2>t, <3>3
    <3>5. QED
      BY <3>3, <3>4
  <2>3. \A u \in Slots : u # Stop
    BY DEF Slots
  <2>4. \A u \in Slots : state[u] \notin Waiting \cup {"Running"}
    BY <2>1, <2>2, <2>3 DEF QueueInv
  <2>5. \A i : i \notin 1 .. Len(fifo')
    BY <2>2
  <2>6. QED
    BY <2>1, <2>4, <2>5 DEF QueueInv
<1>11. CASE RequestStop
  <2>1. UNCHANGED <<state, worker, current>>
    BY <1>11 DEF RequestStop
  <2>2. CASE fifo' = fifo
    BY <2>1, <2>2 DEF QueueInv
  <2>3. CASE ~stopRequested /\ fifo' = Append(fifo, Stop)
    <3>1. /\ Len(fifo) \in Nat /\ Len(fifo') = Len(fifo) + 1
          /\ \A i \in 1 .. Len(fifo) : fifo'[i] = fifo[i]
          /\ fifo'[Len(fifo) + 1] = Stop
      BY <2>3, AppendFacts
    <3>2. \A i \in 1 .. Len(fifo) : fifo[i] # Stop
      BY <2>3 DEF StopInv
    <3>3. \A i \in 1 .. Len(fifo') : i \in 1 .. Len(fifo) \/ i = Len(fifo) + 1
      BY <3>1
    <3>4. QED
      BY <2>1, <3>1, <3>2, <3>3 DEF QueueInv
  <2>4. QED
    BY <1>11, <2>2, <2>3 DEF RequestStop
<1>12. CASE Begin
  BY <1>12 DEF Begin, FinishStop, StopInv, QueueInv
<1>13. CASE AdoptOwner \/ UNCHANGED vars
  BY <1>13 DEF AdoptOwner, vars, QueueInv
<1>14. QED
  BY <1>1, <1>2, <1>3, <1>4, <1>5, <1>6, <1>7, <1>8, <1>9, <1>10, <1>11, <1>12, <1>13 DEF Next, Worker

LEMMA StopNext == FullInv /\ [Next]_vars => StopInv'
<1> SUFFICES ASSUME FullInv, [Next]_vars PROVE StopInv'
  OBVIOUS
<1> USE DEF FullInv, Inv, StopInv, StopReachesWorker, slotVars, workerVars, ownerVars, history
<1>t. TypeOK
  OBVIOUS
<1>1. ASSUME NEW r \in Requests, NEW s \in Slots, Submit(r, s) PROVE StopInv'
  <2>1. ~stopRequested /\ s # Stop
    BY <1>1 DEF Submit, Admits, Slots
  <2>2. \A i \in 1 .. Len(fifo) : fifo[i] # Stop
    BY <2>1
  <2>3. HasCredit /\ fifo' = Append(fifo, s)
    BY <1>1, <1>t, <2>2, Credit DEF Submit, Enqueue
  <2>4. /\ Len(fifo) \in Nat /\ Len(fifo') = Len(fifo) + 1
        /\ \A i \in 1 .. Len(fifo) : fifo'[i] = fifo[i]
        /\ fifo'[Len(fifo) + 1] = s
    BY <1>t, <2>3, AppendFacts
  <2>5. \A i \in 1 .. Len(fifo') : i \in 1 .. Len(fifo) \/ i = Len(fifo) + 1
    BY <2>4
  <2>6. \A i \in 1 .. Len(fifo') : fifo'[i] # Stop
    BY <2>1, <2>2, <2>4, <2>5
  <2>7. deferred /\ accepting /\ UNCHANGED <<worker, deferred, accepting, stopRequested>>
    BY <1>1 DEF Submit, Admits
  <2>8. QED
    BY <2>1, <2>6, <2>7
<1>2. CASE WorkerReceive
  <2>1. fifo # <<>> /\ fifo' = Tail(fifo) /\ worker' = "received" /\ fifo[1] # Stop /\ worker = "idle"
    BY <1>2, <1>t, TailFacts DEF WorkerReceive
  <2>2. /\ Len(fifo) \in Nat \ {0} /\ Len(fifo') = Len(fifo) - 1
        /\ \A i \in 1 .. Len(fifo') : fifo'[i] = fifo[i + 1]
    BY <1>t, <2>1, TailFacts
  <2>3. UNCHANGED <<deferred, accepting, stopRequested>>
    BY <1>2 DEF WorkerReceive
  <2>4. \A i \in 1 .. Len(fifo') : fifo'[i] = Stop => i = Len(fifo') /\ stopRequested'
    <3>1. \A i \in 1 .. Len(fifo') : i + 1 \in 1 .. Len(fifo)
      BY <2>2
    <3>2. QED
      BY <2>2, <2>3, <3>1
  <2>5. ASSUME stopRequested PROVE \E i \in 1 .. Len(fifo') : fifo'[i] = Stop
    <3>1. PICK i \in 1 .. Len(fifo) : fifo[i] = Stop
      BY <2>1, <2>5
    <3>2. i # 1
      BY <2>1, <3>1
    <3>3. i - 1 \in 1 .. Len(fifo') /\ (i - 1) + 1 = i
      BY <2>2, <3>2
    <3>4. fifo'[i - 1] = Stop
      BY <2>2, <3>1, <3>3
    <3>5. QED
      BY <3>3, <3>4
  <2>6. QED
    BY <2>1, <2>3, <2>4, <2>5
<1>3. CASE WorkerStop
  <2>1. /\ worker = "idle" /\ worker' = "stopped" /\ UNCHANGED <<deferred, accepting, stopRequested>>
        /\ fifo[1] = Stop /\ fifo # <<>> /\ fifo' = Tail(fifo)
    BY <1>3, <1>t, TailFacts DEF WorkerStop
  <2>2. Len(fifo) \in Nat \ {0} /\ Len(fifo') = Len(fifo) - 1
    BY <1>t, <2>1, TailFacts
  <2>3. 1 \in 1 .. Len(fifo)
    BY <2>2
  <2>4. 1 = Len(fifo) /\ stopRequested
    BY <2>1, <2>3
  <2>5. Len(fifo') = 0
    <3>1. Len(fifo') = 1 - 1
      BY <2>2, <2>4
    <3>2. QED
      BY <3>1
  <2>6. fifo' = <<>>
    BY <1>t, <2>1, <2>5, HeadTailProperties, EmptySeq DEF TypeOK
  <2>7. QED
    BY <2>1, <2>4, <2>6
<1>4. CASE RequestStop
  <2>1. accepting' = FALSE /\ stopRequested' = TRUE /\ worker' = worker /\ deferred' = deferred
    BY <1>4 DEF RequestStop
  <2>2. CASE stopRequested \/ worker = "stopped"
    <3>1. fifo' = fifo
      BY <1>4, <2>2 DEF RequestStop
    <3>2. QED
      BY <2>1, <2>2, <3>1
  <2>3. CASE ~stopRequested /\ worker # "stopped"
    <3>1. \A i \in 1 .. Len(fifo) : fifo[i] # Stop
      BY <2>3
    <3>2. fifo' = Append(fifo, Stop)
      BY <1>4, <1>t, <2>3, <3>1, Credit DEF RequestStop
    <3>3. /\ Len(fifo) \in Nat /\ Len(fifo') = Len(fifo) + 1
          /\ \A i \in 1 .. Len(fifo) : fifo'[i] = fifo[i]
          /\ fifo'[Len(fifo) + 1] = Stop
      BY <1>t, <3>2, AppendFacts
    <3>4. \A i \in 1 .. Len(fifo') : i \in 1 .. Len(fifo) \/ i = Len(fifo) + 1
      BY <3>3
    <3>5. Len(fifo') \in 1 .. Len(fifo')
      BY <3>3
    <3>6. QED
      BY <2>1, <2>3, <3>1, <3>3, <3>4, <3>5
  <2>4. QED
    BY <2>2, <2>3
<1>5. CASE Begin
  BY <1>5 DEF Begin, FinishStop
<1>6. CASE WorkerClaim \/ WorkerDrop \/ WorkerPublish
  BY <1>6 DEF WorkerClaim, WorkerDrop, WorkerPublish
<1>7. ASSUME NEW res \in Results, WorkerExecute(res) PROVE StopInv'
  BY <1>7 DEF WorkerExecute
<1>8. CASE UNCHANGED <<fifo, worker, deferred, accepting, stopRequested>>
  BY <1>8
<1>9. CASE AdoptOwner \/ UNCHANGED vars
  BY <1>8, <1>9 DEF AdoptOwner, vars
<1>10. ASSUME NEW r \in Requests, NEW s \in Slots, NEW res \in Results, SubmitImmediate(r, s, res)
       PROVE StopInv'
  BY <1>8, <1>10 DEF SubmitImmediate
<1>11. ASSUME NEW s \in Slots, NEW t \in 1 .. MaxSequence, Release(s, t) \/ CancelRequest(s, t)
       PROVE StopInv'
  BY <1>8, <1>11 DEF Release, CancelRequest
<1>12. QED
  BY <1>1, <1>2, <1>3, <1>4, <1>5, <1>6, <1>7, <1>9, <1>10, <1>11 DEF Next, Worker

LEMMA FullInvHolds == Spec => []FullInv
<1>1. FullInv /\ [Next]_vars => FullInv'
  BY TypeNext, OutstandingNext, TicketNext, FateNext, QueueNext, StopNext DEF FullInv, Inv
<1>2. QED
  BY FullInvInit, <1>1, PTL DEF Spec

\* However many requests are queued, requestStop finds a place for the sentinel,
\* and it stays in the queue until the worker meets it (WriteQueue.cpp:226-236).
THEOREM StopSafety == Spec => []StopReachesWorker
  BY FullInvHolds, PTL DEF FullInv, StopInv

\* What finishStop reports is final: no slot is in use and no number is queued
\* (WriteQueue.cpp:237-243).
THEOREM FinishSafety == Spec => []FinishedIsQuiet
<1>1. FullInv => FinishedIsQuiet
  BY NoneInUse DEF FullInv, Inv, StopInv, FinishedIsQuiet, FinishStop
<1>2. QED
  BY <1>1, FullInvHolds, PTL

\* The owner changes only while nothing is queued, executed or unreleased
\* (WriteQueue.cpp:50-54).
THEOREM HandoffSafety == Spec => HandoffIsQuiet
<1> DEFINE Quiet == owner' # owner => /\ \A s \in Slots : state[s] = "Free"
                                      /\ worker \in {"idle", "stopped"}
                                      /\ fifo = <<>>
<1>1. ASSUME FullInv, [Next]_vars, owner' # owner PROVE Quiet
  <2>1. CanAdopt
    BY <1>1 DEF Next, Worker, Begin, AdoptOwner, Submit, SubmitImmediate, WorkerReceive, WorkerClaim, WorkerDrop,
       WorkerExecute, WorkerPublish, WorkerStop, Release, CancelRequest, RequestStop,
       vars, slotVars, workerVars, ownerVars, history
  <2>2. \A s \in Slots : state[s] = "Free"
    BY <1>1, <2>1, NoneInUse DEF CanAdopt, FullInv, Inv
  <2>3. worker \in {"idle", "stopped"}
    BY <1>1, <2>2 DEF FullInv, Inv, TypeOK, FateInv, QueueInv, Waiting, WorkerStates
  <2>4. fifo = <<>>
    <3>1. CASE worker = "stopped"
      BY <1>1, <3>1 DEF FullInv, StopInv
    <3>2. CASE worker # "stopped"
      <4>1. ~stopRequested
        BY <2>1, <3>2 DEF CanAdopt
      <4>2. \A i \in 1 .. Len(fifo) : fifo[i] # Stop /\ fifo[i] \in Slots \cup {Stop}
        BY <1>1, <4>1 DEF FullInv, StopInv, Inv, TypeOK
      <4>3. \A i \in 1 .. Len(fifo) : FALSE
        BY <1>1, <2>2, <4>2 DEF FullInv, QueueInv, Waiting
      <4>4. Len(fifo) \in Nat /\ Len(fifo) = 0
        BY <1>1, <4>3 DEF FullInv, Inv, TypeOK
      <4>5. QED
        BY <1>1, <4>4, EmptySeq DEF FullInv, Inv, TypeOK
    <3>3. QED
      BY <3>1, <3>2
  <2>5. QED
    BY <2>2, <2>3, <2>4
<1>2. FullInv /\ [Next]_vars => [Quiet]_vars
  BY <1>1
<1>3. QED
  BY <1>2, FullInvHolds, PTL DEF Spec, HandoffIsQuiet

\* No slot number is lost, queued twice or queued while its slot is free or
\* answered (WriteQueue.cpp:111-121, 193-202).
THEOREM HeldOnce == Spec => []EverySlotHeldOnce
<1>1. ASSUME FullInv, NEW s \in Slots
      PROVE  Holder(s) = IF state[s] \in {"Free", "Ready"} THEN 0 ELSE 1
  <2> DEFINE Places == {i \in 1 .. Len(fifo) : fifo[i] = s}
  <2> USE DEF FullInv, Inv
  <2>1. state[s] \in SlotStates /\ s # Stop
    BY <1>1 DEF TypeOK, Slots
  <2>2. InHand(s) => Places = {}
    BY <1>1, <2>1 DEF QueueInv
  <2>3. InHand(s) => state[s] \in Waiting \cup {"Running"}
    BY <1>1 DEF FateInv, QueueInv, InHand, Waiting
  <2>4. Places # {} => state[s] \in Waiting
    BY <1>1, <2>1 DEF QueueInv
  <2>5. Places # {} => \E i : Places = {i}
    <3>1. SUFFICES ASSUME NEW i \in Places PROVE Places = {i}
      OBVIOUS
    <3>2. \A j \in Places : j = i
      BY <1>1 DEF QueueInv
    <3>3. QED
      BY <3>2
  <2>6. Cardinality(Places) = IF Places = {} THEN 0 ELSE 1
    BY <2>5, FS_EmptySet, FS_Singleton
  <2>7. state[s] \in Waiting \cup {"Running"} => InHand(s) \/ Places # {}
    BY <1>1 DEF QueueInv
  <2>8. Holder(s) = Cardinality(Places) + (IF InHand(s) THEN 1 ELSE 0)
    BY DEF Holder, InHand
  <2>9. QED
    BY <2>1, <2>2, <2>3, <2>4, <2>6, <2>7, <2>8 DEF SlotStates, Waiting
<1>2. FullInv => EverySlotHeldOnce
  BY <1>1 DEF EverySlotHeldOnce
<1>3. QED
  BY <1>2, FullInvHolds, PTL
-----------------------------------------------------------------------------
(* WriteQueue implements TicketedExecutor.  The tickets whose fate is open *)
(* are the last ones handed out, and they stand in the worker's queue in   *)
(* the order of their numbers: so the worker decides the tickets in order, *)
(* although slots are used again in any order.                             *)

\* How many slot numbers wait in the queue: all but the sentinel.
Waits == IF fifo # <<>> /\ fifo[Len(fifo)] = Stop THEN Len(fifo) - 1 ELSE Len(fifo)
Taken == IF worker = "received" THEN 1 ELSE 0
Busy == worker \in {"running", "publishing"}

\* The last ticket decided and the last one published.
LastDecided == nextSequence - Waits - Taken
LastPublished == IF Busy THEN LastDecided - 1 ELSE LastDecided

\* The queue holds the last tickets handed out, in order, behind the one taken
\* from it; a slot that is being answered has the ticket before them.
OrderInv ==
  /\ LastDecided \in Nat
  /\ \A i \in 1 .. Waits : seq[fifo[i]] = LastDecided + Taken + i
  /\ worker = "received" => seq[current] = LastDecided + 1
  /\ Busy => seq[current] = LastDecided

TicketsInv == FullInv /\ OrderInv

\* The steps that decide a fate: the worker's compare-exchange, and a submit
\* that executes its request itself.
Decides ==
  \/ worker = "received" /\ worker' # "received"
  \/ ~deferred /\ nextSequence' # nextSequence
DecidedNext == LastDecided' = IF Decides THEN LastDecided + 1 ELSE LastDecided

LEMMA WaitsFacts ==
  ASSUME FullInv
  PROVE  /\ Waits \in Nat /\ Waits <= Len(fifo) /\ Len(fifo) \in Nat
         /\ \A i \in 1 .. Waits : i \in 1 .. Len(fifo) /\ fifo[i] \in Slots /\ fifo[i] # Stop
         /\ \A i \in 1 .. Len(fifo) : i \in 1 .. Waits \/ fifo[i] = Stop
<1>1. Len(fifo) \in Nat /\ (fifo # <<>> => Len(fifo) # 0)
  BY EmptySeq DEF FullInv, Inv, TypeOK
<1>2. \A i \in 1 .. Len(fifo) : fifo[i] \in Slots \cup {Stop}
  BY DEF FullInv, Inv, TypeOK
<1>3. \A i \in 1 .. Len(fifo) : fifo[i] = Stop => i = Len(fifo)
  BY DEF FullInv, StopInv
<1>4. CASE fifo # <<>> /\ fifo[Len(fifo)] = Stop
  BY <1>1, <1>2, <1>3, <1>4 DEF Waits
<1>5. CASE fifo = <<>> \/ fifo[Len(fifo)] # Stop
  <2>1. Waits = Len(fifo)
    BY <1>5 DEF Waits
  <2>2. \A i \in 1 .. Len(fifo) : fifo[i] # Stop
    BY <1>1, <1>3, <1>5
  <2>3. QED
    BY <1>1, <1>2, <2>1, <2>2
<1>6. QED
  BY <1>4, <1>5

\* Nothing waits once the sentinel's place is the only one.
LEMMA NoStopWaits ==
  ASSUME FullInv, \A i \in 1 .. Len(fifo) : fifo[i] # Stop
  PROVE  Waits = Len(fifo)
<1>1. Len(fifo) \in Nat /\ (fifo # <<>> => Len(fifo) # 0)
  BY EmptySeq DEF FullInv, Inv, TypeOK
<1>2. QED
  BY <1>1 DEF Waits

LEMMA OrderInit == Init => TicketsInv
<1> SUFFICES ASSUME Init PROVE TicketsInv
  OBVIOUS
<1>1. Waits = 0 /\ Taken = 0 /\ ~Busy /\ nextSequence = 0 /\ worker # "received"
  BY DEF Init, Waits, Taken, Busy
<1>2. OrderInv
  BY <1>1 DEF OrderInv, LastDecided
<1>3. QED
  BY <1>2, FullInvInit DEF TicketsInv

\* The queue only loses its head, takes the newest ticket at its end, or stays.
LEMMA OrderNext == TicketsInv /\ [Next]_vars => OrderInv' /\ DecidedNext
<1> SUFFICES ASSUME TicketsInv, [Next]_vars PROVE OrderInv' /\ DecidedNext
  OBVIOUS
<1> DEFINE Goal == OrderInv' /\ DecidedNext
<1> USE DEF DecidedNext, Decides
<1> USE DEF slotVars, workerVars, ownerVars, history
<1>0. FullInv /\ OrderInv /\ nextSequence \in Nat
  BY DEF TicketsInv, FullInv, Inv, TypeOK
<1>1. ASSUME UNCHANGED <<seq, current, nextSequence, fifo>>, Taken' = Taken, Busy' => Busy
      PROVE  Goal
  <2>1. Waits' = Waits /\ LastDecided' = LastDecided
    BY <1>1 DEF Waits, LastDecided
  <2>2. worker' = "received" <=> worker = "received"
    BY <1>1 DEF Taken
  <2>3. QED
    BY <1>0, <1>1, <2>1, <2>2 DEF OrderInv
<1>2. ASSUME NEW r \in Requests, NEW s \in Slots, Submit(r, s) PROVE Goal
  <2>1. /\ \A i \in 1 .. Len(fifo) : fifo[i] # Stop
        /\ state[s] = "Free"
    BY <1>0, <1>2 DEF Submit, Admits, FirstFit, FullInv, StopInv
  <2>2. HasCredit
    BY <1>0, <2>1, Credit DEF FullInv, Inv
  <2>3. /\ fifo' = Append(fifo, s) /\ nextSequence' = nextSequence + 1
        /\ seq' = [seq EXCEPT ![s] = nextSequence + 1]
        /\ deferred /\ UNCHANGED <<worker, current>>
    BY <1>2, <2>2 DEF Submit, Enqueue
  <2>4. /\ Len(fifo) \in Nat /\ Len(fifo') = Len(fifo) + 1
        /\ \A i \in 1 .. Len(fifo) : fifo'[i] = fifo[i]
        /\ fifo'[Len(fifo) + 1] = s
    BY <1>0, <2>3, AppendFacts DEF FullInv, Inv
  <2>5. Waits = Len(fifo)
    BY <1>0, <2>1, NoStopWaits
  <2>6. Waits' = Waits + 1
    BY <2>4, <2>5 DEF Waits, Slots
  <2>7. Taken' = Taken /\ Taken \in {0, 1} /\ LastDecided' = LastDecided /\ Busy' = Busy
    BY <1>0, <2>3, <2>4, <2>5, <2>6 DEF Taken, LastDecided, Busy
  <2>8. \A i \in 1 .. Waits : seq'[fifo'[i]] = seq[fifo[i]]
    BY <1>0, <2>1, <2>3, <2>4, <2>5, WaitsFacts DEF FullInv, Inv, TypeOK, QueueInv, Waiting
  <2>9. seq'[fifo'[Waits + 1]] = LastDecided' + Taken' + (Waits + 1)
    BY <1>0, <2>3, <2>4, <2>5, <2>7 DEF FullInv, Inv, TypeOK, LastDecided
  <2>10. worker = "received" \/ Busy => state[current] # "Free"
    BY <1>0 DEF FullInv, Inv, FateInv, QueueInv, Waiting, Busy
  <2>11. worker = "received" \/ Busy => seq'[current] = seq[current]
    BY <1>0, <2>1, <2>3, <2>10 DEF FullInv, Inv, TypeOK
  <2>12. \A i \in 1 .. Waits' : i \in 1 .. Waits \/ i = Waits + 1
    BY <2>4, <2>5, <2>6
  <2>13. \A i \in 1 .. Waits' : seq'[fifo'[i]] = LastDecided' + Taken' + i
    BY <1>0, <2>7, <2>8, <2>9, <2>12 DEF OrderInv
  <2>14. QED
    BY <1>0, <2>3, <2>7, <2>11, <2>13 DEF OrderInv
<1>3. ASSUME NEW r \in Requests, NEW s \in Slots, NEW res \in Results, SubmitImmediate(r, s, res)
      PROVE  Goal
  <2>1. ~deferred /\ worker = "stopped" /\ fifo = <<>>
    BY <1>0, <1>3 DEF SubmitImmediate, FullInv, StopInv
  <2>2. UNCHANGED <<fifo, worker, current>> /\ nextSequence' = nextSequence + 1
    BY <1>3 DEF SubmitImmediate
  <2>3. /\ Waits = 0 /\ Taken = 0
        /\ Waits' = 0 /\ Taken' = 0 /\ ~Busy' /\ worker' # "received"
    BY <2>1, <2>2 DEF Waits, Taken, Busy
  <2>4. QED
    BY <1>0, <2>1, <2>2, <2>3 DEF OrderInv, LastDecided
<1>4. CASE WorkerReceive
  <2>1. /\ worker = "idle" /\ fifo # <<>> /\ Head(fifo) # Stop /\ current' = Head(fifo)
        /\ fifo' = Tail(fifo) /\ worker' = "received" /\ UNCHANGED <<seq, nextSequence>>
    BY <1>4 DEF WorkerReceive
  <2>2. /\ Len(fifo) \in Nat \ {0} /\ Len(fifo') = Len(fifo) - 1
        /\ \A i \in 1 .. Len(fifo') : fifo'[i] = fifo[i + 1]
        /\ Head(fifo) = fifo[1]
    BY <1>0, <2>1, TailFacts DEF FullInv, Inv
  <2>3. Waits \in Nat \ {0} /\ Waits' = Waits - 1
    <3>1. CASE fifo[Len(fifo)] = Stop
      <4>1. Len(fifo) # 1
        BY <2>1, <2>2, <3>1
      <4>2. fifo' # <<>>
        <5>1. Len(fifo') # 0
          BY <2>2, <4>1
        <5>2. fifo' = <<>> => Len(fifo') = 0
          OBVIOUS
        <5>3. QED
          BY <5>1, <5>2
      <4>3. Len(fifo') \in 1 .. Len(fifo') /\ fifo'[Len(fifo')] = Stop
        BY <2>2, <3>1, <4>1
      <4>4. QED
        BY <2>1, <2>2, <3>1, <4>1, <4>2, <4>3 DEF Waits
    <3>2. CASE fifo[Len(fifo)] # Stop
      <4>1. fifo' = <<>> => Len(fifo') = 0
        OBVIOUS
      <4>2. fifo' # <<>> => Len(fifo') # 0
        BY <1>0, <2>1, HeadTailProperties, EmptySeq DEF FullInv, Inv, TypeOK
      <4>3. fifo' # <<>> => fifo'[Len(fifo')] # Stop
        BY <2>2, <3>2, <4>2
      <4>4. QED
        BY <2>1, <2>2, <3>2, <4>3 DEF Waits
    <3>3. QED
      BY <3>1, <3>2
  <2>4. Taken = 0 /\ Taken' = 1 /\ ~Busy' /\ LastDecided' = LastDecided
    BY <1>0, <2>1, <2>3 DEF Taken, Busy, LastDecided
  <2>5. \A i \in 1 .. Waits' : i + 1 \in 1 .. Waits /\ i \in 1 .. Len(fifo')
    BY <1>0, <2>2, <2>3, WaitsFacts
  <2>6. \A i \in 1 .. Waits' : seq'[fifo'[i]] = LastDecided' + Taken' + i
    BY <1>0, <2>1, <2>2, <2>4, <2>5 DEF OrderInv
  <2>7. seq'[current'] = LastDecided' + 1
    BY <1>0, <2>1, <2>2, <2>3, <2>4 DEF OrderInv
  <2>8. QED
    BY <1>0, <2>1, <2>4, <2>6, <2>7 DEF OrderInv
<1>5. ASSUME worker = "received", worker' \in {"running", "publishing"},
             UNCHANGED <<seq, current, nextSequence, fifo>>
      PROVE  Goal
  <2>1. Waits' = Waits /\ Taken = 1 /\ Taken' = 0 /\ Busy'
    BY <1>5 DEF Waits, Taken, Busy
  <2>2. LastDecided' = LastDecided + 1
    BY <1>0, <1>5, <2>1, WaitsFacts DEF LastDecided
  <2>3. \A i \in 1 .. Waits' : seq'[fifo'[i]] = LastDecided' + Taken' + i
    BY <1>0, <1>5, <2>1, <2>2, WaitsFacts DEF OrderInv
  <2>4. seq'[current'] = LastDecided'
    BY <1>0, <1>5, <2>2 DEF OrderInv
  <2>5. QED
    BY <1>0, <1>5, <2>2, <2>3, <2>4 DEF OrderInv
<1>6. CASE WorkerStop
  <2>1. /\ worker = "idle" /\ fifo # <<>> /\ Head(fifo) = Stop
        /\ fifo' = Tail(fifo) /\ worker' = "stopped" /\ UNCHANGED <<seq, nextSequence>>
    BY <1>6 DEF WorkerStop
  <2>2. /\ Len(fifo) \in Nat \ {0} /\ Len(fifo') = Len(fifo) - 1
        /\ Head(fifo) = fifo[1]
    BY <1>0, <2>1, TailFacts DEF FullInv, Inv
  <2>3. Len(fifo) = 1
    <3>1. 1 \in 1 .. Len(fifo) /\ fifo[1] = Stop
      BY <2>1, <2>2
    <3>2. QED
      BY <1>0, <3>1 DEF FullInv, StopInv
  <2>4. Waits = 0 /\ Waits' = 0
    <3>1. Len(fifo') = 0 /\ fifo' \in Seq(Slots \cup {Stop})
      BY <1>0, <2>1, <2>2, <2>3, HeadTailProperties DEF FullInv, Inv, TypeOK
    <3>2. fifo' = <<>>
      BY <3>1, EmptySeq
    <3>3. QED
      BY <2>1, <2>2, <2>3, <3>1, <3>2 DEF Waits
  <2>5. Taken = 0 /\ Taken' = 0 /\ ~Busy' /\ LastDecided' = LastDecided /\ worker' # "received"
    BY <2>1, <2>4 DEF Taken, Busy, LastDecided
  <2>6. QED
    BY <1>0, <2>1, <2>4, <2>5 DEF OrderInv
<1>7. CASE RequestStop
  <2>1. UNCHANGED <<seq, worker, current, nextSequence>>
    BY <1>7 DEF RequestStop
  <2>2. CASE UNCHANGED fifo
    BY <1>1, <2>1, <2>2 DEF Taken, Busy
  <2>3. CASE fifo' # fifo
    <3>1. ~stopRequested /\ fifo' = Append(fifo, Stop)
      BY <1>7, <2>3 DEF RequestStop
    <3>2. \A i \in 1 .. Len(fifo) : fifo[i] # Stop
      BY <1>0, <3>1 DEF FullInv, StopInv
    <3>3. /\ Len(fifo) \in Nat /\ Len(fifo') = Len(fifo) + 1
          /\ \A i \in 1 .. Len(fifo) : fifo'[i] = fifo[i]
          /\ fifo'[Len(fifo) + 1] = Stop
      BY <1>0, <3>1, AppendFacts DEF FullInv, Inv
    <3>4. Waits = Len(fifo) /\ Waits' = Waits
      BY <1>0, <3>2, <3>3, NoStopWaits DEF Waits
    <3>5. Taken' = Taken /\ Busy' = Busy /\ LastDecided' = LastDecided
      BY <2>1, <3>4 DEF Taken, Busy, LastDecided
    <3>6. QED
      BY <1>0, <2>1, <3>3, <3>4, <3>5 DEF OrderInv
  <2>4. QED
    BY <2>2, <2>3
<1>8. CASE Begin
  <2>1. worker = "stopped" /\ fifo = <<>> /\ fifo' = <<>> /\ worker' \in {"idle", "stopped"}
        /\ UNCHANGED <<seq, current, nextSequence>>
    BY <1>0, <1>8 DEF Begin, FinishStop, FullInv, StopInv
  <2>2. QED
    BY <1>1, <2>1 DEF Taken, Busy
<1>9. CASE AdoptOwner \/ UNCHANGED vars
  BY <1>1, <1>9 DEF AdoptOwner, vars, Taken, Busy
<1>10. ASSUME NEW s \in Slots, NEW t \in 1 .. MaxSequence, Release(s, t) \/ CancelRequest(s, t)
       PROVE  Goal
  BY <1>1, <1>10 DEF Release, CancelRequest, Taken, Busy
<1>11. CASE WorkerClaim \/ WorkerDrop
  BY <1>5, <1>11 DEF WorkerClaim, WorkerDrop
<1>12. ASSUME NEW res \in Results, WorkerExecute(res) PROVE Goal
  BY <1>1, <1>12 DEF WorkerExecute, Taken, Busy
<1>13. CASE WorkerPublish
  BY <1>1, <1>13 DEF WorkerPublish, Taken, Busy
<1>14. QED
  BY <1>2, <1>3, <1>4, <1>6, <1>7, <1>8, <1>9, <1>10, <1>11, <1>12, <1>13 DEF Next, Worker

LEMMA TicketsInvNext == TicketsInv /\ [Next]_vars => TicketsInv'
<1>1. FullInv /\ [Next]_vars => FullInv'
  BY TypeNext, OutstandingNext, TicketNext, FateNext, QueueNext, StopNext DEF FullInv, Inv
<1>2. QED
  BY <1>1, OrderNext DEF TicketsInv

LEMMA TicketsInvHolds == Spec => []TicketsInv
  BY OrderInit, TicketsInvNext, PTL DEF Spec
-----------------------------------------------------------------------------
(* The abstract state of TicketedExecutor, without cardinalities.          *)

LEMMA OpenIsInterval ==
  ASSUME TicketsInv
  PROVE  OpenTickets = (LastDecided + 1) .. nextSequence
<1> USE DEF TicketsInv
<1>1. /\ nextSequence \in Nat /\ LastDecided \in Nat /\ Waits \in Nat /\ Taken \in {0, 1}
      /\ nextSequence = LastDecided + Taken + Waits
  BY WaitsFacts DEF FullInv, Inv, TypeOK, OrderInv, LastDecided, Taken
<1>2. ASSUME NEW t \in OpenTickets PROVE t \in (LastDecided + 1) .. nextSequence
  <2>1. CASE worker = "received" /\ seq[current] = t
    BY <1>1, <2>1 DEF OrderInv, Taken
  <2>2. ASSUME NEW i \in 1 .. Len(fifo), fifo[i] # Stop, seq[fifo[i]] = t
        PROVE  t \in (LastDecided + 1) .. nextSequence
    <3>1. i \in 1 .. Waits
      BY <2>2, WaitsFacts
    <3>2. QED
      BY <1>1, <2>2, <3>1 DEF OrderInv
  <2>3. QED
    BY <2>1, <2>2 DEF OpenTickets
<1>3. ASSUME NEW t \in (LastDecided + 1) .. nextSequence PROVE t \in OpenTickets
  <2>1. t \in 1 .. nextSequence
    BY <1>1
  <2>2. CASE Taken = 1 /\ t = LastDecided + 1
    BY <2>1, <2>2 DEF OpenTickets, OrderInv, Taken
  <2>3. CASE t - LastDecided - Taken \in 1 .. Waits
    <3>1. seq[fifo[t - LastDecided - Taken]] = t
      BY <1>1, <2>3 DEF OrderInv
    <3>2. QED
      BY <2>1, <2>3, <3>1, WaitsFacts DEF OpenTickets
  <2>4. QED
    BY <1>1, <2>2, <2>3
<1>4. QED
  BY <1>2, <1>3

Executed == executed \cup (IF worker = "running" THEN InProgress ELSE {})
Released == (1 .. nextSequence) \ Unreleased

Mapping ==
  /\ nextSequence - Cardinality(OpenTickets) = LastDecided
  /\ nextSequence - Cardinality(OpenTickets \cup InProgress) = LastPublished
  /\ LastDecided \in 0 .. nextSequence
  /\ LastPublished \in 0 .. nextSequence

LEMMA IntervalSize ==
  ASSUME NEW m \in Nat
  PROVE  \A n \in 0 .. m : Cardinality((n + 1) .. m) = m - n
<1> TAKE n \in 0 .. m
<1>1. n + 1 \in Int /\ m \in Int /\ n <= m
  OBVIOUS
<1>2. Cardinality((n + 1) .. m) = IF n + 1 > m THEN 0 ELSE m - (n + 1) + 1
  BY <1>1, FS_Interval, Zenon
<1>3. QED
  BY <1>1, <1>2

LEMMA MappingHolds == TicketsInv => Mapping
<1> SUFFICES ASSUME TicketsInv PROVE Mapping
  OBVIOUS
<1>1. nextSequence \in Nat /\ LastDecided \in 0 .. nextSequence
  BY WaitsFacts DEF TicketsInv, FullInv, Inv, TypeOK, OrderInv, LastDecided, Taken
<1>2. \A n \in 0 .. nextSequence : Cardinality((n + 1) .. nextSequence) = nextSequence - n
  BY <1>1, IntervalSize
<1>3. nextSequence - Cardinality(OpenTickets) = LastDecided
  BY <1>1, <1>2, OpenIsInterval
<1>4. CASE ~Busy
  <2>1. OpenTickets \cup InProgress = OpenTickets /\ LastPublished = LastDecided
    BY <1>4 DEF Busy, InProgress, LastPublished
  <2>2. QED
    BY <1>1, <1>3, <2>1 DEF Mapping
<1>5. CASE Busy
  <2>1. InProgress = {LastDecided} /\ LastDecided # 0 /\ LastPublished = LastDecided - 1
    BY <1>5 DEF Busy, InProgress, LastPublished, TicketsInv, OrderInv, FullInv, Inv, FateInv, TicketInv, TypeOK
  <2>2. LastPublished \in 0 .. nextSequence
    BY <1>1, <2>1
  <2>3. OpenTickets \cup InProgress = (LastPublished + 1) .. nextSequence
    BY <1>1, <2>1, OpenIsInterval
  <2>4. nextSequence - Cardinality(OpenTickets \cup InProgress) = LastPublished
    <3>1. Cardinality((LastPublished + 1) .. nextSequence) = nextSequence - LastPublished
      BY <1>2, <2>2
    <3>2. Cardinality(OpenTickets \cup InProgress) = Cardinality((LastPublished + 1) .. nextSequence)
      BY <2>3, Zenon
    <3>3. QED
      BY <1>1, <2>2, <3>1, <3>2
  <2>5. QED
    BY <1>1, <1>3, <2>2, <2>4 DEF Mapping
<1>6. QED
  BY <1>4, <1>5

LEMMA AbstractInit == Init /\ TicketsInv => Tickets!Init
<1> SUFFICES ASSUME Init, TicketsInv PROVE Tickets!Init
  OBVIOUS
<1>1. Mapping
  BY MappingHolds
<1>2. nextSequence = 0 /\ worker = "stopped" /\ cancelled = {} /\ executed = {} /\ InProgress = {}
  BY DEF Init, InProgress
<1>3. LastDecided = 0 /\ LastPublished = 0
  BY <1>1, <1>2 DEF Mapping
<1>4. (1 .. nextSequence) \ Unreleased = {}
  BY <1>2
<1>5. QED
  BY <1>1, <1>2, <1>3, <1>4 DEF Tickets!Init, Mapping

\* A result is given back by Release alone.
LEMMA ReleasedSame ==
  ASSUME UNCHANGED <<seq, nextSequence>>, \A s \in Slots : (state'[s] = "Free") <=> (state[s] = "Free")
  PROVE  Released' = Released
<1>1. Unreleased' = Unreleased
  BY DEF Unreleased
<1>2. QED
  BY <1>1 DEF Released

LEMMA ReleasedIssue ==
  ASSUME FullInv, NEW s \in Slots, state[s] = "Free", NEW x \in SlotStates \ {"Free"},
         seq' = [seq EXCEPT ![s] = nextSequence + 1], nextSequence' = nextSequence + 1,
         state' = [state EXCEPT ![s] = x]
  PROVE  Released' = Released
<1> USE DEF FullInv, Inv, TypeOK, TicketInv
<1>1. Unreleased' = Unreleased \cup {nextSequence + 1}
  BY DEF Unreleased
<1>2. QED
  BY <1>1 DEF Released

LEMMA ReleasedRelease ==
  ASSUME FullInv, NEW s \in Slots, state[s] # "Free", state' = [state EXCEPT ![s] = "Free"],
         UNCHANGED <<seq, nextSequence>>
  PROVE  Released' = Released \cup {seq[s]} /\ seq[s] \notin Released
<1> USE DEF FullInv, Inv, TypeOK, TicketInv
<1>1. Unreleased' = Unreleased \ {seq[s]} /\ seq[s] \in Unreleased
  BY DEF Unreleased
<1>2. seq[s] \in 1 .. nextSequence
  OBVIOUS
<1>3. QED
  BY <1>1, <1>2 DEF Released

\* A step that decides nothing and answers nothing leaves both counters alone.
LEMMA Standstill ==
  ASSUME Mapping, Mapping', UNCHANGED <<nextSequence, cancelled>>,
         LastDecided' = LastDecided, LastPublished' = LastPublished,
         Executed' = Executed, Released' = Released
  PROVE  UNCHANGED Tickets!vars
  BY DEF Mapping, Tickets!vars, Executed, Released

LEMMA StepRefines ==
  ASSUME TicketsInv, TicketsInv', Mapping, Mapping', DecidedNext, [Next]_vars
  PROVE  [Tickets!Next]_(Tickets!vars)
<1> USE DEF slotVars, workerVars, ownerVars, history
<1> DEFINE Goal == [Tickets!Next]_(Tickets!vars)
<1>0. /\ FullInv /\ OrderInv /\ TypeOK /\ nextSequence \in Nat
      /\ LastDecided \in 0 .. nextSequence /\ LastPublished \in 0 .. nextSequence
  <2>1. FullInv /\ OrderInv
    BY DEF TicketsInv
  <2>2. TypeOK
    BY <2>1 DEF FullInv, Inv
  <2>3. nextSequence \in Nat
    BY <2>2 DEF TypeOK
  <2>4. LastDecided \in 0 .. nextSequence /\ LastPublished \in 0 .. nextSequence
    BY DEF Mapping
  <2>5. QED
    BY <2>1, <2>2, <2>3, <2>4
<1>1. ASSUME UNCHANGED <<state, seq, nextSequence, cancelled, executed>>, ~Decides,
             worker' = worker \/ (~Busy /\ ~Busy'), current' = current \/ (~Busy /\ ~Busy')
      PROVE  Goal
  <2>1. LastDecided' = LastDecided /\ LastPublished' = LastPublished
    BY <1>1 DEF DecidedNext, LastPublished, Busy
  <2>2. Executed' = Executed
    BY <1>1 DEF Executed, InProgress, Busy
  <2>3. Released' = Released
    BY <1>1, ReleasedSame
  <2>4. QED
    BY <1>1, <2>1, <2>2, <2>3, Standstill
<1>2. CASE Begin \/ AdoptOwner \/ WorkerReceive \/ WorkerStop \/ RequestStop \/ UNCHANGED vars
  <2>1. CASE Begin
    BY <1>1, <2>1 DEF Begin, FinishStop, Decides, Busy
  <2>2. CASE AdoptOwner \/ RequestStop \/ UNCHANGED vars
    <3>1. UNCHANGED <<state, seq, nextSequence, cancelled, executed>> /\ worker' = worker /\ current' = current
      BY <2>2 DEF AdoptOwner, RequestStop, vars
    <3>2. ~Decides
      BY <3>1 DEF Decides
    <3>3. QED
      BY <1>1, <3>1, <3>2
  <2>3. CASE WorkerReceive \/ WorkerStop
    BY <1>1, <2>3 DEF WorkerReceive, WorkerStop, Decides, Busy
  <2>4. QED
    BY <1>2, <2>1, <2>2, <2>3
<1>3. ASSUME NEW r \in Requests, NEW s \in Slots, Submit(r, s) PROVE Goal
  <2>1. /\ \A i \in 1 .. Len(fifo) : fifo[i] # Stop
        /\ state[s] = "Free"
    BY <1>0, <1>3 DEF Submit, Admits, FirstFit, FullInv, StopInv
  <2>2. HasCredit
    BY <1>0, <2>1, Credit DEF FullInv, Inv
  <2>3. /\ nextSequence' = nextSequence + 1 /\ seq' = [seq EXCEPT ![s] = nextSequence + 1]
        /\ state' = [state EXCEPT ![s] = "Queued"] /\ deferred
        /\ UNCHANGED <<worker, current, cancelled, executed>>
    BY <1>3, <2>2 DEF Submit
  <2>4. LastDecided' = LastDecided /\ LastPublished' = LastPublished
    BY <2>3 DEF DecidedNext, Decides, LastPublished, Busy
  <2>5. Executed' = Executed
    <3>1. worker = "running" => state[current] = "Running"
      BY <1>0 DEF FullInv, Inv, FateInv
    <3>2. worker = "running" => seq'[current] = seq[current]
      BY <1>0, <2>1, <2>3, <3>1 DEF TypeOK
    <3>3. QED
      BY <2>3, <3>2 DEF Executed, InProgress
  <2>6. Released' = Released
    BY <1>0, <2>1, <2>3, ReleasedIssue DEF SlotStates
  <2>7. Tickets!Issue
    BY <2>3, <2>4, <2>5, <2>6 DEF Tickets!Issue, Mapping, Executed, Released
  <2>8. QED
    BY <2>7 DEF Tickets!Next
<1>4. ASSUME NEW r \in Requests, NEW s \in Slots, NEW res \in Results, SubmitImmediate(r, s, res)
      PROVE  Goal
  <2>1. worker = "stopped" /\ fifo = <<>> /\ state[s] = "Free"
    BY <1>0, <1>4 DEF SubmitImmediate, Admits, FirstFit, FullInv, StopInv
  <2>2. /\ nextSequence' = nextSequence + 1 /\ seq' = [seq EXCEPT ![s] = nextSequence + 1]
        /\ state' = [state EXCEPT ![s] = "Ready"] /\ ~deferred
        /\ executed' = executed \cup {nextSequence + 1}
        /\ UNCHANGED <<worker, current, cancelled>>
    BY <1>4 DEF SubmitImmediate
  <2>3. LastDecided = nextSequence /\ LastPublished = nextSequence
    BY <1>0, <2>1 DEF LastDecided, LastPublished, Waits, Taken, Busy
  <2>4. LastDecided' = LastDecided + 1 /\ LastPublished' = LastPublished + 1
    BY <1>0, <2>1, <2>2, <2>3 DEF DecidedNext, Decides, LastPublished, Busy
  <2>5. Executed' = Executed \cup {LastDecided'}
    BY <2>1, <2>2, <2>3, <2>4 DEF Executed
  <2>6. Released' = Released
    BY <1>0, <2>1, <2>2, ReleasedIssue DEF SlotStates
  <2>7. Tickets!IssueAndRun
    BY <2>2, <2>3, <2>4, <2>5, <2>6 DEF Tickets!IssueAndRun, Mapping, Executed, Released
  <2>8. QED
    BY <2>7 DEF Tickets!Next
<1>5. CASE WorkerClaim \/ WorkerDrop
  <2>1. /\ worker = "received" /\ Decides /\ Busy' /\ ~Busy
        /\ UNCHANGED <<seq, current, nextSequence, cancelled, executed>>
    BY <1>5 DEF WorkerClaim, WorkerDrop, Decides, Busy
  <2>2. /\ LastDecided' = LastDecided + 1 /\ LastPublished = LastDecided
        /\ LastPublished' = LastPublished /\ seq[current] = LastDecided'
    BY <1>0, <2>1 DEF DecidedNext, LastPublished, OrderInv
  <2>3. LastDecided < nextSequence
    BY <1>0, <2>1, <2>2 DEF Mapping
  <2>4. Executed' = IF LastDecided' \in cancelled THEN Executed ELSE Executed \cup {LastDecided'}
    <3>1. CASE WorkerClaim
      <4>1. LastDecided' \notin cancelled /\ worker' = "running"
        BY <1>0, <2>2, <3>1 DEF WorkerClaim, FullInv, Inv, FateInv, TypeOK
      <4>2. QED
        BY <2>1, <2>2, <4>1 DEF Executed, InProgress
    <3>2. CASE WorkerDrop
      <4>1. LastDecided' \in cancelled /\ worker' = "publishing"
        BY <1>0, <2>2, <3>2 DEF WorkerDrop, FullInv, Inv, FateInv, TypeOK
      <4>2. QED
        BY <2>1, <2>2, <4>1 DEF Executed, InProgress
    <3>3. QED
      BY <1>5, <3>1, <3>2
  <2>5. Released' = Released
    BY <1>0, <1>5, ReleasedSame DEF WorkerClaim, WorkerDrop, TypeOK
  <2>6. Tickets!Decide
    BY <2>1, <2>2, <2>3, <2>4, <2>5 DEF Tickets!Decide, Mapping, Executed, Released
  <2>7. QED
    BY <2>6 DEF Tickets!Next
<1>6. ASSUME NEW res \in Results, WorkerExecute(res) PROVE Goal
  <2>1. /\ worker = "running" /\ worker' = "publishing" /\ executed' = executed \cup {seq[current]}
        /\ UNCHANGED <<state, seq, current, nextSequence, cancelled>>
    BY <1>6 DEF WorkerExecute
  <2>2. LastDecided' = LastDecided /\ LastPublished' = LastPublished
    BY <2>1 DEF DecidedNext, Decides, LastPublished, Busy
  <2>3. Executed' = Executed
    BY <2>1 DEF Executed, InProgress
  <2>4. Released' = Released
    BY <2>1, ReleasedSame
  <2>5. QED
    BY <2>1, <2>2, <2>3, <2>4, Standstill
<1>7. CASE WorkerPublish
  <2>1. /\ worker = "publishing" /\ worker' = "idle" /\ state' = [state EXCEPT ![current] = "Ready"]
        /\ UNCHANGED <<seq, current, nextSequence, cancelled, executed>>
    BY <1>7 DEF WorkerPublish
  <2>2. LastDecided' = LastDecided /\ LastPublished' = LastDecided /\ LastPublished = LastDecided - 1
    BY <1>0, <2>1 DEF DecidedNext, Decides, LastPublished, Busy
  <2>3. Executed' = Executed
    BY <2>1 DEF Executed, InProgress
  <2>4. Released' = Released
    BY <1>0, <2>1, ReleasedSame DEF FullInv, Inv, FateInv, TypeOK
  <2>5. Tickets!Publish
    BY <1>0, <2>1, <2>2, <2>3, <2>4 DEF Tickets!Publish, Mapping, Executed, Released
  <2>6. QED
    BY <2>5 DEF Tickets!Next
<1>8. ASSUME NEW s \in Slots, NEW t \in 1 .. MaxSequence, Release(s, t) PROVE Goal
  <2>1. /\ state[s] = "Ready" /\ seq[s] = t /\ t # 0 /\ state' = [state EXCEPT ![s] = "Free"]
        /\ UNCHANGED <<seq, worker, current, deferred, nextSequence, cancelled, executed>>
    BY <1>8 DEF Release, Readable, Matches
  <2>2. LastDecided' = LastDecided /\ LastPublished' = LastPublished /\ Executed' = Executed
    BY <2>1 DEF DecidedNext, Decides, LastPublished, Busy, Executed, InProgress
  <2>3. Released' = Released \cup {t} /\ t \notin Released
    BY <1>0, <2>1, ReleasedRelease
  <2>4. t \in 1 .. LastPublished
    <3>1. t \in 1 .. nextSequence
      BY <1>0, <2>1 DEF FullInv, Inv, TicketInv, TypeOK
    <3>2. t \notin OpenTickets
      <4>1. \A u \in Slots : state[u] \in Waiting => seq[u] # t
        BY <1>0, <2>1 DEF FullInv, Inv, TicketInv, TypeOK, Waiting
      <4>2. \A i \in 1 .. Len(fifo) : fifo[i] # Stop => fifo[i] \in Slots /\ state[fifo[i]] \in Waiting
        BY <1>0 DEF FullInv, QueueInv, TypeOK
      <4>3. worker = "received" => current \in Slots /\ state[current] \in Waiting
        BY <1>0 DEF FullInv, QueueInv, TypeOK
      <4>4. QED
        BY <4>1, <4>2, <4>3 DEF OpenTickets
    <3>3. Busy => t # LastDecided
      BY <1>0, <2>1 DEF OrderInv, Busy, FullInv, Inv, TicketInv, FateInv, TypeOK
    <3>4. QED
      BY <1>0, <3>1, <3>2, <3>3, OpenIsInterval DEF LastPublished
  <2>5. Tickets!Release(t)
    BY <2>1, <2>2, <2>3, <2>4 DEF Tickets!Release, Mapping, Executed, Released
  <2>6. t \in 1 .. (nextSequence - Cardinality(OpenTickets \cup InProgress))
    BY <2>4 DEF Mapping
  <2>7. QED
    BY <2>5, <2>6 DEF Tickets!Next
<1>9. ASSUME NEW s \in Slots, NEW t \in 1 .. MaxSequence, CancelRequest(s, t) PROVE Goal
  <2>1. /\ state[s] = "Queued" /\ seq[s] = t /\ t # 0 /\ state' = [state EXCEPT ![s] = "CancelQueued"]
        /\ cancelled' = cancelled \cup {t}
        /\ UNCHANGED <<seq, worker, current, deferred, nextSequence, executed>>
    BY <1>9 DEF CancelRequest, Cancellable, Matches
  <2>2. LastDecided' = LastDecided /\ LastPublished' = LastPublished /\ Executed' = Executed
    BY <2>1 DEF DecidedNext, Decides, LastPublished, Busy, Executed, InProgress
  <2>3. Released' = Released
    BY <1>0, <2>1, ReleasedSame DEF TypeOK
  <2>4. t \in OpenTickets
    <3>1. t \in 1 .. nextSequence
      BY <1>0, <2>1 DEF FullInv, Inv, TicketInv, TypeOK
    <3>2. InHand(s) => worker = "received" /\ current = s
      BY <1>0, <2>1 DEF InHand, FullInv, Inv, FateInv
    <3>3. InHand(s) \/ \E i \in 1 .. Len(fifo) : fifo[i] = s
      BY <1>0, <2>1 DEF FullInv, QueueInv, Waiting
    <3>4. s # Stop
      BY DEF Slots
    <3>5. QED
      BY <2>1, <3>1, <3>2, <3>3, <3>4 DEF OpenTickets
  <2>5. t \in (LastDecided + 1) .. nextSequence /\ t \notin cancelled
    BY <1>0, <2>1, <2>4, OpenIsInterval DEF FullInv, Inv, FateInv
  <2>6. t \in ((nextSequence - Cardinality(OpenTickets)) + 1) .. nextSequence
    BY <2>5 DEF Mapping
  <2>7. Tickets!Cancel(t)
    BY <2>1, <2>2, <2>3, <2>5, <2>6 DEF Tickets!Cancel, Mapping, Executed, Released
  <2>8. QED
    BY <2>6, <2>7 DEF Tickets!Next
<1>10. QED
  BY <1>2, <1>3, <1>4, <1>5, <1>6, <1>7, <1>8, <1>9 DEF Next, Worker

\* Whatever the interleaving of the owner and the worker: the fates of the
\* requests are decided one at a time in the order of their tickets, none that
\* was cancelled is executed, and every result is published in that order and
\* given back once (WriteQueue.cpp:97-160, 193-222).
THEOREM Refinement == Spec => ImplementsTickets
<1>1. Init => Tickets!Init
  BY OrderInit, AbstractInit
<1>2. TicketsInv /\ TicketsInv' /\ [Next]_vars => [Tickets!Next]_(Tickets!vars)
  <2>1. TicketsInv' => Mapping'
    BY MappingHolds, PTL
  <2>2. QED
    BY <2>1, MappingHolds, OrderNext, StepRefines
<1>3. QED
  BY <1>1, <1>2, TicketsInvHolds, PTL DEF Spec, ImplementsTickets, Tickets!Spec
-------------------------------------------------------------------------------
(* The owner's side of storage.                                            *)


\* The part of the types that the order depends on.
SlotTypes ==
  /\ state \in [Slots -> SlotStates] /\ seq \in [Slots -> Nat] /\ request \in [Slots -> Requests]
  /\ nextSequence \in Nat /\ settledThrough \in Nat /\ fence \in Nat
  /\ fifo \in Seq(Slots \cup {Stop}) /\ current \in Slots /\ worker \in WorkerStates
  /\ scanAt \in Slots \cup {EndOfScan, NotPolling} /\ scanFirst \in Slots \cup {NoSlot}

\* Tickets are handed out in order, and a slot in the worker's hands is in use.
TicketsInOrder == settledThrough <= nextSequence /\ \A s \in Slots : seq[s] <= nextSequence
InHands ==
  /\ worker = "running" => state[current] = "Running"
  /\ worker = "publishing" => state[current] \in {"Running", "CancelQueued"}

\* The slots whose ticket is still to be settled.
Unsettled(s) == state[s] # "Free" /\ seq[s] > settledThrough

\* What nextReady knows of the slots it has looked at.
ScanInv ==
  scanAt # NotPolling =>
    /\ scanFirst # NoSlot => scanFirst \in Slots /\ Unsettled(scanFirst)
    /\ \A s \in Slots : s < scanAt /\ Unsettled(s) => scanFirst # NoSlot /\ seq[scanFirst] <= seq[s]

\* A raised fence belongs to the deletion in the slot reserved for deletions,
\* which is still to be settled.
FenceInv ==
  fence # 0 =>
    /\ Unsettled(NumNormal) /\ seq[NumNormal] = fence
    /\ request[NumNormal].op = "DeleteConversation" /\ request[NumNormal].peer = fencedPeer

StoreInv == SlotTypes /\ TicketsInOrder /\ InHands /\ ScanInv /\ FenceInv /\ NothingBehindDelete

LEMMA Places ==
  /\ NumNormal \in Slots /\ Slots \subseteq Nat
  /\ EndOfScan \notin Slots /\ NotPolling \notin Slots /\ NoSlot \notin Slots
  /\ EndOfScan # NotPolling /\ EndOfScan \in Nat /\ \A s \in Slots : s < EndOfScan
  BY DEF Slots, EndOfScan, NotPolling, NoSlot

LEMMA StoreInvInit == StoreInit => StoreInv
<1> SUFFICES ASSUME StoreInit PROVE StoreInv
  OBVIOUS
<1>1. SlotTypes
  <2>1. (CHOOSE r \in Requests : TRUE) \in Requests
    BY RequestsAssumption
  <2>2. state \in [Slots -> SlotStates] /\ seq \in [Slots -> Nat] /\ request \in [Slots -> Requests]
    BY <2>1 DEF StoreInit, Init, SlotStates
  <2>3. fifo \in Seq(Slots \cup {Stop}) /\ current \in Slots /\ worker \in WorkerStates
    BY DEF StoreInit, Init, Slots, WorkerStates
  <2>4. QED
    BY <2>2, <2>3 DEF StoreInit, Init, SlotTypes
<1>2. TicketsInOrder /\ InHands /\ ScanInv /\ FenceInv /\ NothingBehindDelete
  BY DEF StoreInit, Init, TicketsInOrder, InHands, ScanInv, FenceInv, NothingBehindDelete
<1>3. QED
  BY <1>1, <1>2 DEF StoreInv

-------------------------------------------------------------------------------
(* The worker: it moves slots that are in use from state to state, which   *)
(* neither the scan nor the fence can tell.                                *)

LEMMA WorkerQuiet ==
  ASSUME StoreInv, UNCHANGED <<seq, request, nextSequence, settledThrough, fenceVars, scanVars>>,
         \A s \in Slots : state'[s] = "Free" <=> state[s] = "Free"
  PROVE  TicketsInOrder' /\ ScanInv' /\ FenceInv' /\ NothingBehindDelete'
<1>1. \A s \in Slots : Unsettled(s)' <=> Unsettled(s)
  BY DEF Unsettled
<1>2. QED
  BY <1>1, Places DEF StoreInv, TicketsInOrder, ScanInv, FenceInv, NothingBehindDelete, fenceVars, scanVars

LEMMA WorkerStep == StoreInv /\ StoreWorker => StoreInv'
<1> SUFFICES ASSUME StoreInv, StoreWorker PROVE StoreInv'
  OBVIOUS
<1> DEFINE Moves == /\ UNCHANGED <<seq, request, nextSequence, settledThrough, fenceVars, scanVars>>
                    /\ state' \in [Slots -> SlotStates]
                    /\ \A s \in Slots : state'[s] = "Free" <=> state[s] = "Free"
                    /\ fifo' \in Seq(Slots \cup {Stop}) /\ current' \in Slots /\ worker' \in WorkerStates
                    /\ InHands'
<1>0. SlotTypes /\ InHands
  BY DEF StoreInv
<1>1. ASSUME NEW res, WorkerExecute(res), UNCHANGED <<settledThrough, fenceVars, totals, scanVars>> PROVE Moves
  BY <1>0, <1>1 DEF WorkerExecute, SlotTypes, InHands, WorkerStates, ownerVars
<1>2. StoreExecute => \E res : WorkerExecute(res) /\ UNCHANGED <<settledThrough, fenceVars, totals, scanVars>>
  BY DEF StoreExecute, Transaction, Changed
<1>3. ASSUME WorkerReceive, UNCHANGED storeVars PROVE Moves
  <2>1. Tail(fifo) \in Seq(Slots \cup {Stop}) /\ Head(fifo) \in Slots
    BY <1>0, <1>3, HeadTailProperties DEF WorkerReceive, SlotTypes
  <2>2. QED
    BY <1>0, <1>3, <2>1 DEF WorkerReceive, SlotTypes, InHands, WorkerStates, slotVars, ownerVars, storeVars
<1>4. ASSUME WorkerClaim, UNCHANGED storeVars PROVE Moves
  BY <1>0, <1>4 DEF WorkerClaim, SlotTypes, InHands, SlotStates, WorkerStates, ownerVars, storeVars
<1>5. ASSUME WorkerDrop, UNCHANGED storeVars PROVE Moves
  BY <1>0, <1>5 DEF WorkerDrop, SlotTypes, InHands, WorkerStates, ownerVars, storeVars
<1>6. ASSUME WorkerPublish, UNCHANGED storeVars PROVE Moves
  BY <1>0, <1>6 DEF WorkerPublish, SlotTypes, InHands, SlotStates, WorkerStates, ownerVars, storeVars
<1>7. ASSUME WorkerStop, UNCHANGED storeVars PROVE Moves
  <2>1. Tail(fifo) \in Seq(Slots \cup {Stop})
    BY <1>0, <1>7, HeadTailProperties DEF WorkerStop, SlotTypes
  <2>2. QED
    BY <1>0, <1>7, <2>1 DEF WorkerStop, SlotTypes, InHands, WorkerStates, slotVars, ownerVars, storeVars
<1>8. Moves
  BY <1>1, <1>2, <1>3, <1>4, <1>5, <1>6, <1>7 DEF StoreWorker
<1>9. SlotTypes'
  BY <1>0, <1>8 DEF SlotTypes, fenceVars, scanVars
<1>10. QED
  BY <1>8, <1>9, WorkerQuiet DEF StoreInv

-------------------------------------------------------------------------------
(* The owner, when it is in none of nextReady's loads.                     *)

LEMMA SubmitStep == ASSUME StoreInv, NEW r \in Requests, NEW s \in Slots, StoreSubmit(r, s) PROVE StoreInv'
<1> USE DEF StoreInv
<1>1. /\ scanAt = NotPolling /\ ~Fenced(r) /\ state[s] = "Free" /\ nextSequence' = nextSequence + 1
      /\ seq' = [seq EXCEPT ![s] = nextSequence + 1] /\ request' = [request EXCEPT ![s] = r]
      /\ state' = [state EXCEPT ![s] = IF HasCredit THEN "Queued" ELSE "Free"]
      /\ fifo' = IF HasCredit THEN Append(fifo, s) ELSE fifo
      /\ UNCHANGED <<worker, current, settledThrough, scanAt, scanFirst>>
  BY DEF StoreSubmit, OwnerFree, Submit, Admits, FirstFit, Enqueue, scanVars
<1>2. r.op = "DeleteConversation" => s = NumNormal
  BY DEF StoreSubmit, Submit, Admits, FirstFit, SlotClass
<1>3. SlotTypes'
  <2>1. Append(fifo, s) \in Seq(Slots \cup {Stop})
    BY AppendProperties DEF SlotTypes
  <2>2. fence' \in Nat
    BY DEF StoreSubmit, SlotTypes, fenceVars
  <2>3. QED
    BY <1>1, <2>1, <2>2 DEF SlotTypes, SlotStates
<1>4. TicketsInOrder'
  BY <1>1 DEF TicketsInOrder, SlotTypes
<1>5. InHands'
  BY <1>1 DEF InHands, SlotTypes
<1>6. ScanInv'
  BY <1>1 DEF ScanInv
<1>7. FenceInv' /\ NothingBehindDelete'
  <2>1. CASE r.op = "DeleteConversation" /\ HasCredit
    <3>1. fence' = nextSequence + 1 /\ fencedPeer' = r.peer /\ s = NumNormal
      BY <1>2, <2>1 DEF StoreSubmit
    <3>2. settledThrough < nextSequence + 1
      BY DEF SlotTypes, TicketsInOrder
    <3>3. FenceInv'
      BY <1>1, <2>1, <3>1, <3>2 DEF FenceInv, Unsettled, SlotTypes
    <3>4. NothingBehindDelete'
      BY <1>1, <1>4, <3>1 DEF TicketsInOrder, NothingBehindDelete
    <3>5. QED
      BY <3>3, <3>4
  <2>2. CASE ~(r.op = "DeleteConversation" /\ HasCredit)
    <3>1. fence' = fence /\ fencedPeer' = fencedPeer
      BY <2>2 DEF StoreSubmit, fenceVars
    <3>2. fence # 0 => s # NumNormal /\ r.peer # fencedPeer
      BY <1>1 DEF FenceInv, Unsettled, Fenced
    <3>3. \A u \in Slots : u # s => state'[u] = state[u] /\ seq'[u] = seq[u] /\ request'[u] = request[u]
      BY <1>1 DEF SlotTypes
    <3>4. request'[s] = r
      BY <1>1 DEF SlotTypes
    <3>5. QED
      BY <1>1, <3>1, <3>2, <3>3, <3>4, Places DEF FenceInv, Unsettled, NothingBehindDelete
  <2>3. QED
    BY <2>1, <2>2
<1>8. QED
  BY <1>3, <1>4, <1>5, <1>6, <1>7

LEMMA ReleaseStep ==
  ASSUME StoreInv, NEW s \in Slots, NEW t \in 1 .. MaxSequence, StoreRelease(s, t)
  PROVE  StoreInv'
<1> USE DEF StoreInv
<1>1. /\ scanAt = NotPolling /\ seq[s] = t /\ t <= settledThrough /\ state[s] = "Ready"
      /\ state' = [state EXCEPT ![s] = "Free"]
      /\ UNCHANGED <<seq, request, fifo, worker, current, nextSequence, settledThrough, fence, fencedPeer, scanAt, scanFirst>>
  BY DEF StoreRelease, OwnerFree, MayTake, Release, Readable, Matches, workerVars, storeVars, fenceVars, scanVars
<1>2. SlotTypes' /\ TicketsInOrder' /\ InHands' /\ ScanInv'
  BY <1>1 DEF SlotTypes, SlotStates, TicketsInOrder, InHands, ScanInv
<1>3. \A u \in Slots : Unsettled(u) => u # s /\ state'[u] = state[u]
  BY <1>1 DEF Unsettled, SlotTypes
<1>4. FenceInv'
  BY <1>1, <1>3, Places DEF FenceInv, Unsettled
<1>5. NothingBehindDelete'
  BY <1>1 DEF NothingBehindDelete, SlotTypes
<1>6. QED
  BY <1>2, <1>4, <1>5

LEMMA CancelStep ==
  ASSUME StoreInv, NEW s \in Slots, NEW t \in 1 .. MaxSequence, StoreCancel(s, t)
  PROVE  StoreInv'
<1> USE DEF StoreInv
<1>1. /\ state[s] = "Queued" /\ state' = [state EXCEPT ![s] = "CancelQueued"]
      /\ UNCHANGED <<seq, request, fifo, worker, current, nextSequence, settledThrough, fenceVars, scanVars>>
  BY DEF StoreCancel, CancelRequest, Cancellable, workerVars, ownerVars, storeVars
<1>2. SlotTypes' /\ InHands' /\ \A u \in Slots : state'[u] = "Free" <=> state[u] = "Free"
  BY <1>1 DEF SlotTypes, SlotStates, InHands, fenceVars, scanVars
<1>3. QED
  BY <1>1, <1>2, WorkerQuiet

\* begin and requestStop change no slot.
LEMMA BeginStopStep == StoreInv /\ (StoreBegin \/ StoreRequestStop) => StoreInv'
<1> SUFFICES ASSUME StoreInv, StoreBegin \/ StoreRequestStop PROVE StoreInv'
  OBVIOUS
<1>1. UNCHANGED <<state, seq, request, current, nextSequence, settledThrough, fenceVars, scanVars>>
  BY DEF StoreBegin, Begin, StoreRequestStop, RequestStop, slotVars, storeVars
<1>2. fifo' \in Seq(Slots \cup {Stop})
  <2>1. fifo \in Seq(Slots \cup {Stop})
    BY DEF StoreInv, SlotTypes
  <2>2. Append(fifo, Stop) \in Seq(Slots \cup {Stop}) /\ <<>> \in Seq(Slots \cup {Stop})
    BY <2>1, AppendProperties
  <2>3. QED
    BY <2>1, <2>2 DEF StoreBegin, Begin, StoreRequestStop, RequestStop
<1>3. worker' \in WorkerStates /\ (worker' \in {"idle", "stopped"} \/ worker' = worker)
  BY DEF StoreBegin, Begin, StoreRequestStop, RequestStop, StoreInv, SlotTypes, WorkerStates
<1>4. SlotTypes' /\ InHands'
  BY <1>1, <1>2, <1>3 DEF StoreInv, SlotTypes, InHands, fenceVars, scanVars
<1>5. QED
  BY <1>1, <1>4, WorkerQuiet DEF StoreInv

-------------------------------------------------------------------------------
(* poll.                                                                   *)

\* The scan ends at the oldest ticket that is still to be settled.
LEMMA OldestFound ==
  ASSUME StoreInv, scanAt = EndOfScan, scanFirst # NoSlot
  PROVE  /\ scanFirst \in Slots /\ Unsettled(scanFirst)
         /\ \A s \in Slots : Unsettled(s) => seq[scanFirst] <= seq[s]
  BY Places DEF StoreInv, ScanInv

LEMMA PollStep == StoreInv /\ Poll => StoreInv'
<1> SUFFICES ASSUME StoreInv, Poll PROVE StoreInv'
  OBVIOUS
<1> USE DEF StoreInv
<1> DEFINE Slotwise == UNCHANGED <<state, seq, request, fifo, current, worker, nextSequence, fencedPeer>>
<1>1. Slotwise
  BY DEF Poll, PollBegin, PollLoad, PollSettle, PollEnd, vars, slotVars, workerVars, ownerVars, fenceVars
<1>2. TicketsInOrder' /\ InHands' /\ NothingBehindDelete' /\ ScanInv' /\ FenceInv' /\ SlotTypes'
  <2>1. CASE PollBegin
    <3>1. scanAt' = 0 /\ scanFirst' = NoSlot /\ UNCHANGED <<settledThrough, fence>>
      BY <2>1 DEF PollBegin, fenceVars
    <3>2. 0 \in Slots
      BY DEF Slots
    <3>3. QED
      BY <1>1, <3>1, <3>2, Places
         DEF SlotTypes, TicketsInOrder, InHands, NothingBehindDelete, ScanInv, FenceInv, Unsettled
  <2>2. CASE PollLoad
    <3>1. /\ scanAt \in Slots /\ scanAt' = scanAt + 1
          /\ scanFirst' = IF Counts(scanAt) /\ (scanFirst = NoSlot \/ seq[scanAt] < seq[scanFirst])
                            THEN scanAt ELSE scanFirst
          /\ UNCHANGED <<settledThrough, fence>>
      BY <2>2 DEF PollLoad, fenceVars
    <3>2. scanAt' \in Slots \cup {EndOfScan, NotPolling} /\ scanFirst' \in Slots \cup {NoSlot}
      BY <3>1 DEF Slots, EndOfScan, SlotTypes
    <3>3. SlotTypes' /\ TicketsInOrder' /\ InHands' /\ NothingBehindDelete' /\ FenceInv'
      BY <1>1, <3>1, <3>2 DEF SlotTypes, TicketsInOrder, InHands, NothingBehindDelete, FenceInv, Unsettled
    <3>4. ScanInv'
      <4>1. scanAt # NotPolling /\ \A s \in Slots : s < scanAt + 1 => s < scanAt \/ s = scanAt
        BY <3>1, Places
      <4>2. \A s \in Slots : Unsettled(s)' <=> Unsettled(s)
        BY <1>1, <3>1 DEF Unsettled
      <4>3. Counts(scanAt) <=> Unsettled(scanAt)
        BY DEF Counts, Unsettled
      <4>4. scanFirst' # NoSlot => scanFirst' \in Slots /\ Unsettled(scanFirst')
        BY <3>1, <4>1, <4>3 DEF ScanInv
      <4>5. \A s \in Slots : s < scanAt + 1 /\ Unsettled(s) => scanFirst' # NoSlot /\ seq[scanFirst'] <= seq[s]
        BY <3>1, <4>1, <4>3, Places DEF ScanInv, SlotTypes
      <4>6. QED
        BY <1>1, <3>1, <4>2, <4>4, <4>5 DEF ScanInv
    <3>5. QED
      BY <3>3, <3>4
  <2>3. CASE PollSettle
    <3>1. /\ scanAt = EndOfScan /\ scanFirst # NoSlot /\ settledThrough' = seq[scanFirst]
          /\ fence' = FenceAfter(scanFirst) /\ scanAt' = 0 /\ scanFirst' = NoSlot
      BY <2>3 DEF PollSettle
    <3>2. /\ scanFirst \in Slots /\ Unsettled(scanFirst)
          /\ \A s \in Slots : Unsettled(s) => seq[scanFirst] <= seq[s]
      BY <3>1, OldestFound
    <3>3. fence' \in {fence, 0} /\ (fence' # 0 => fence # seq[scanFirst])
      BY <3>1 DEF FenceAfter
    <3>4. SlotTypes'
      <4>1. 0 \in Slots
        BY DEF Slots
      <4>2. QED
        BY <1>1, <3>1, <3>2, <3>3, <4>1 DEF SlotTypes
    <3>5. TicketsInOrder' /\ InHands' /\ NothingBehindDelete'
      BY <1>1, <3>1, <3>2, <3>3 DEF TicketsInOrder, InHands, NothingBehindDelete
    <3>6. ScanInv'
      BY <1>1, <3>1, Places DEF ScanInv
    <3>7. FenceInv'
      <4>1. SUFFICES ASSUME fence' # 0 PROVE FenceInv'
        BY DEF FenceInv
      <4>2. fence' = fence /\ Unsettled(NumNormal) /\ seq[NumNormal] = fence
        BY <3>3, <4>1 DEF FenceInv
      <4>3. seq[scanFirst] < seq[NumNormal]
        BY <3>2, <3>3, <4>1, <4>2, Places DEF SlotTypes
      <4>4. QED
        BY <1>1, <3>1, <4>1, <4>2, <4>3 DEF FenceInv, Unsettled
    <3>8. QED
      BY <3>4, <3>5, <3>6, <3>7
  <2>4. CASE PollEnd
    BY <1>1, <2>4 DEF PollEnd, fenceVars, SlotTypes, TicketsInOrder, InHands, NothingBehindDelete, ScanInv, FenceInv, Unsettled
  <2>5. QED
    BY <2>1, <2>2, <2>3, <2>4 DEF Poll
<1>3. QED
  BY <1>2

LEMMA StoreInvNext == StoreInv /\ [StoreNext]_allVars => StoreInv'
<1> SUFFICES ASSUME StoreInv, [StoreNext]_allVars PROVE StoreInv'
  OBVIOUS
<1>1. CASE UNCHANGED allVars
  BY <1>1 DEF allVars, vars, slotVars, workerVars, ownerVars, storeVars, fenceVars, scanVars, StoreInv,
              SlotTypes, TicketsInOrder, InHands, ScanInv, FenceInv, Unsettled, NothingBehindDelete
<1>2. QED
  BY <1>1, SubmitStep, CancelStep, ReleaseStep, BeginStopStep, WorkerStep, PollStep DEF StoreNext

LEMMA StoreInvHolds == StoreSpec => []StoreInv
  BY StoreInvInit, StoreInvNext, PTL DEF StoreSpec

\* Nothing for a peer is accepted behind a pending deletion of its conversation
\* (MessageStore.cpp submit, MessageStoreTransactions.cpp:24-29).
THEOREM FenceSafety == StoreSpec => []NothingBehindDelete
  BY StoreInvHolds, PTL DEF StoreInv

\* A raised fence always belongs to a deletion that is in use and still to be
\* settled: no other step can leave the peer locked out.
THEOREM FenceIsDeletion == StoreSpec => []FenceInv
  BY StoreInvHolds, PTL DEF StoreInv

\* Results are settled in the order of their tickets, whatever the worker
\* finishes while the owner is scanning (WriteQueue.cpp:210-225).
THEOREM SettleOrder == StoreSpec => SettlesInOrder
<1> DEFINE Ordered ==
      settledThrough' # settledThrough =>
        /\ settledThrough' > settledThrough
        /\ \A s \in Slots : state[s] # "Free" /\ seq[s] > settledThrough => seq[s] >= settledThrough'
<1>1. StoreInv /\ [StoreNext]_allVars => [Ordered]_allVars
  <2> SUFFICES ASSUME StoreInv, [StoreNext]_allVars, settledThrough' # settledThrough PROVE Ordered
    OBVIOUS
  <2>1. PollSettle
    <3>1. ~StoreBegin /\ ~StoreRequestStop /\ ~PollBegin /\ ~PollLoad /\ ~PollEnd /\ ~UNCHANGED allVars
      BY DEF StoreBegin, StoreRequestStop, PollBegin, PollLoad, PollEnd, allVars, storeVars
    <3>2. \A r \in Requests, s \in Slots : ~StoreSubmit(r, s)
      BY DEF StoreSubmit
    <3>3. \A s \in Slots, t \in 1 .. MaxSequence : ~StoreCancel(s, t) /\ ~StoreRelease(s, t)
      BY DEF StoreCancel, StoreRelease, storeVars
    <3>4. ~StoreWorker
      BY DEF StoreWorker, StoreExecute, storeVars
    <3>5. QED
      BY <3>1, <3>2, <3>3, <3>4 DEF StoreNext, Poll
  <2>2. settledThrough' = seq[scanFirst] /\ scanAt = EndOfScan /\ scanFirst # NoSlot
    BY <2>1 DEF PollSettle
  <2>3. QED
    BY <2>2, OldestFound DEF Unsettled, StoreInv, SlotTypes
<1>2. QED
  BY <1>1, StoreInvHolds, PTL DEF StoreSpec, SettlesInOrder
-------------------------------------------------------------------------------
(* Sums.  A sum is the number of marks, as many for each element as the    *)
(* function says.                                                          *)

Marks(f) == UNION {{x} \X (1 .. f[x]) : x \in DOMAIN f}
Without(f, x) == [y \in DOMAIN f \ {x} |-> f[y]]

LEMMA MarksFinite ==
  ASSUME NEW S, IsFiniteSet(S), NEW f \in [S -> Int]
  PROVE  IsFiniteSet(Marks(f)) /\ Sum(f) = Cardinality(Marks(f)) /\ Sum(f) \in Nat
<1> DEFINE Rows == {{x} \X (1 .. f[x]) : x \in DOMAIN f}
<1>1. ASSUME NEW x \in S PROVE IsFiniteSet({x} \X (1 .. f[x]))
  <2>1. IsFiniteSet({x}) /\ IsFiniteSet(1 .. f[x])
    <3>1. f[x] \in Int /\ 1 \in Int
      OBVIOUS
    <3>2. QED
      BY <3>1, FS_Singleton, FS_Interval
  <2>2. QED
    BY <2>1, FS_Product
<1>2. IsFiniteSet(Rows)
  <2> DEFINE row == [x \in S |-> {x} \X (1 .. f[x])]
  <2>1. Rows = {row[x] : x \in S}
    OBVIOUS
  <2>2. row \in Surjection(S, Rows)
    BY <2>1 DEF Surjection
  <2>3. QED
    BY <2>2, FS_Surjection
<1>3. IsFiniteSet(UNION Rows)
  BY <1>1, <1>2, FS_UNION
<1>4. QED
  BY <1>3, FS_CardinalityType DEF Marks, Sum

LEMMA SumSplit ==
  ASSUME NEW S, IsFiniteSet(S), NEW f \in [S -> Int], NEW x \in S
  PROVE  Sum(f) = Sum(Without(f, x)) + (IF f[x] > 0 THEN f[x] ELSE 0)
<1> DEFINE g == Without(f, x)
           own == {x} \X (1 .. f[x])
<1>1. IsFiniteSet(S \ {x}) /\ g \in [S \ {x} -> Int]
  BY FS_Subset DEF Without
<1>2. /\ IsFiniteSet(Marks(f)) /\ Sum(f) = Cardinality(Marks(f))
      /\ IsFiniteSet(Marks(g)) /\ Sum(g) = Cardinality(Marks(g)) /\ Sum(g) \in Nat
  BY <1>1, MarksFinite
<1>3. Marks(f) = Marks(g) \cup own /\ Marks(g) \cap own = {}
  BY DEF Marks, Without
<1>4. IsFiniteSet(own) /\ Cardinality(own) = IF f[x] > 0 THEN f[x] ELSE 0
  <2>1. f[x] \in Int /\ 1 \in Int
    OBVIOUS
  <2>2. /\ IsFiniteSet({x}) /\ Cardinality({x}) = 1
        /\ IsFiniteSet(1 .. f[x]) /\ Cardinality(1 .. f[x]) = IF 1 > f[x] THEN 0 ELSE f[x] - 1 + 1
    BY <2>1, FS_Singleton, FS_Interval
  <2>3. IsFiniteSet(own) /\ Cardinality(own) = 1 * Cardinality(1 .. f[x])
    BY <2>2, FS_Product
  <2>4. QED
    BY <2>1, <2>2, <2>3
<1>5. Cardinality(Marks(f)) = Cardinality(Marks(g)) + Cardinality(own) - Cardinality({})
  BY <1>2, <1>3, <1>4, FS_Union
<1>6. QED
  BY <1>2, <1>4, <1>5, FS_EmptySet

LEMMA NetSplit ==
  ASSUME NEW S, IsFiniteSet(S), NEW f \in [S -> Int], NEW x \in S
  PROVE  Net(f) = Net(Without(f, x)) + f[x]
<1> DEFINE n == [y \in DOMAIN f |-> -f[y]]
           g == Without(f, x)
<1>1. n \in [S -> Int] /\ n[x] = -f[x]
  OBVIOUS
<1>2. Without(n, x) = [y \in DOMAIN g |-> -g[y]]
  BY DEF Without
<1>3. /\ Sum(f) = Sum(g) + (IF f[x] > 0 THEN f[x] ELSE 0)
      /\ Sum(n) = Sum(Without(n, x)) + (IF n[x] > 0 THEN n[x] ELSE 0)
  BY <1>1, SumSplit
<1>4. IsFiniteSet(S \ {x}) /\ g \in [S \ {x} -> Int] /\ Without(n, x) \in [S \ {x} -> Int]
  BY <1>1, FS_Subset DEF Without
<1>5. Sum(g) \in Nat /\ Sum(Without(n, x)) \in Nat
  BY <1>4, MarksFinite
<1>6. QED
  BY <1>1, <1>2, <1>3, <1>5 DEF Net

LEMMA NetFacts ==
  /\ \A S : IsFiniteSet(S) => \A f \in [S -> Int] : Net(f) \in Int
  /\ \A f : DOMAIN f = {} => Net(f) = 0
<1>1. ASSUME NEW S, IsFiniteSet(S), NEW f \in [S -> Int] PROVE Net(f) \in Int
  <2>1. [y \in DOMAIN f |-> -f[y]] \in [S -> Int]
    OBVIOUS
  <2>2. QED
    BY <1>1, <2>1, MarksFinite DEF Net
<1>2. ASSUME NEW f, DOMAIN f = {} PROVE Net(f) = 0
  <2>1. Sum(f) = 0 /\ Sum([y \in DOMAIN f |-> -f[y]]) = 0
    <3>1. UNION {{x} \X (1 .. f[x]) : x \in DOMAIN f} = {}
      BY <1>2
    <3>2. UNION {{x} \X (1 .. [y \in DOMAIN f |-> -f[y]][x]) : x \in DOMAIN [y \in DOMAIN f |-> -f[y]]} = {}
      BY <1>2
    <3>3. QED
      BY <3>1, <3>2, FS_EmptySet DEF Sum
  <2>2. QED
    BY <2>1 DEF Net
<1>3. QED
  BY <1>1, <1>2

\* The sum and the number of conversations after one count changed.
LEMMA SumExcept ==
  ASSUME NEW S, IsFiniteSet(S), NEW f \in [S -> Nat], NEW x \in S, NEW n \in Nat
  PROVE  Sum([f EXCEPT ![x] = n]) = Sum(f) - f[x] + n
<1> DEFINE g == [f EXCEPT ![x] = n]
<1>1. f \in [S -> Int] /\ g \in [S -> Int] /\ g[x] = n /\ f[x] \in Nat
  OBVIOUS
<1>2. Without(g, x) = Without(f, x)
  BY DEF Without
<1>3. Without(f, x) \in [S \ {x} -> Int] /\ IsFiniteSet(S \ {x})
  BY <1>1, FS_Subset DEF Without
<1>4. Sum(Without(f, x)) \in Nat
  BY <1>3, MarksFinite
<1>5. /\ Sum(f) = Sum(Without(f, x)) + (IF f[x] > 0 THEN f[x] ELSE 0)
      /\ Sum(g) = Sum(Without(g, x)) + (IF g[x] > 0 THEN g[x] ELSE 0)
  BY <1>1, SumSplit
<1>6. QED
  BY <1>1, <1>2, <1>4, <1>5

LEMMA ConversationsFacts ==
  ASSUME NEW f \in [Peers -> Nat]
  PROVE  /\ Conversations(f) \in 0 .. Cardinality(Peers)
         /\ \A p \in Peers, n \in Nat :
              Conversations([f EXCEPT ![p] = n])
                = Conversations(f) - (IF f[p] > 0 THEN 1 ELSE 0) + (IF n > 0 THEN 1 ELSE 0)
<1> DEFINE Of(g) == {p \in Peers : g[p] > 0}
<1>1. ASSUME NEW S \in SUBSET Peers PROVE IsFiniteSet(S) /\ Cardinality(S) \in Nat /\ Cardinality(S) <= Cardinality(Peers)
  BY PeersAssumption, FS_Subset, FS_CardinalityType
<1>2. ASSUME NEW p \in Peers, NEW n \in Nat
      PROVE  Conversations([f EXCEPT ![p] = n])
                = Conversations(f) - (IF f[p] > 0 THEN 1 ELSE 0) + (IF n > 0 THEN 1 ELSE 0)
  <2> DEFINE rest == Of(f) \ {p}
             g == [f EXCEPT ![p] = n]
  <2>1. Of(f) = (IF f[p] > 0 THEN rest \cup {p} ELSE rest) /\ Of(g) = IF n > 0 THEN rest \cup {p} ELSE rest
    OBVIOUS
  <2>2. p \notin rest /\ IsFiniteSet(rest) /\ Cardinality(rest) \in Nat
    BY <1>1
  <2>3. Cardinality(rest \cup {p}) = Cardinality(rest) + 1
    BY <2>2, FS_AddElement
  <2>4. Conversations(f) = Cardinality(Of(f)) /\ Conversations(g) = Cardinality(Of(g))
    BY DEF Conversations
  <2>5. f[p] \in Nat
    OBVIOUS
  <2> HIDE DEF rest, g, Of
  <2>6. Conversations(g) = Conversations(f) - (IF f[p] > 0 THEN 1 ELSE 0) + (IF n > 0 THEN 1 ELSE 0)
    BY <2>1, <2>2, <2>3, <2>4, <2>5
  <2>7. QED
    BY <2>6 DEF g
<1>3. Conversations(f) \in 0 .. Cardinality(Peers)
  <2>1. Cardinality(Peers) \in Nat
    BY PeersAssumption, FS_CardinalityType
  <2>2. QED
    BY <1>1, <2>1 DEF Conversations
<1>4. QED
  BY <1>2, <1>3

-------------------------------------------------------------------------------
(* The books of one total: what it will be after each of the deltas, in    *)
(* the order of their tickets, is a count the media once had; after all of *)
(* them it is the count they have.                                         *)

Upto(f, q, t) == [s \in {u \in DOMAIN f : q[u] <= t} |-> f[s]]
Books(total, f, q, actual, Room) ==
  /\ IsFiniteSet(DOMAIN f) /\ f \in [DOMAIN f -> Int] /\ total \in Int
  /\ total + Net(f) = actual
  /\ actual \in Room
  /\ \A t \in Nat : total + Net(Upto(f, q, t)) \in Room

LEMMA UptoFacts ==
  ASSUME NEW f, IsFiniteSet(DOMAIN f), f \in [DOMAIN f -> Int], NEW q, NEW t \in Nat
  PROVE  /\ IsFiniteSet(DOMAIN Upto(f, q, t)) /\ Upto(f, q, t) \in [DOMAIN Upto(f, q, t) -> Int]
         /\ Net(f) \in Int /\ Net(Upto(f, q, t)) \in Int
         /\ (\A s \in DOMAIN f : q[s] <= t) => Upto(f, q, t) = f
<1> DEFINE D == {u \in DOMAIN f : q[u] <= t}
<1>1. DOMAIN Upto(f, q, t) = D /\ Upto(f, q, t) \in [D -> Int]
  BY DEF Upto
<1>2. IsFiniteSet(D)
  BY FS_Subset
<1>3. (\A s \in DOMAIN f : q[s] <= t) => Upto(f, q, t) = f
  BY DEF Upto
<1>4. QED
  BY <1>1, <1>2, <1>3, NetFacts

\* The newest ticket gets its delta.
LEMMA BooksReport ==
  ASSUME NEW total, NEW f, NEW q, NEW actual, NEW Room, Room \subseteq Int, Books(total, f, q, actual, Room),
         NEW c, c \notin DOMAIN f, NEW d \in Int, NEW g,
         g = [s \in DOMAIN f \cup {c} |-> IF s = c THEN d ELSE f[s]],
         q[c] \in Nat, \A s \in DOMAIN f : q[s] \in Nat /\ q[s] < q[c],
         actual + d \in Room
  PROVE  Books(total, g, q, actual + d, Room)
<1> DEFINE D == DOMAIN f \cup {c}
<1>1. IsFiniteSet(D) /\ DOMAIN g = D /\ g \in [D -> Int] /\ g[c] = d
  BY FS_AddElement DEF Books
<1>2. Without(g, c) = f
  BY <1>1 DEF Without, Books
<1>3. Net(g) = Net(f) + d
  BY <1>1, <1>2, NetSplit
<1>4. Net(f) \in Int /\ total \in Int /\ actual = total + Net(f)
  BY NetFacts DEF Books
<1>5. ASSUME NEW t \in Nat PROVE total + Net(Upto(g, q, t)) \in Room
  <2>1. CASE t < q[c]
    <3>1. Upto(g, q, t) = Upto(f, q, t)
      BY <1>1, <2>1 DEF Upto
    <3>2. QED
      BY <3>1 DEF Books
  <2>2. CASE ~(t < q[c])
    <3>1. \A s \in DOMAIN g : q[s] <= t
      BY <1>1, <2>2
    <3>2. Upto(g, q, t) = g
      BY <1>1, <3>1, UptoFacts
    <3>3. QED
      BY <1>3, <1>4, <3>2
  <2>3. QED
    BY <2>1, <2>2
<1>6. QED
  BY <1>1, <1>3, <1>4, <1>5 DEF Books

\* The oldest delta is added to the total.
LEMMA BooksSettle ==
  ASSUME NEW total, NEW f, NEW q, NEW actual, NEW Room, Room \subseteq Int, Books(total, f, q, actual, Room),
         NEW c \in DOMAIN f, q[c] \in Nat, \A s \in DOMAIN f \ {c} : q[s] \in Nat /\ q[c] < q[s]
  PROVE  total + f[c] \in Room /\ Books(total + f[c], Without(f, c), q, actual, Room)
<1> DEFINE g == Without(f, c)
<1>1. /\ IsFiniteSet(DOMAIN f) /\ f \in [DOMAIN f -> Int] /\ total \in Int
      /\ DOMAIN g = DOMAIN f \ {c} /\ IsFiniteSet(DOMAIN g) /\ g \in [DOMAIN g -> Int]
  BY FS_Subset DEF Books, Without
<1>2. Net(f) = Net(g) + f[c] /\ Net(g) \in Int /\ f[c] \in Int
  BY <1>1, NetSplit, NetFacts
<1>3. ASSUME NEW t \in Nat, t < q[c] PROVE Net(Upto(g, q, t)) = 0
  <2>1. DOMAIN Upto(g, q, t) = {}
    BY <1>1, <1>3 DEF Upto
  <2>2. QED
    BY <2>1, NetFacts
<1>4. ASSUME NEW t \in Nat, ~(t < q[c])
      PROVE  Net(Upto(f, q, t)) = Net(Upto(g, q, t)) + f[c] /\ Net(Upto(g, q, t)) \in Int
  <2>1. c \in DOMAIN Upto(f, q, t) /\ Upto(f, q, t)[c] = f[c]
    BY <1>4 DEF Upto
  <2>2. Without(Upto(f, q, t), c) = Upto(g, q, t)
    BY DEF Without, Upto
  <2>3. QED
    BY <1>1, <2>1, <2>2, UptoFacts, NetSplit
<1>5. total + f[c] \in Room
  <2>1. Net(Upto(g, q, q[c])) = 0
    <3>1. DOMAIN Upto(g, q, q[c]) = {}
      BY <1>1 DEF Upto
    <3>2. QED
      BY <3>1, NetFacts
  <2>2. Net(Upto(f, q, q[c])) = f[c]
    BY <1>2, <1>4, <2>1
  <2>3. QED
    BY <2>2 DEF Books
<1>6. ASSUME NEW t \in Nat PROVE total + f[c] + Net(Upto(g, q, t)) \in Room
  <2>1. CASE t < q[c]
    BY <1>1, <1>2, <1>3, <1>5, <2>1
  <2>2. CASE ~(t < q[c])
    <3>1. total + Net(Upto(f, q, t)) \in Room
      BY DEF Books
    <3>2. total + f[c] + Net(Upto(g, q, t)) = total + Net(Upto(f, q, t))
      BY <1>1, <1>2, <1>4, <2>2
    <3>3. QED
      BY <3>1, <3>2
  <2>3. QED
    BY <2>1, <2>2
<1>7. QED
  BY <1>1, <1>2, <1>5, <1>6 DEF Books

\* Nothing is pending, or what is keeps its tickets.
LEMMA BooksOpen ==
  ASSUME NEW f, f = [x \in DOMAIN f |-> f[x]], DOMAIN f = {}, NEW q, NEW actual, NEW Room, Room \subseteq Int, actual \in Room
  PROVE  Books(actual, f, q, actual, Room)
<1>1. Net(f) = 0 /\ IsFiniteSet(DOMAIN f) /\ f \in [DOMAIN f -> Int]
  BY NetFacts, FS_EmptySet
<1>2. \A t \in Nat : Net(Upto(f, q, t)) = 0
  BY NetFacts DEF Upto
<1>3. QED
  BY <1>1, <1>2 DEF Books

LEMMA BooksSame ==
  ASSUME NEW total, NEW f, NEW q, NEW p, NEW actual, NEW Room, Books(total, f, q, actual, Room),
         \A s \in DOMAIN f : p[s] = q[s]
  PROVE  Books(total, f, p, actual, Room)
<1>1. \A t \in Nat : Upto(f, p, t) = Upto(f, q, t)
  BY DEF Upto
<1>2. QED
  BY <1>1 DEF Books

-------------------------------------------------------------------------------
(* The totals.                                                             *)

ConvDeltas == [s \in Pending |-> result[s].conversationDelta]
UnreadDeltas == [s \in Pending |-> result[s].unreadDelta]

\* A slot has a result once its request was answered, and not before.
FreshInv ==
  /\ \A s \in Slots : state[s] = "Queued" => result[s] = NoResult
  /\ \A s \in Slots : state[s] = "Ready" => result[s] # NoResult
  /\ worker = "running" => result[current] = NoResult

\* What is pending is a report, and changes nothing if settle will ignore it.
ReportInv ==
  \A s \in Pending :
    /\ result[s] \in Reports
    /\ request[s].op \in Reads \/ result[s].outcome # "Committed" \/ result[s].duplicate =>
         result[s].conversationDelta = 0 /\ result[s].unreadDelta = 0

MediaTypes ==
  /\ records \in [Peers -> Nat] /\ unread \in [Peers -> Nat]
  /\ totalConversations \in 0 .. Cardinality(Peers) /\ totalUnread \in Nat
  /\ historyRevision \in Nat /\ fencedPeer \in Peers

BooksInv ==
  accepting \/ nextSequence > 0 =>
    /\ Books(totalConversations, ConvDeltas, seq, Conversations(records), 0 .. Cardinality(Peers))
    /\ Books(totalUnread, UnreadDeltas, seq, Sum(unread), Nat)

\* Only an answered request can be settled.
AnsweredInv == \A s \in Slots : state[s] \in {"Queued", "CancelQueued", "Running"} => seq[s] > settledThrough

TotalsInv == TicketsInv /\ StoreInv /\ AnsweredInv /\ FreshInv /\ ReportInv /\ MediaTypes /\ BooksInv

LEMMA PeersFinite == IsFiniteSet(Peers) /\ Cardinality(Peers) \in Nat
  BY PeersAssumption, FS_CardinalityType

LEMMA PendingFacts ==
  ASSUME TicketsInv
  PROVE  /\ Pending \subseteq Slots /\ IsFiniteSet(Pending)
         /\ \A s \in Pending : seq[s] \in Nat
         /\ FreshInv => \A s \in Pending : state[s] = "Ready" \/ worker = "publishing"
<1>1. Pending \subseteq Slots /\ IsFiniteSet(Pending)
  BY SlotsFinite, FS_Subset DEF Pending
<1>2. \A s \in Slots : seq[s] \in Nat
  BY DEF TicketsInv, FullInv, Inv, TypeOK
<1>3. ASSUME FreshInv, NEW s \in Pending PROVE state[s] = "Ready" \/ worker = "publishing"
  <2>1. state[s] = "Running" => s = current /\ worker \in {"running", "publishing"}
    BY <1>1 DEF TicketsInv, FullInv, Inv, FateInv
  <2>2. result[s] # NoResult /\ state[s] \in {"Running", "Ready"}
    BY DEF Pending
  <2>3. QED
    BY <1>3, <2>1, <2>2 DEF FreshInv
<1>4. QED
  BY <1>1, <1>2, <1>3

LEMMA ResultFacts ==
  /\ Failure \in Reports /\ Failure.conversationDelta = 0 /\ Failure.unreadDelta = 0
  /\ LET twice == Result("Committed", 0, 0, TRUE)
     IN twice \in Reports /\ twice.conversationDelta = 0 /\ twice.unreadDelta = 0
  /\ \A c \in {-1, 0, 1}, u \in Int :
       /\ Success(c, u) \in Reports /\ Success(c, u).conversationDelta = c /\ Success(c, u).unreadDelta = u
       /\ Success(c, u).outcome = "Committed" /\ Success(c, u).duplicate = FALSE
<1>1. {-1, 0, 1} \subseteq -1 .. 1
  OBVIOUS
<1>2. QED
  BY <1>1 DEF Failure, Success, Result, Reports

\* What a transaction makes of the counts, and what it reports of that.
Reported(r, count, new, res) ==
  /\ count \in Nat /\ new \in Nat /\ res \in Reports
  /\ Changed(r.peer, count, new, res)
  /\ res.unreadDelta = new - unread[r.peer]
  /\ res.conversationDelta = (IF count > 0 THEN 1 ELSE 0) - (IF records[r.peer] > 0 THEN 1 ELSE 0)
  /\ r.op \in Reads \/ res.outcome # "Committed" \/ res.duplicate =>
       res.conversationDelta = 0 /\ res.unreadDelta = 0

LEMMA ReportStep ==
  ASSUME NEW r, MediaTypes, r.peer \in Peers, Transaction(r)
  PROVE  \E count, new, res : Reported(r, count, new, res)
<1> DEFINE p == r.peer
<1>1. records[p] \in Nat /\ unread[p] \in Nat
  BY DEF MediaTypes
<1>2. ASSUME NEW res, res \in Reports, res.conversationDelta = 0, res.unreadDelta = 0,
             Changed(p, records[p], unread[p], res)
      PROVE  Reported(r, records[p], unread[p], res)
  BY <1>1, <1>2 DEF Reported
<1>3. ASSUME NEW c \in {-1, 0, 1}, NEW u \in Int, NEW count \in Nat, NEW new \in Nat, r.op \notin Reads,
             u = new - unread[p], Changed(p, count, new, Success(c, u)),
             c = (IF count > 0 THEN 1 ELSE 0) - (IF records[p] > 0 THEN 1 ELSE 0)
      PROVE  Reported(r, count, new, Success(c, u))
  BY <1>3, ResultFacts DEF Reported
<1>4. CASE Changed(p, records[p], unread[p], Failure)
  BY <1>2, <1>4, ResultFacts
<1>5. ASSUME r.op \in Creates, NEW n \in {0, 1},
             Changed(p, records[p] + 1, unread[p] + n, Success(IF records[p] = 0 THEN 1 ELSE 0, n))
      PROVE  \E count, new, res : Reported(r, count, new, res)
  <2>1. r.op \notin Reads
    BY <1>5 DEF Creates, Reads
  <2>2. /\ records[p] + 1 \in Nat /\ unread[p] + n \in Nat /\ n \in Int /\ n = (unread[p] + n) - unread[p]
        /\ (IF records[p] = 0 THEN 1 ELSE 0) \in {-1, 0, 1}
        /\ (IF records[p] = 0 THEN 1 ELSE 0) = (IF records[p] + 1 > 0 THEN 1 ELSE 0) - (IF records[p] > 0 THEN 1 ELSE 0)
    BY <1>1
  <2>3. QED
    BY <1>3, <1>5, <2>1, <2>2
<1>6. CASE Changed(p, records[p], unread[p], Result("Committed", 0, 0, TRUE))
  BY <1>2, <1>6, ResultFacts
<1>7. CASE r.op = "DeleteConversation" /\ Changed(p, 0, 0, Success(IF records[p] > 0 THEN -1 ELSE 0, -unread[p]))
  <2>1. r.op \notin Reads
    BY <1>7 DEF Reads
  <2>2. /\ -unread[p] \in Int /\ -unread[p] = 0 - unread[p] /\ (IF records[p] > 0 THEN -1 ELSE 0) \in {-1, 0, 1}
        /\ (IF records[p] > 0 THEN -1 ELSE 0) = (IF 0 > 0 THEN 1 ELSE 0) - (IF records[p] > 0 THEN 1 ELSE 0)
    BY <1>1
  <2>3. QED
    BY <1>3, <1>7, <2>1, <2>2
<1>8. ASSUME r.op = "MarkRead", NEW k \in 0 .. unread[p], Changed(p, records[p], unread[p] - k, Success(0, -k))
      PROVE  \E count, new, res : Reported(r, count, new, res)
  <2>1. r.op \notin Reads
    BY <1>8 DEF Reads
  <2>2. /\ -k \in Int /\ -k = (unread[p] - k) - unread[p] /\ unread[p] - k \in Nat /\ 0 \in {-1, 0, 1}
        /\ 0 = (IF records[p] > 0 THEN 1 ELSE 0) - (IF records[p] > 0 THEN 1 ELSE 0)
    BY <1>1, <1>8
  <2>3. QED
    BY <1>1, <1>3, <1>8, <2>1, <2>2
<1>9. ASSUME r.op = "Trim", NEW n \in 0 .. records[p], n > 0 => records[p] - n >= TrimLimit,
             NEW k \in 0 .. n, unread[p] - k \in 0 .. (records[p] - n),
             Changed(p, records[p] - n, unread[p] - k, Success(0, -k))
      PROVE  \E count, new, res : Reported(r, count, new, res)
  <2>1. r.op \notin Reads
    BY <1>9 DEF Reads
  <2>2. records[p] - n > 0 <=> records[p] > 0
    BY <1>1, <1>9, TrimLimitAssumption
  <2>3. /\ -k \in Int /\ -k = (unread[p] - k) - unread[p] /\ unread[p] - k \in Nat
        /\ records[p] - n \in Nat /\ 0 \in {-1, 0, 1}
        /\ 0 = (IF records[p] - n > 0 THEN 1 ELSE 0) - (IF records[p] > 0 THEN 1 ELSE 0)
    BY <1>1, <1>9, <2>2
  <2>4. QED
    BY <1>3, <1>9, <2>1, <2>3
<1>10. CASE Changed(p, records[p], unread[p], Success(0, 0))
  <2>1. Success(0, 0) \in Reports /\ Success(0, 0).conversationDelta = 0 /\ Success(0, 0).unreadDelta = 0
    BY ResultFacts
  <2>2. QED
    BY <1>2, <1>10, <2>1
<1>11. QED
  BY <1>4, <1>5, <1>6, <1>7, <1>8, <1>9, <1>10 DEF Transaction

LEMMA QueueStep ==
  ASSUME Reports \subseteq Results, TotalsInv, [StoreNext]_allVars
  PROVE  [Next]_vars
<1>1. CASE StoreBegin
  BY <1>1 DEF StoreBegin, Next
<1>2. ASSUME NEW r \in Requests, NEW s \in Slots, StoreSubmit(r, s) PROVE Next
  BY <1>2 DEF StoreSubmit, Next
<1>3. ASSUME NEW s \in Slots, NEW t \in 1 .. MaxSequence, StoreCancel(s, t) \/ StoreRelease(s, t) PROVE Next
  BY <1>3 DEF StoreCancel, StoreRelease, Next
<1>4. CASE StoreRequestStop
  BY <1>4 DEF StoreRequestStop, Next
<1>5. CASE StoreExecute
  <2>1. request[current] \in Requests
    BY DEF TotalsInv, TicketsInv, FullInv, Inv, TypeOK
  <2>2. request[current].peer \in Peers /\ MediaTypes /\ Transaction(request[current])
    BY <1>5, <2>1, PeersAssumption DEF TotalsInv, StoreExecute
  <2>3. PICK count, new, res : Reported(request[current], count, new, res)
    BY <2>2, ReportStep
  <2>4. res \in Results /\ WorkerExecute(res)
    BY <2>3 DEF Reported, Changed
  <2>5. QED
    BY <2>4 DEF Next, Worker
<1>6. CASE WorkerReceive \/ WorkerClaim \/ WorkerDrop \/ WorkerPublish \/ WorkerStop
  BY <1>6 DEF Next, Worker
<1>7. CASE Poll
  BY <1>7 DEF Poll, PollBegin, PollLoad, PollSettle, PollEnd
<1>8. CASE UNCHANGED allVars
  BY <1>8 DEF allVars
<1>9. QED
  BY <1>1, <1>2, <1>3, <1>4, <1>5, <1>6, <1>7, <1>8 DEF StoreNext, StoreWorker

\* A step that leaves what is pending, and the counts, as they are.
LEMMA PendingSame ==
  ASSUME TotalsInv, Pending' = Pending, UNCHANGED <<mediaVars, totals>>, fencedPeer' \in Peers,
         \A s \in Pending : result'[s] = result[s] /\ seq'[s] = seq[s] /\ request'[s] = request[s],
         accepting' \/ nextSequence' > 0 => accepting \/ nextSequence > 0
  PROVE  ReportInv' /\ MediaTypes' /\ BooksInv'
<1>1. ReportInv'
  BY DEF TotalsInv, ReportInv
<1>2. MediaTypes'
  BY DEF TotalsInv, MediaTypes, mediaVars, totals
<1>3. ConvDeltas' = ConvDeltas /\ UnreadDeltas' = UnreadDeltas
  BY DEF ConvDeltas, UnreadDeltas
<1>4. DOMAIN ConvDeltas = Pending /\ DOMAIN UnreadDeltas = Pending
  BY DEF ConvDeltas, UnreadDeltas
<1>5. ASSUME accepting' \/ nextSequence' > 0
      PROVE  /\ Books(totalConversations', ConvDeltas', seq', Conversations(records'), 0 .. Cardinality(Peers))
             /\ Books(totalUnread', UnreadDeltas', seq', Sum(unread'), Nat)
  <2>1. /\ Books(totalConversations, ConvDeltas, seq, Conversations(records), 0 .. Cardinality(Peers))
        /\ Books(totalUnread, UnreadDeltas, seq, Sum(unread), Nat)
    BY <1>5 DEF TotalsInv, BooksInv
  <2>2. /\ Books(totalConversations, ConvDeltas, seq', Conversations(records), 0 .. Cardinality(Peers))
        /\ Books(totalUnread, UnreadDeltas, seq', Sum(unread), Nat)
    BY <1>4, <2>1, BooksSame
  <2>3. UNCHANGED <<records, unread, totalConversations, totalUnread>>
    BY DEF mediaVars, totals
  <2>4. QED
    BY <1>3, <2>2, <2>3
<1>6. BooksInv'
  <2>1. Conversations(records)' = Conversations(records') /\ Sum(unread)' = Sum(unread')
    BY DEF Conversations, Sum
  <2>2. QED
    BY <1>5, <2>1 DEF BooksInv
<1>7. QED
  BY <1>1, <1>2, <1>6

TotalsParts == FreshInv /\ ReportInv /\ MediaTypes /\ BooksInv

LEMMA TotalsOwner ==
  ASSUME TotalsInv,
         \/ \E r \in Requests, s \in Slots : StoreSubmit(r, s)
         \/ \E s \in Slots, t \in 1 .. MaxSequence : StoreCancel(s, t) \/ StoreRelease(s, t)
         \/ StoreRequestStop \/ PollBegin \/ PollLoad \/ PollEnd \/ UNCHANGED allVars
  PROVE  TotalsParts'
<1>0. /\ TypeOK /\ FateInv /\ FreshInv /\ MediaTypes /\ TicketsInv
  BY DEF TotalsInv, TicketsInv, FullInv, Inv
<1>1. ASSUME NEW r \in Requests, NEW s \in Slots, StoreSubmit(r, s) PROVE TotalsParts'
  <2>1. /\ state[s] = "Free" /\ accepting
        /\ seq' = [seq EXCEPT ![s] = nextSequence + 1] /\ request' = [request EXCEPT ![s] = r]
        /\ result' = [result EXCEPT ![s] = NoResult]
        /\ \E st \in {"Queued", "Free"} : state' = [state EXCEPT ![s] = st]
        /\ UNCHANGED <<worker, current, mediaVars, settledThrough, totals>>
        /\ fencedPeer' \in {fencedPeer, r.peer}
    BY <1>1 DEF StoreSubmit, Submit, Admits, FirstFit, fenceVars
  <2>2. Pending' = Pending /\ s \notin Pending
    BY <1>0, <2>1 DEF Pending, TypeOK
  <2>3. fencedPeer' \in Peers
    BY <1>0, <2>1, PeersAssumption DEF MediaTypes
  <2>4. \A u \in Pending : u \in Slots /\ u # s
    BY <2>2 DEF Pending
  <2>5. ReportInv' /\ MediaTypes' /\ BooksInv'
    BY <1>0, <2>1, <2>2, <2>3, <2>4, PendingSame DEF TypeOK
  <2>6. worker = "running" => current # s
    BY <1>0, <2>1 DEF FateInv
  <2>7. FreshInv'
    BY <1>0, <2>1, <2>6 DEF FreshInv, TypeOK
  <2>8. QED
    BY <2>5, <2>7 DEF TotalsParts
<1>2. ASSUME NEW s \in Slots, NEW t \in 1 .. MaxSequence, StoreCancel(s, t) \/ StoreRelease(s, t) PROVE TotalsParts'
  <2>1. /\ state' \in {[state EXCEPT ![s] = "CancelQueued"], [state EXCEPT ![s] = "Free"]}
        /\ UNCHANGED <<seq, request, result, worker, current, accepting, nextSequence, storeVars>>
        /\ s \notin Pending
    <3>1. CASE StoreCancel(s, t)
      <4>1. state[s] = "Queued" /\ state' = [state EXCEPT ![s] = "CancelQueued"]
        BY <3>1 DEF StoreCancel, CancelRequest, Cancellable
      <4>2. UNCHANGED <<seq, request, result, worker, current, accepting, nextSequence, storeVars>>
        BY <3>1 DEF StoreCancel, CancelRequest, ownerVars, workerVars
      <4>3. QED
        BY <4>1, <4>2 DEF Pending
    <3>2. CASE StoreRelease(s, t)
      <4>1. seq[s] = t /\ t <= settledThrough /\ state' = [state EXCEPT ![s] = "Free"]
        BY <3>2 DEF StoreRelease, MayTake, Release, Readable, Matches
      <4>2. UNCHANGED <<seq, request, result, worker, current, accepting, nextSequence, storeVars>>
        BY <3>2 DEF StoreRelease, Release, workerVars
      <4>3. settledThrough \in Nat /\ seq[s] \in Nat
        BY <1>0 DEF TotalsInv, StoreInv, SlotTypes
      <4>4. QED
        BY <4>1, <4>2, <4>3 DEF Pending
    <3>3. QED
      BY <1>2, <3>1, <3>2
  <2>2. Pending' = Pending
    BY <1>0, <2>1 DEF Pending, TypeOK, storeVars
  <2>3. ReportInv' /\ MediaTypes' /\ BooksInv'
    BY <1>0, <2>1, <2>2, PendingSame DEF storeVars, fenceVars, MediaTypes
  <2>4. FreshInv'
    BY <1>0, <2>1 DEF FreshInv, TypeOK
  <2>5. QED
    BY <2>3, <2>4 DEF TotalsParts
<1>3. CASE StoreRequestStop \/ PollBegin \/ PollLoad \/ PollEnd \/ UNCHANGED allVars
  <2>1. /\ UNCHANGED <<slotVars, worker, current, settledThrough, mediaVars, totals, fencedPeer, nextSequence>>
        /\ accepting' => accepting
    BY <1>3 DEF StoreRequestStop, RequestStop, PollBegin, PollLoad, PollEnd, allVars, vars, workerVars, ownerVars,
         storeVars, fenceVars
  <2>2. Pending' = Pending
    BY <2>1 DEF Pending, slotVars
  <2>3. ReportInv' /\ MediaTypes' /\ BooksInv'
    BY <1>0, <2>1, <2>2, PendingSame DEF slotVars, MediaTypes
  <2>4. FreshInv'
    BY <1>0, <2>1 DEF FreshInv, slotVars
  <2>5. QED
    BY <2>3, <2>4 DEF TotalsParts
<1>4. QED
  BY <1>1, <1>2, <1>3

LEMMA TotalsWorker ==
  ASSUME TotalsInv, WorkerReceive \/ WorkerClaim \/ WorkerDrop \/ WorkerPublish \/ WorkerStop, UNCHANGED storeVars
  PROVE  TotalsParts'
<1>0. /\ TypeOK /\ FateInv /\ FreshInv /\ MediaTypes /\ TicketsInv /\ Cancelled # NoResult
  BY DEF TotalsInv, TicketsInv, FullInv, Inv
<1>1. UNCHANGED <<seq, request, accepting, nextSequence, mediaVars, totals, fencedPeer, settledThrough>>
  BY DEF WorkerReceive, WorkerClaim, WorkerDrop, WorkerPublish, WorkerStop, slotVars, ownerVars, storeVars, fenceVars
<1>2. ASSUME Pending' = Pending, \A s \in Pending : result'[s] = result[s] PROVE ReportInv' /\ MediaTypes' /\ BooksInv'
  BY <1>0, <1>1, <1>2, PendingSame DEF MediaTypes
<1>3. CASE WorkerReceive \/ WorkerStop
  <2>1. UNCHANGED slotVars /\ worker' # "running"
    BY <1>3 DEF WorkerReceive, WorkerStop
  <2>2. Pending' = Pending /\ FreshInv'
    BY <1>0, <1>1, <2>1 DEF Pending, FreshInv, slotVars
  <2>3. QED
    BY <1>2, <2>1, <2>2 DEF TotalsParts, slotVars
<1>4. CASE WorkerClaim
  <2>1. /\ state[current] = "Queued" /\ state' = [state EXCEPT ![current] = "Running"]
        /\ UNCHANGED <<result, current>> /\ current \in Slots
    BY <1>0, <1>4 DEF WorkerClaim, TypeOK
  <2>2. Pending' = Pending
    BY <1>0, <1>1, <2>1 DEF Pending, FreshInv, TypeOK
  <2>3. FreshInv'
    BY <1>0, <2>1 DEF FreshInv, TypeOK
  <2>4. QED
    BY <1>2, <2>1, <2>2, <2>3 DEF TotalsParts
<1>5. CASE WorkerDrop
  <2>1. /\ state[current] = "CancelQueued" /\ result' = [result EXCEPT ![current] = Cancelled]
        /\ UNCHANGED <<state, current>> /\ current \in Slots /\ worker' = "publishing"
    BY <1>0, <1>5 DEF WorkerDrop, TypeOK
  <2>2. Pending' = Pending /\ current \notin Pending /\ Pending \subseteq Slots
    BY <1>0, <1>1, <2>1 DEF Pending, TypeOK
  <2>3. FreshInv'
    BY <1>0, <2>1 DEF FreshInv, TypeOK
  <2>4. QED
    BY <1>0, <1>2, <2>1, <2>2, <2>3 DEF TotalsParts, TypeOK
<1>6. CASE WorkerPublish
  <2>1. /\ worker = "publishing" /\ state' = [state EXCEPT ![current] = "Ready"]
        /\ UNCHANGED <<result, current>> /\ current \in Slots /\ worker' = "idle"
    BY <1>0, <1>6 DEF WorkerPublish, TypeOK
  <2>2. \/ state[current] = "Running" /\ result[current] \in Results
        \/ state[current] = "CancelQueued" /\ result[current] = Cancelled
    BY <1>0, <2>1 DEF FateInv
  <2>3. Pending' = Pending
    BY <1>0, <1>1, <2>1, <2>2 DEF Pending, TypeOK
  <2>4. FreshInv'
    BY <1>0, <2>1, <2>2, ResultsAssumption DEF FreshInv, TypeOK
  <2>5. QED
    BY <1>2, <2>1, <2>3, <2>4 DEF TotalsParts
<1>7. QED
  BY <1>3, <1>4, <1>5, <1>6

LEMMA AnsweredNext ==
  ASSUME TicketsInv, StoreInv, AnsweredInv, [StoreNext]_allVars
  PROVE  AnsweredInv'
<1>0. /\ TypeOK /\ TicketInv /\ TicketsInOrder /\ SlotTypes /\ current \in Slots
      /\ settledThrough \in Nat /\ nextSequence \in Nat /\ \A s \in Slots : seq[s] \in Nat
  BY DEF TicketsInv, FullInv, Inv, TypeOK, StoreInv, SlotTypes
<1>1. ASSUME UNCHANGED <<seq, settledThrough>>,
             \A s \in Slots : \/ state'[s] = state[s] \/ state'[s] \in {"Free", "Ready"}
                              \/ state[s] \in {"Queued", "CancelQueued", "Running"}
      PROVE  AnsweredInv'
  BY <1>1 DEF AnsweredInv
<1>2. CASE StoreBegin \/ StoreRequestStop \/ PollBegin \/ PollLoad \/ PollEnd \/ UNCHANGED allVars
  <2>1. UNCHANGED <<seq, settledThrough, state>>
    BY <1>2 DEF StoreBegin, Begin, StoreRequestStop, RequestStop, PollBegin, PollLoad, PollEnd, allVars, vars, slotVars,
         storeVars
  <2>2. QED
    BY <1>1, <2>1
<1>3. ASSUME NEW r \in Requests, NEW s \in Slots, StoreSubmit(r, s) PROVE AnsweredInv'
  <2>1. /\ seq' = [seq EXCEPT ![s] = nextSequence + 1] /\ settledThrough' = settledThrough
        /\ \A u \in Slots : u # s => state'[u] = state[u]
    BY <1>0, <1>3 DEF StoreSubmit, Submit, TypeOK
  <2>2. QED
    BY <1>0, <2>1 DEF AnsweredInv, TicketsInOrder, TypeOK
<1>4. ASSUME NEW s \in Slots, NEW t \in 1 .. MaxSequence, StoreCancel(s, t) PROVE AnsweredInv'
  <2>1. state[s] = "Queued" /\ state' = [state EXCEPT ![s] = "CancelQueued"] /\ UNCHANGED <<seq, settledThrough>>
    BY <1>4 DEF StoreCancel, CancelRequest, Cancellable, storeVars
  <2>2. QED
    BY <1>0, <1>1, <2>1 DEF TypeOK
<1>5. ASSUME NEW s \in Slots, NEW t \in 1 .. MaxSequence, StoreRelease(s, t) PROVE AnsweredInv'
  <2>1. state' = [state EXCEPT ![s] = "Free"] /\ UNCHANGED <<seq, settledThrough>>
    BY <1>5 DEF StoreRelease, Release, storeVars
  <2>2. QED
    BY <1>0, <1>1, <2>1 DEF TypeOK
<1>6. CASE StoreWorker
  <2>1. UNCHANGED <<seq, settledThrough>>
    BY <1>6 DEF StoreWorker, StoreExecute, Transaction, Changed, WorkerReceive, WorkerClaim, WorkerDrop, WorkerExecute,
         WorkerPublish, WorkerStop, slotVars, storeVars
  <2>2. \/ state' = state
        \/ state[current] = "Queued" /\ state' = [state EXCEPT ![current] = "Running"]
        \/ state' = [state EXCEPT ![current] = "Ready"]
    BY <1>6 DEF StoreWorker, StoreExecute, Transaction, Changed, WorkerReceive, WorkerClaim, WorkerDrop, WorkerExecute,
         WorkerPublish, WorkerStop, slotVars
  <2>3. QED
    BY <1>0, <1>1, <2>1, <2>2 DEF TypeOK
<1>7. CASE PollSettle
  <2>1. /\ scanAt = EndOfScan /\ scanFirst # NoSlot /\ state[scanFirst] = "Ready"
        /\ settledThrough' = seq[scanFirst] /\ UNCHANGED <<seq, state>>
    BY <1>7 DEF PollSettle, vars, slotVars
  <2>2. /\ scanFirst \in Slots /\ Unsettled(scanFirst)
        /\ \A s \in Slots : Unsettled(s) => seq[scanFirst] <= seq[s]
    BY <2>1, OldestFound
  <2>3. ASSUME NEW s \in Slots, state[s] \in {"Queued", "CancelQueued", "Running"} PROVE seq[s] > seq[scanFirst]
    <3>1. Unsettled(s) /\ s # scanFirst
      BY <2>1, <2>3 DEF AnsweredInv, Unsettled
    <3>2. seq[s] # seq[scanFirst]
      BY <1>0, <2>2, <3>1 DEF TicketInv, Unsettled
    <3>3. QED
      BY <1>0, <2>2, <3>1, <3>2
  <2>4. QED
    BY <2>1, <2>3 DEF AnsweredInv
<1>8. QED
  BY <1>2, <1>3, <1>4, <1>5, <1>6, <1>7 DEF StoreNext, Poll

\* Everything pending was decided before the request that is being executed.
LEMMA OlderPending ==
  ASSUME TotalsInv, worker = "running"
  PROVE  /\ current \in Slots \ Pending /\ state[current] = "Running" /\ nextSequence > 0
         /\ seq[current] \in Nat /\ seq[current] > settledThrough
         /\ \A s \in Pending : seq[s] \in Nat /\ seq[s] < seq[current]
<1>0. /\ TypeOK /\ TicketInv /\ QueueInv /\ OrderInv /\ FateInv /\ FreshInv /\ TicketsInv /\ AnsweredInv
      /\ current \in Slots /\ settledThrough \in Nat /\ nextSequence \in Nat /\ \A s \in Slots : seq[s] \in Nat
  BY DEF TotalsInv, TicketsInv, FullInv, Inv, TypeOK, StoreInv, SlotTypes
<1>1. state[current] = "Running" /\ result[current] = NoResult
  BY <1>0 DEF FateInv, FreshInv
<1>2. seq[current] > settledThrough /\ nextSequence > 0
  BY <1>0, <1>1 DEF AnsweredInv, TicketInv
<1>3. current \notin Pending
  BY <1>1 DEF Pending
<1>4. ASSUME NEW s \in Pending PROVE seq[s] < seq[current]
  <2>1. s \in Slots /\ state[s] = "Ready" /\ s # current /\ seq[s] <= nextSequence /\ seq[s] # seq[current]
    BY <1>0, <1>1, <1>3, PendingFacts DEF TicketInv
  <2>2. seq[current] = LastDecided /\ LastDecided \in Nat
    BY <1>0 DEF OrderInv, Busy
  <2>3. seq[s] \notin OpenTickets
    <3>1. ASSUME NEW i \in 1 .. Len(fifo), fifo[i] # Stop, seq[fifo[i]] = seq[s] PROVE FALSE
      <4>1. fifo[i] \in Slots
        BY <1>0, <3>1 DEF TypeOK
      <4>2. fifo[i] = s
        BY <1>0, <1>4, <2>1, <3>1, <4>1 DEF TicketInv
      <4>3. QED
        BY <1>0, <2>1, <3>1, <4>2 DEF QueueInv, Waiting
    <3>2. QED
      BY <3>1 DEF OpenTickets
  <2>4. seq[s] \notin (LastDecided + 1) .. nextSequence
    BY <1>0, <2>3, OpenIsInterval
  <2>5. QED
    BY <1>0, <2>1, <2>2, <2>4
<1>5. QED
  BY <1>0, <1>1, <1>2, <1>3, <1>4, PendingFacts

LEMMA TotalsExecute ==
  ASSUME Reports \subseteq Results, TotalsInv, StoreExecute
  PROVE  TotalsParts'
<1> DEFINE c == current
           p == request[c].peer
<1>0. /\ TypeOK /\ FreshInv /\ ReportInv /\ MediaTypes /\ TicketsInv /\ worker = "running"
      /\ c \in Slots /\ request[c] \in Requests
  BY DEF TotalsInv, TicketsInv, FullInv, Inv, TypeOK, StoreExecute
<1>1. p \in Peers /\ Transaction(request[c])
  BY <1>0, PeersAssumption DEF StoreExecute
<1>2. PICK count, new, res : Reported(request[c], count, new, res)
  BY <1>0, <1>1, ReportStep
<1>3. /\ count \in Nat /\ new \in Nat /\ res \in Reports
      /\ records' = [records EXCEPT ![p] = count] /\ unread' = [unread EXCEPT ![p] = new]
      /\ res.unreadDelta = new - unread[p]
      /\ res.conversationDelta = (IF count > 0 THEN 1 ELSE 0) - (IF records[p] > 0 THEN 1 ELSE 0)
      /\ request[c].op \in Reads \/ res.outcome # "Committed" \/ res.duplicate =>
           res.conversationDelta = 0 /\ res.unreadDelta = 0
  BY <1>2 DEF Reported, Changed
<1>4. /\ result' = [result EXCEPT ![c] = res] /\ worker' = "publishing"
      /\ UNCHANGED <<state, seq, request, current, accepting, nextSequence>>
  BY <1>2 DEF Reported, Changed, WorkerExecute, ownerVars
<1>5. UNCHANGED <<settledThrough, fencedPeer, totals>>
  BY DEF StoreExecute, fenceVars
<1>6. res \in Results /\ res # NoResult /\ res # Cancelled
  BY <1>3, ResultsAssumption
<1>7. /\ c \in Slots \ Pending /\ state[c] = "Running" /\ nextSequence > 0
      /\ seq[c] \in Nat /\ seq[c] > settledThrough
      /\ \A s \in Pending : seq[s] \in Nat /\ seq[s] < seq[c]
  BY <1>0, OlderPending
<1>8. Pending' = Pending \cup {c} /\ \A s \in Pending : result'[s] = result[s]
  <2>1. Pending \subseteq Slots /\ c \notin Pending
    BY <1>7 DEF Pending
  <2>2. result'[c] = res /\ \A s \in Slots : s # c => result'[s] = result[s]
    BY <1>0, <1>4 DEF TypeOK
  <2>3. QED
    BY <1>4, <1>5, <1>6, <1>7, <2>1, <2>2 DEF Pending
<1>9. result'[c] = res
  BY <1>0, <1>4 DEF TypeOK
<1>10. FreshInv'
  BY <1>0, <1>4, <1>6, <1>7 DEF FreshInv, TypeOK
<1>11. ReportInv'
  BY <1>0, <1>3, <1>4, <1>8, <1>9 DEF ReportInv
<1>12. MediaTypes'
  BY <1>0, <1>3, <1>5 DEF MediaTypes, totals
<1>13. BooksInv'
  <2>1. /\ Books(totalConversations, ConvDeltas, seq, Conversations(records), 0 .. Cardinality(Peers))
        /\ Books(totalUnread, UnreadDeltas, seq, Sum(unread), Nat)
    BY <1>7 DEF TotalsInv, BooksInv
  <2>2. DOMAIN ConvDeltas = Pending /\ DOMAIN UnreadDeltas = Pending
    BY DEF ConvDeltas, UnreadDeltas
  <2>3. /\ ConvDeltas' = [s \in DOMAIN ConvDeltas \cup {c} |-> IF s = c THEN res.conversationDelta ELSE ConvDeltas[s]]
        /\ UnreadDeltas' = [s \in DOMAIN UnreadDeltas \cup {c} |-> IF s = c THEN res.unreadDelta ELSE UnreadDeltas[s]]
    BY <1>7, <1>8, <1>9 DEF ConvDeltas, UnreadDeltas
  <2>4. /\ res.conversationDelta \in Int /\ res.unreadDelta \in Int
    BY <1>3 DEF Reports
  <2>5. /\ Conversations(records') = Conversations(records) + res.conversationDelta
        /\ Conversations(records') \in 0 .. Cardinality(Peers)
    <3>1. records \in [Peers -> Nat] /\ records' \in [Peers -> Nat] /\ Conversations(records) \in Int
      BY <1>0, <1>12, ConversationsFacts, PeersFinite DEF MediaTypes
    <3>2. Conversations(records') = Conversations(records) - (IF records[p] > 0 THEN 1 ELSE 0) + (IF count > 0 THEN 1 ELSE 0)
      BY <1>1, <1>3, <3>1, ConversationsFacts
    <3>3. Conversations(records') \in 0 .. Cardinality(Peers)
      BY <3>1, ConversationsFacts
    <3>4. QED
      BY <1>3, <3>1, <3>2, <3>3
  <2>6. Sum(unread') = Sum(unread) + res.unreadDelta /\ Sum(unread') \in Nat
    <3>1. unread \in [Peers -> Nat] /\ unread' \in [Peers -> Nat] /\ unread \in [Peers -> Int] /\ unread' \in [Peers -> Int]
      BY <1>0, <1>12 DEF MediaTypes
    <3>2. Sum(unread') = Sum(unread) - unread[p] + new
      <4>1. \A x \in Peers, n \in Nat : Sum([unread EXCEPT ![x] = n]) = Sum(unread) - unread[x] + n
        BY <3>1, PeersFinite, SumExcept
      <4>2. QED
        BY <1>1, <1>3, <4>1
    <3>3. Sum(unread) \in Nat /\ Sum(unread') \in Nat /\ unread[p] \in Nat
      BY <1>1, <3>1, PeersFinite, MarksFinite
    <3>4. QED
      BY <1>3, <3>2, <3>3
  <2>7. Books(totalConversations, ConvDeltas', seq, Conversations(records'), 0 .. Cardinality(Peers))
    <3>1. /\ 0 .. Cardinality(Peers) \subseteq Int /\ c \notin DOMAIN ConvDeltas
          /\ \A s \in DOMAIN ConvDeltas : seq[s] \in Nat /\ seq[s] < seq[c]
          /\ Conversations(records) + res.conversationDelta \in 0 .. Cardinality(Peers)
      BY <1>7, <2>2, <2>5
    <3> HIDE DEF c
    <3>2. Books(totalConversations, ConvDeltas', seq, Conversations(records) + res.conversationDelta, 0 .. Cardinality(Peers))
      BY <1>7, <2>1, <2>3, <2>4, <3>1, BooksReport
    <3>3. QED
      BY <2>5, <3>2
  <2>8. Books(totalUnread, UnreadDeltas', seq, Sum(unread'), Nat)
    <3>1. /\ Nat \subseteq Int /\ c \notin DOMAIN UnreadDeltas
          /\ \A s \in DOMAIN UnreadDeltas : seq[s] \in Nat /\ seq[s] < seq[c]
          /\ Sum(unread) + res.unreadDelta \in Nat
      BY <1>7, <2>2, <2>6
    <3> HIDE DEF c
    <3>2. Books(totalUnread, UnreadDeltas', seq, Sum(unread) + res.unreadDelta, Nat)
      BY <1>7, <2>1, <2>3, <2>4, <3>1, BooksReport
    <3>3. QED
      BY <2>6, <3>2
  <2>9. Conversations(records)' = Conversations(records') /\ Sum(unread)' = Sum(unread')
    BY DEF Conversations, Sum
  <2>10. UNCHANGED <<seq, totalConversations, totalUnread>>
    BY <1>4, <1>5 DEF totals
  <2>11. QED
    BY <2>7, <2>8, <2>9, <2>10 DEF BooksInv
<1>14. QED
  BY <1>10, <1>11, <1>12, <1>13 DEF TotalsParts

\* Whatever the media hold, the counts are counts.
LEMMA CountTypes ==
  ASSUME MediaTypes
  PROVE  Conversations(records) \in 0 .. Cardinality(Peers) /\ Sum(unread) \in Nat
<1>1. records \in [Peers -> Nat] /\ unread \in [Peers -> Int]
  BY DEF MediaTypes
<1>2. QED
  BY <1>1, ConversationsFacts, PeersFinite, MarksFinite

\* begin reads the totals from the media while nothing is pending.
LEMMA TotalsBegin ==
  ASSUME TotalsInv, StoreBegin
  PROVE  TotalsParts'
<1>0. OutstandingExact /\ FreshInv /\ ReportInv /\ MediaTypes
  BY DEF TotalsInv, TicketsInv, FullInv, Inv
<1>1. /\ outstanding = 0 /\ UNCHANGED <<state, seq, request, result, current, settledThrough, records, unread,
                                        fencedPeer, historyRevision>>
      /\ worker' = "idle"
      /\ totalConversations' = Conversations(records) /\ totalUnread' = Sum(unread)
  BY DEF StoreBegin, Begin, FinishStop, slotVars, mediaVars, fenceVars
<1>2. \A s \in Slots : state'[s] = "Free"
  BY <1>0, <1>1, NoneInUse
<1>3. Pending' = {}
  BY <1>2 DEF Pending
<1>4. FreshInv' /\ ReportInv'
  BY <1>1, <1>2, <1>3 DEF FreshInv, ReportInv
<1>5. Conversations(records) \in 0 .. Cardinality(Peers) /\ Sum(unread) \in Nat
  BY <1>0, CountTypes
<1>6. MediaTypes'
  BY <1>0, <1>1, <1>5 DEF MediaTypes
<1>7. BooksInv'
  <2>1. /\ DOMAIN ConvDeltas' = {} /\ ConvDeltas' = [x \in DOMAIN ConvDeltas' |-> ConvDeltas'[x]]
        /\ DOMAIN UnreadDeltas' = {} /\ UnreadDeltas' = [x \in DOMAIN UnreadDeltas' |-> UnreadDeltas'[x]]
    BY <1>3 DEF ConvDeltas, UnreadDeltas
  <2>2. 0 .. Cardinality(Peers) \subseteq Int /\ Nat \subseteq Int
    OBVIOUS
  <2>3. /\ Books(Conversations(records), ConvDeltas', seq', Conversations(records), 0 .. Cardinality(Peers))
        /\ Books(Sum(unread), UnreadDeltas', seq', Sum(unread), Nat)
    BY <1>5, <2>1, <2>2, BooksOpen
  <2>4. Conversations(records)' = Conversations(records) /\ Sum(unread)' = Sum(unread)
    BY <1>1 DEF Conversations, Sum
  <2>5. QED
    BY <1>1, <2>3, <2>4 DEF BooksInv
<1>8. QED
  BY <1>4, <1>6, <1>7 DEF TotalsParts

\* settle takes the oldest pending delta, if the ticket has one.
LEMMA TotalsSettle ==
  ASSUME TotalsInv, PollSettle
  PROVE  TotalsParts'
<1> DEFINE c == scanFirst
<1>0. /\ TypeOK /\ TicketInv /\ FreshInv /\ ReportInv /\ MediaTypes /\ TicketsInv /\ StoreInv
      /\ settledThrough \in Nat /\ \A s \in Slots : seq[s] \in Nat
  BY DEF TotalsInv, TicketsInv, FullInv, Inv, TypeOK, StoreInv, SlotTypes
<1>1. /\ scanAt = EndOfScan /\ c # NoSlot /\ state[c] = "Ready" /\ Settle(c)
      /\ settledThrough' = seq[c]
      /\ UNCHANGED <<state, seq, request, result, worker, current, accepting, nextSequence, records, unread, fencedPeer>>
  BY DEF PollSettle, vars, slotVars, workerVars, ownerVars, mediaVars
<1>2. /\ c \in Slots /\ Unsettled(c)
      /\ \A s \in Slots : Unsettled(s) => seq[c] <= seq[s]
  BY <1>0, <1>1, OldestFound
<1>3. \A s \in Slots : Unsettled(s) /\ s # c => seq[c] < seq[s]
  BY <1>0, <1>2 DEF TicketInv, Unsettled
<1>4. Pending' = Pending \ {c} /\ \A s \in Pending : s # c => seq[c] < seq[s]
  <2>1. \A s \in Pending : s \in Slots /\ Unsettled(s)
    BY DEF Pending, Unsettled
  <2>2. \A s \in Pending : s # c => seq[c] < seq[s]
    BY <1>3, <2>1
  <2>3. \A s \in Slots : seq[s] > seq[c] => seq[s] > settledThrough
    BY <1>0, <1>2 DEF Unsettled
  <2>4. ~(seq[c] > seq[c])
    BY <1>0, <1>2
  <2>5. QED
    BY <1>1, <2>2, <2>3, <2>4 DEF Pending
<1>5. FreshInv' /\ ReportInv'
  BY <1>0, <1>1, <1>4 DEF FreshInv, ReportInv
<1>6. nextSequence > 0 /\ /\ Books(totalConversations, ConvDeltas, seq, Conversations(records), 0 .. Cardinality(Peers))
                          /\ Books(totalUnread, UnreadDeltas, seq, Sum(unread), Nat)
  <2>1. nextSequence > 0
    BY <1>0, <1>2 DEF TicketInv, Unsettled, TypeOK
  <2>2. QED
    BY <2>1 DEF TotalsInv, BooksInv
<1>7. DOMAIN ConvDeltas = Pending /\ DOMAIN UnreadDeltas = Pending /\ Pending \subseteq Slots
  BY DEF ConvDeltas, UnreadDeltas, Pending
<1>8. Conversations(records)' = Conversations(records) /\ Sum(unread)' = Sum(unread)
  BY <1>1 DEF Conversations, Sum
<1>9. totalConversations \in Nat /\ totalUnread \in Nat /\ historyRevision \in Nat
  BY <1>0, PeersFinite DEF MediaTypes
<1>10. CASE c \in Pending
  <2>1. ConvDeltas' = Without(ConvDeltas, c) /\ UnreadDeltas' = Without(UnreadDeltas, c)
    BY <1>1, <1>4, <1>7 DEF ConvDeltas, UnreadDeltas, Without
  <2>2. 0 .. Cardinality(Peers) \subseteq Int /\ Nat \subseteq Int
    OBVIOUS
  <2>3. /\ totalConversations + ConvDeltas[c] \in 0 .. Cardinality(Peers)
        /\ Books(totalConversations + ConvDeltas[c], ConvDeltas', seq, Conversations(records), 0 .. Cardinality(Peers))
    BY <1>0, <1>4, <1>6, <1>7, <1>10, <2>1, <2>2, BooksSettle
  <2>4. /\ totalUnread + UnreadDeltas[c] \in Nat
        /\ Books(totalUnread + UnreadDeltas[c], UnreadDeltas', seq, Sum(unread), Nat)
    BY <1>0, <1>4, <1>6, <1>7, <1>10, <2>1, <2>2, BooksSettle
  <2>5. /\ ConvDeltas[c] = result[c].conversationDelta /\ UnreadDeltas[c] = result[c].unreadDelta
        /\ result[c].conversationDelta \in -1 .. 1 /\ result[c].unreadDelta \in Int
        /\ result[c] # Cancelled
    BY <1>0, <1>10 DEF ConvDeltas, UnreadDeltas, ReportInv, Reports, Pending
  <2>6. /\ totalConversations' = totalConversations + ConvDeltas[c]
        /\ totalUnread' = totalUnread + UnreadDeltas[c]
        /\ historyRevision' \in {historyRevision, historyRevision + 1}
    <3>1. CASE request[c].op \in Reads \/ result[c].outcome # "Committed" \/ result[c].duplicate
      <4>1. UNCHANGED totals
        BY <1>1, <2>5, <3>1 DEF Settle
      <4>2. result[c].conversationDelta = 0 /\ result[c].unreadDelta = 0
        BY <1>0, <1>10, <3>1 DEF ReportInv
      <4>3. QED
        BY <1>9, <2>5, <4>1, <4>2 DEF totals
    <3>2. CASE ~(request[c].op \in Reads \/ result[c].outcome # "Committed" \/ result[c].duplicate)
      <4>1. AddToTotals(result[c]) /\ historyRevision' \in {historyRevision, historyRevision + 1}
        BY <1>1, <2>5, <3>2 DEF Settle
      <4>2. totalConversations + result[c].conversationDelta >= 0 /\ totalUnread + result[c].unreadDelta >= 0
        BY <2>3, <2>4, <2>5
      <4>3. ~(result[c].conversationDelta < 0 /\ totalConversations = 0) /\ ~(totalUnread + result[c].unreadDelta < 0)
        BY <1>9, <2>5, <4>2
      <4>4. QED
        BY <2>5, <4>1, <4>3 DEF AddToTotals
    <3>3. QED
      BY <3>1, <3>2
  <2>7. MediaTypes'
    BY <1>0, <1>1, <1>9, <2>3, <2>4, <2>6 DEF MediaTypes
  <2>8. BooksInv'
    BY <1>1, <1>8, <2>3, <2>4, <2>6 DEF BooksInv
  <2>9. QED
    BY <1>5, <2>7, <2>8 DEF TotalsParts
<1>11. CASE c \notin Pending
  <2>1. result[c] = Cancelled
    BY <1>0, <1>1, <1>2, <1>11 DEF Pending, Unsettled, FreshInv
  <2>2. UNCHANGED totals
    BY <1>1, <2>1 DEF Settle
  <2>3. Pending' = Pending /\ ConvDeltas' = ConvDeltas /\ UnreadDeltas' = UnreadDeltas
    BY <1>1, <1>4, <1>11 DEF ConvDeltas, UnreadDeltas
  <2>4. MediaTypes'
    BY <1>0, <1>1, <2>2 DEF MediaTypes, totals
  <2>5. BooksInv'
    BY <1>1, <1>6, <1>8, <2>2, <2>3 DEF BooksInv, totals
  <2>6. QED
    BY <1>5, <2>4, <2>5 DEF TotalsParts
<1>12. QED
  BY <1>10, <1>11

LEMMA TotalsInit == StoreInit => TotalsInv
<1> SUFFICES ASSUME StoreInit PROVE TotalsInv
  OBVIOUS
<1>1. TicketsInv /\ StoreInv
  BY OrderInit, StoreInvInit DEF StoreInit
<1>2. \A s \in Slots : state[s] = "Free" /\ result[s] = NoResult
  BY DEF StoreInit, Init
<1>3. AnsweredInv /\ FreshInv /\ ReportInv
  BY <1>2 DEF AnsweredInv, FreshInv, ReportInv, Pending, StoreInit, Init
<1>4. MediaTypes
  <2>1. PICK held \in Stored : records = [p \in Peers |-> held[p].records] /\ unread = [p \in Peers |-> held[p].unread]
    BY DEF StoreInit
  <2>2. \A p \in Peers : held[p].records \in Nat /\ held[p].unread \in 0 .. held[p].records
    BY <2>1, StoredAssumption
  <2>3. records \in [Peers -> Nat] /\ unread \in [Peers -> Nat]
    BY <2>1, <2>2
  <2>4. (CHOOSE p \in Peers : TRUE) \in Peers
    BY PeersAssumption
  <2>5. QED
    BY <2>3, <2>4, PeersFinite DEF MediaTypes, StoreInit
<1>5. BooksInv
  BY DEF BooksInv, StoreInit, Init
<1>6. QED
  BY <1>1, <1>3, <1>4, <1>5 DEF TotalsInv

LEMMA TotalsNext == Reports \subseteq Results /\ TotalsInv /\ [StoreNext]_allVars => TotalsInv'
<1> SUFFICES ASSUME Reports \subseteq Results, TotalsInv, [StoreNext]_allVars PROVE TotalsInv'
  OBVIOUS
<1>1. TicketsInv'
  <2>1. TicketsInv /\ [Next]_vars
    BY QueueStep DEF TotalsInv
  <2>2. QED
    BY <2>1, TicketsInvNext
<1>2. StoreInv' /\ AnsweredInv'
  BY StoreInvNext, AnsweredNext DEF TotalsInv
<1>3. TotalsParts'
  BY TotalsOwner, TotalsWorker, TotalsExecute, TotalsBegin, TotalsSettle DEF StoreNext, StoreWorker, Poll
<1>4. QED
  BY <1>1, <1>2, <1>3 DEF TotalsInv, TotalsParts

\* The types and the totals, from the invariant.
LEMMA TotalsInvExact == TotalsInv => TotalsExact
<1> SUFFICES ASSUME TotalsInv PROVE TotalsExact
  OBVIOUS
<1>1. TypeOK /\ SlotTypes /\ TicketsInOrder /\ FenceInv /\ MediaTypes
  BY DEF TotalsInv, TicketsInv, FullInv, Inv, StoreInv
<1>2. settledThrough \in 0 .. MaxSequence /\ fence \in 0 .. MaxSequence
  <2>1. nextSequence \in 0 .. MaxSequence /\ \A s \in Slots : seq[s] \in 0 .. MaxSequence
    BY <1>1 DEF TypeOK
  <2>2. QED
    BY <1>1, <2>1, Places DEF SlotTypes, TicketsInOrder, FenceInv
<1>3. StoreTypeOK
  BY <1>1, <1>2 DEF StoreTypeOK, SlotTypes, MediaTypes
<1>4. QED
  BY <1>3 DEF TotalsInv, BooksInv, Books, ConvDeltas, UnreadDeltas, TotalsExact

\* The totals the screens show are, at any moment, what the media hold but for
\* the deltas still to be settled: whatever the requests and their results, no
\* delta is lost, applied twice or cut off at zero
\* (MessageStoreTransactions.cpp:136-186).  The one premise is that the
\* executor may answer with every report there is.
THEOREM Totals == Reports \subseteq Results => (StoreSpec => []TotalsExact)
<1> SUFFICES ASSUME Reports \subseteq Results PROVE StoreSpec => []TotalsExact
  OBVIOUS
<1>1. TotalsInv /\ [StoreNext]_allVars => TotalsInv'
  BY TotalsNext
<1>2. QED
  BY TotalsInit, <1>1, TotalsInvExact, PTL DEF StoreSpec

===============================================================================
