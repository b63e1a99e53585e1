------------------------- MODULE DeviceServiceProofs -------------------------
(***************************************************************************)
(* For every number of slots and blocks and every set of operations: the   *)
(* mailbox's ring holds the ordinary slots that wait, each once and in the *)
(* order of admission, and every slot in use holds one credit and its own  *)
(* blocks.                                                                 *)
(*                                                                         *)
(* For every set of requests and loads of the service above it: a restart, *)
(* wipe or reset is carried out only when everything is quiet, and stays   *)
(* so; one that was reported as failed is never carried out; and a slot    *)
(* that runs has exactly one party that will complete it.                  *)
(***************************************************************************)
EXTENDS DeviceService, FiniteSetTheorems, TLAPS

----------------------------------------------------------------------------
(* The mailbox alone (ServiceMailbox).                                     *)

Held == {s \in Slots : state[s] # "Free"}
Waiting == {s \in Normal : state[s] \in {"Ready", "CancelReady"}}
Entries == readyHead .. (readyTail - 1)
EntryAt(i) == readySlots[i % NormalSlots]

CreditInv ==
  /\ outstanding = Cardinality(Held)
  /\ usedBlocks = UNION {request[s].blocks : s \in Held}
  /\ \A s, t \in Held : s # t => request[s].blocks \cap request[t].blocks = {}

\* RingHoldsWaiting, entry by entry.
RingInv ==
  /\ \A i \in Entries : EntryAt(i) \in Waiting /\ EntryAt(i) # publishing
  /\ \A i, j \in Entries : EntryAt(i) = EntryAt(j) => i = j
  /\ \A s \in Waiting : s # publishing => \E i \in Entries : EntryAt(i) = s
  /\ publishing # NoSlot => publishing \in Waiting

\* Identifiers are given out in order, one for each entry the ring ever had.
IdInv ==
  /\ \A i, j \in Entries : j < i => request[EntryAt(j)].id < request[EntryAt(i)].id
  /\ \A i \in Entries : publishing # NoSlot => request[EntryAt(i)].id < request[publishing].id
  /\ \A s \in Slots : request[s].id <= nextId
  /\ readyTail <= nextId /\ (publishing # NoSlot => readyTail < nextId)

MailboxInv == MailboxTypeOK /\ CreditInv /\ RingInv /\ IdInv

LEMMA Sizes ==
  /\ NormalSlots \in Nat \ {0} /\ BlockCount \in Nat /\ MaxId \in Nat
  /\ Normal \subseteq Nat /\ Slots \subseteq Nat /\ Normal \subseteq Slots
  /\ Lifecycle \notin Normal /\ Lifecycle \in Slots /\ NoSlot \notin Slots
  BY SizesAssumption DEF Normal, Slots, Lifecycle, NoSlot

LEMMA SlotsFinite ==
  /\ IsFiniteSet(Normal) /\ Cardinality(Normal) = NormalSlots
  /\ IsFiniteSet(Slots) /\ Cardinality(Slots) = NormalSlots + 1
<1>1. IsFiniteSet(0 .. NormalSlots - 1) /\ Cardinality(0 .. NormalSlots - 1) = NormalSlots
  BY Sizes, FS_Interval
<1>2. IsFiniteSet(Normal) /\ Cardinality(Normal) = NormalSlots
  BY <1>1 DEF Normal
<1>3. IsFiniteSet(Slots) /\ Cardinality(Slots) = NormalSlots + 1
  BY <1>2, Sizes, FS_AddElement DEF Slots
<1>4. QED
  BY <1>2, <1>3

LEMMA HeldFinite == IsFiniteSet(Held) /\ Cardinality(Held) \in 0 .. NormalSlots + 1
<1>1. Held \in SUBSET Slots
  BY DEF Held
<1>2. IsFiniteSet(Held) /\ Cardinality(Held) <= NormalSlots + 1
  BY <1>1, SlotsFinite, FS_Subset
<1>3. Cardinality(Held) \in Nat
  BY <1>2, FS_CardinalityType
<1>4. QED
  BY <1>2, <1>3, Sizes

LEMMA NoMultipleBetween == \A n \in Nat \ {0}, d \in Int : ~(0 < n * d /\ n * d < n)
<1> SUFFICES ASSUME NEW n \in Nat \ {0}, NEW d \in Int, 0 < n * d, n * d < n PROVE FALSE
  OBVIOUS
<1>1. CASE d >= 1
  <2>1. n * d = n * (d - 1) + n
    OBVIOUS
  <2>2. n * (d - 1) >= 0
    BY <1>1
  <2>3. QED
    BY <2>1, <2>2
<1>2. CASE d <= 0
  <2>1. n * (0 - d) >= 0
    BY <1>2
  <2>2. n * (0 - d) = 0 - n * d
    OBVIOUS
  <2>3. QED
    BY <2>1, <2>2
<1>3. QED
  BY <1>1, <1>2

\* Two counters less than a round apart name two places of the ring.
LEMMA PlacesDistinct ==
  ASSUME NEW i \in Nat, NEW j \in Nat, i < j, j - i < NormalSlots
  PROVE  i % NormalSlots # j % NormalSlots
<1> DEFINE n == NormalSlots
<1>0. n \in Nat \ {0}
  BY Sizes
<1> HIDE DEF n
<1>1. i = n * (i \div n) + (i % n) /\ i \div n \in Int /\ i % n \in Int
  BY <1>0
<1>2. j = n * (j \div n) + (j % n) /\ j \div n \in Int /\ j % n \in Int
  BY <1>0
<1> DEFINE p == i \div n
           q == j \div n
<1> HIDE DEF p, q
<1>3. SUFFICES ASSUME i % n = j % n PROVE FALSE
  BY DEF n
<1>4. j - i = n * (q - p) /\ q \in Int /\ p \in Int
  BY <1>0, <1>1, <1>2, <1>3 DEF p, q
<1>5. PICK d \in Int : d = q - p
  BY <1>4
<1>6. 0 < n * d /\ n * d < n
  BY <1>0, <1>4, <1>5 DEF n
<1>7. QED
  BY <1>0, <1>6, NoMultipleBetween

LEMMA PlaceType == ASSUME NEW i \in Nat PROVE i % NormalSlots \in Normal
  BY Sizes DEF Normal

LEMMA EntryTypes == MailboxTypeOK => \A i \in Entries : i \in Nat /\ EntryAt(i) \in Normal
<1> SUFFICES ASSUME MailboxTypeOK, NEW i \in Entries PROVE i \in Nat /\ EntryAt(i) \in Normal
  OBVIOUS
<1>1. i \in Nat
  BY Sizes DEF MailboxTypeOK, Entries
<1>2. QED
  BY <1>1, PlaceType DEF MailboxTypeOK, EntryAt

\* While a slot is on its way to the ring, the ring has a place for it.
LEMMA RoomInRing == MailboxTypeOK /\ RingInv /\ publishing # NoSlot => readyTail - readyHead < NormalSlots
<1> SUFFICES ASSUME MailboxTypeOK, RingInv, publishing # NoSlot, readyTail - readyHead >= NormalSlots PROVE FALSE
  BY Sizes DEF MailboxTypeOK
<1>1. readyHead \in Nat /\ readyTail \in Nat
  BY Sizes DEF MailboxTypeOK
<1>2. IsFiniteSet(Entries) /\ Cardinality(Entries) >= NormalSlots
  <2>1. \A a, b \in Int : IsFiniteSet(a .. b) /\ Cardinality(a .. b) = IF a > b THEN 0 ELSE b - a + 1
    BY FS_Interval
  <2>2. IsFiniteSet(readyHead .. (readyTail - 1))
        /\ Cardinality(readyHead .. (readyTail - 1)) = readyTail - readyHead
    BY <1>1, <2>1, Sizes
  <2>3. QED
    BY <2>2 DEF Entries
<1>3. publishing \in Normal
  BY DEF RingInv, Waiting
<1>4. IsFiniteSet(Normal \ {publishing}) /\ Cardinality(Normal \ {publishing}) = NormalSlots - 1
  BY <1>3, SlotsFinite, FS_RemoveElement
<1> DEFINE f == [i \in Entries |-> EntryAt(i)]
<1>5. f \in [Entries -> Normal \ {publishing}]
  BY EntryTypes DEF RingInv
<1>6. Cardinality(Normal \ {publishing}) < Cardinality(Entries)
  <2>1. Cardinality(Entries) \in Nat
    BY <1>2, FS_CardinalityType
  <2>2. QED
    BY <1>2, <1>4, <2>1, Sizes
<1>7. \E x, y \in Entries : x # y /\ f[x] = f[y]
  <2> HIDE DEF f
  <2>1. QED
    BY <1>2, <1>4, <1>5, <1>6, FS_PigeonHole
<1>8. QED
  BY <1>7 DEF RingInv

\* RingInv says of the entries what RingHoldsWaiting says of their set.
LEMMA RingInvMeans == MailboxTypeOK /\ RingInv => RingHoldsWaiting
<1> SUFFICES ASSUME MailboxTypeOK, RingInv PROVE RingHoldsWaiting
  OBVIOUS
<1> DEFINE f == [i \in Entries |-> EntryAt(i)]
           W == Waiting \ {publishing}
<1>1. f \in Injection(Entries, W)
  BY DEF RingInv, Injection, IsInjective
<1>2. f \in Surjection(Entries, W)
  BY DEF RingInv, Surjection
<1>3. IsFiniteSet(W)
  <2>1. W \in SUBSET Normal
    BY DEF Waiting
  <2>2. QED
    BY <2>1, SlotsFinite, FS_Subset
<1>4. Cardinality(Entries) = Cardinality(W)
  BY <1>1, <1>2, <1>3, FS_Injection
<1>5. {EntryAt(i) : i \in Entries} = W
  BY DEF RingInv
<1>6. QED
  BY <1>4, <1>5 DEF RingHoldsWaiting, RingInv, Waiting, Entries, EntryAt

\* What take finds at the front of the ring.
LEMMA FrontWaits ==
  ASSUME MailboxTypeOK, RingInv, ~RingEmpty
  PROVE  readyHead \in Entries /\ RingFront = EntryAt(readyHead) /\ RingFront \in Waiting /\ RingFront # publishing
<1>1. readyHead \in Entries
  BY Sizes DEF RingEmpty, MailboxTypeOK, Entries
<1>2. QED
  BY <1>1 DEF RingInv, RingFront, RingIndex, EntryAt

----------------------------------------------------------------------------
(* Types and credits.                                                      *)

LEMMA FreshBlocks ==
  ASSUME NEW n
  PROVE  LowestFreeBlocks(n) \subseteq Blocks \ usedBlocks
  BY DEF LowestFreeBlocks

\* The slot submit takes, and what it knows of it.
LEMMA SubmitTakes ==
  ASSUME NEW op \in NormalOps \cup LifecycleOps, NEW n, Submit(op, n)
  PROVE  \E s \in Slots :
           /\ state[s] = "Free" /\ state' = [state EXCEPT ![s] = "Ready"]
           /\ request' = [request EXCEPT ![s] = [id |-> nextId + 1, op |-> op, blocks |-> LowestFreeBlocks(n)]]
           /\ usedBlocks' = usedBlocks \cup LowestFreeBlocks(n)
           /\ outcome' = [outcome EXCEPT ![s] = NoOutcome]
           /\ (s \in Normal /\ publishing' = s) \/ (s = Lifecycle /\ publishing' = NoSlot)
<1>1. PICK s \in FreeSlots(op) :
         /\ request' = [request EXCEPT ![s] = [id |-> nextId + 1, op |-> op, blocks |-> LowestFreeBlocks(n)]]
         /\ usedBlocks' = usedBlocks \cup LowestFreeBlocks(n)
         /\ outcome' = [outcome EXCEPT ![s] = NoOutcome]
         /\ state' = [state EXCEPT ![s] = "Ready"]
         /\ publishing' = IF op \in LifecycleOps THEN NoSlot ELSE s
  BY DEF Submit
<1>2. s \in Slots /\ state[s] = "Free" /\ (op \in LifecycleOps => s = Lifecycle) /\ (op \notin LifecycleOps => s \in Normal)
  BY Sizes DEF FreeSlots, SlotsFor
<1>3. QED
  BY <1>1, <1>2

TypesExceptCount ==
  /\ state \in [Slots -> States]
  /\ request \in [Slots -> {NoRequest} \cup
       [id : 1 .. MaxId, op : NormalOps \cup LifecycleOps, blocks : SUBSET Blocks]]
  /\ outcome \in [Slots -> Outcomes \cup {NoOutcome}]
  /\ readySlots \in [Normal -> Normal]
  /\ readyHead \in 0 .. MaxId /\ readyTail \in readyHead .. MaxId
  /\ accepting \in BOOLEAN /\ recovery \in BOOLEAN
  /\ usedBlocks \subseteq Blocks
  /\ nextId \in 0 .. MaxId
  /\ publishing \in Normal \cup {NoSlot}

LEMMA CountsAreTypes == CreditInv /\ TypesExceptCount => MailboxTypeOK
  BY HeldFinite DEF CreditInv, TypesExceptCount, MailboxTypeOK

LEMMA TypesNext == MailboxTypeOK /\ IdInv /\ [MailboxNext]_mailboxVars => TypesExceptCount'
<1> SUFFICES ASSUME MailboxTypeOK, IdInv, [MailboxNext]_mailboxVars PROVE TypesExceptCount'
  OBVIOUS
<1> USE DEF MailboxTypeOK, TypesExceptCount, slotVars, ringVars, uiVars
<1>1. ASSUME NEW op \in NormalOps \cup LifecycleOps, NEW n \in 0 .. MaxBlocks, Submit(op, n) PROVE TypesExceptCount'
  <2>1. PICK s \in Slots :
           /\ state' = [state EXCEPT ![s] = "Ready"]
           /\ request' = [request EXCEPT ![s] = [id |-> nextId + 1, op |-> op, blocks |-> LowestFreeBlocks(n)]]
           /\ usedBlocks' = usedBlocks \cup LowestFreeBlocks(n)
           /\ outcome' = [outcome EXCEPT ![s] = NoOutcome]
           /\ publishing' \in Normal \cup {NoSlot}
    BY <1>1, SubmitTakes
  <2>2. LowestFreeBlocks(n) \subseteq Blocks
    BY FreshBlocks
  <2>3. nextId + 1 \in 1 .. MaxId /\ nextId' = nextId + 1
    BY <1>1, Sizes DEF Submit
  <2>4. [id |-> nextId + 1, op |-> op, blocks |-> LowestFreeBlocks(n)] \in
          [id : 1 .. MaxId, op : NormalOps \cup LifecycleOps, blocks : SUBSET Blocks]
    BY <2>2, <2>3
  <2>5. request' \in [Slots -> {NoRequest} \cup
          [id : 1 .. MaxId, op : NormalOps \cup LifecycleOps, blocks : SUBSET Blocks]]
    <3>1. PICK r \in [id : 1 .. MaxId, op : NormalOps \cup LifecycleOps, blocks : SUBSET Blocks] :
            r = [id |-> nextId + 1, op |-> op, blocks |-> LowestFreeBlocks(n)]
      BY <2>4
    <3>2. QED
      BY <2>1, <3>1
  <2>6. state' \in [Slots -> States] /\ outcome' \in [Slots -> Outcomes \cup {NoOutcome}]
    BY <2>1 DEF States
  <2>7. accepting' \in BOOLEAN
    BY <1>1 DEF Submit, AcceptingAfter
  <2>8. usedBlocks' \subseteq Blocks /\ nextId' \in 0 .. MaxId /\ publishing' \in Normal \cup {NoSlot}
    BY <2>1, <2>2, <2>3, Sizes
  <2>9. UNCHANGED <<readySlots, readyHead, readyTail, recovery>>
    BY <1>1 DEF Submit
  <2>10. QED
    BY <2>5, <2>6, <2>7, <2>8, <2>9
<1>2. CASE Publish
  <2>1. readyTail + 1 \in readyHead .. MaxId
    BY <1>2, Sizes DEF Publish, IdInv
  <2>2. readySlots' \in [Normal -> Normal]
    BY <1>2, Sizes DEF Publish
  <2>3. QED
    BY <1>2, <2>1, <2>2 DEF Publish
<1>3. ASSUME NEW s \in Slots, CancelSend(s) PROVE TypesExceptCount'
  BY <1>3 DEF CancelSend, CanCancel, CancelMark, States
<1>4. ASSUME NEW s \in Slots, Release(s) PROVE TypesExceptCount'
  BY <1>4 DEF Release, States
<1>5. CASE TakeNormal
  <2>1. RingFront \in Normal
    <3>0. readyHead \in Nat
      BY Sizes
    <3>1. readyHead % NormalSlots \in Normal
      BY ONLY <3>0, PlaceType
    <3>2. QED
      BY <3>1 DEF RingFront, RingIndex
  <2>2. readyHead + 1 \in 0 .. MaxId /\ readyTail \in readyHead + 1 .. MaxId
    BY <1>5, Sizes DEF TakeNormal, RingEmpty
  <2>3. accepting' \in BOOLEAN
    BY <1>5 DEF TakeNormal
  <2>4. state' \in [Slots -> States]
    BY <1>5, <2>1, Sizes DEF TakeNormal, StartedAs, States
  <2>5. QED
    BY <1>5, <2>2, <2>3, <2>4 DEF TakeNormal
<1>6. CASE TakeLast \/ TakeLifecycle
  BY <1>6, Sizes DEF TakeLast, TakeLifecycle, States
<1>7. ASSUME NEW s \in Slots, Claim(s) PROVE TypesExceptCount'
  BY <1>7 DEF Claim, States
<1>8. ASSUME NEW s \in Slots, NEW o \in Outcomes, PublishCompletion(s, o) PROVE TypesExceptCount'
  BY <1>8 DEF PublishCompletion, States
<1>9. ASSUME NEW value \in BOOLEAN, SetAccepting(value) PROVE TypesExceptCount'
  BY <1>9 DEF SetAccepting
<1>10. CASE AllowRecovery
  BY <1>10 DEF AllowRecovery
<1>11. CASE UNCHANGED mailboxVars
  BY <1>11 DEF mailboxVars
<1>12. QED
  BY <1>1, <1>2, <1>3, <1>4, <1>5, <1>6, <1>7, <1>8, <1>9, <1>10, <1>11 DEF MailboxNext, UINext, ServiceNext

\* A step that keeps the slots in use and what they hold keeps the credits.
LEMMA CreditsSame ==
  ASSUME CreditInv, \A s \in Slots : state'[s] = "Free" <=> state[s] = "Free",
         UNCHANGED <<request, usedBlocks, outstanding>>
  PROVE  CreditInv'
<1>1. Held' = Held
  BY DEF Held
<1>2. QED
  BY <1>1 DEF CreditInv

LEMMA CreditsNext == MailboxTypeOK /\ RingInv /\ CreditInv /\ [MailboxNext]_mailboxVars => CreditInv'
<1> SUFFICES ASSUME MailboxTypeOK, RingInv, CreditInv, [MailboxNext]_mailboxVars PROVE CreditInv'
  OBVIOUS
<1> USE DEF slotVars, ringVars, uiVars
<1>1. ASSUME NEW op \in NormalOps \cup LifecycleOps, NEW n \in 0 .. MaxBlocks, Submit(op, n) PROVE CreditInv'
  <2>1. PICK s \in Slots :
           /\ state[s] = "Free" /\ state' = [state EXCEPT ![s] = "Ready"]
           /\ request' = [request EXCEPT ![s] = [id |-> nextId + 1, op |-> op, blocks |-> LowestFreeBlocks(n)]]
           /\ usedBlocks' = usedBlocks \cup LowestFreeBlocks(n)
    BY <1>1, SubmitTakes
  <2>2. Held' = Held \cup {s} /\ s \notin Held
    BY <2>1 DEF Held, MailboxTypeOK
  <2>3. Cardinality(Held') = Cardinality(Held) + 1
    BY <2>2, HeldFinite, FS_AddElement
  <2>4. outstanding' = outstanding + 1
    BY <1>1 DEF Submit
  <2>5. request'[s].blocks = LowestFreeBlocks(n) /\ \A t \in Held : request'[t] = request[t]
    BY <2>1, <2>2 DEF MailboxTypeOK, Held
  <2>6. usedBlocks' = UNION {request'[t].blocks : t \in Held'}
    BY <2>1, <2>2, <2>5 DEF CreditInv
  <2>7. \A t \in Held : request'[t].blocks \cap LowestFreeBlocks(n) = {}
    <3>1. \A t \in Held : request[t].blocks \subseteq usedBlocks
      BY DEF CreditInv
    <3>2. QED
      BY <2>5, <3>1, FreshBlocks
  <2>8. \A t, u \in Held' : t # u => request'[t].blocks \cap request'[u].blocks = {}
    BY <2>2, <2>5, <2>7 DEF CreditInv
  <2>9. QED
    BY <2>3, <2>4, <2>6, <2>8 DEF CreditInv
<1>2. ASSUME NEW s \in Slots, Release(s) PROVE CreditInv'
  <2>1. state[s] = "Done" /\ state' = [state EXCEPT ![s] = "Free"] /\ request' = request
        /\ usedBlocks' = usedBlocks \ request[s].blocks /\ outstanding' = outstanding - 1
    BY <1>2 DEF Release, NextResult, Returned, CountAfterRelease
  <2>2. Held' = Held \ {s} /\ s \in Held
    BY <2>1 DEF Held, MailboxTypeOK
  <2>3. Cardinality(Held') = Cardinality(Held) - 1
    BY <2>2, HeldFinite, FS_RemoveElement
  <2>4. usedBlocks' = UNION {request[t].blocks : t \in Held'}
    BY <2>1, <2>2 DEF CreditInv
  <2>5. QED
    BY <2>1, <2>2, <2>3, <2>4 DEF CreditInv
<1>3. CASE Publish \/ AllowRecovery \/ (\E value \in BOOLEAN : SetAccepting(value)) \/ UNCHANGED mailboxVars
  BY <1>3, CreditsSame DEF Publish, AllowRecovery, SetAccepting, mailboxVars
<1>4. ASSUME NEW s \in Slots, CancelSend(s) PROVE CreditInv'
  <2>1. \A t \in Slots : state'[t] = "Free" <=> state[t] = "Free"
    BY <1>4 DEF CancelSend, CanCancel, CancelMark, MailboxTypeOK
  <2>2. QED
    BY <1>4, <2>1, CreditsSame DEF CancelSend
<1>5. ASSUME NEW s \in Slots, Claim(s) PROVE CreditInv'
  <2>1. \A t \in Slots : state'[t] = "Free" <=> state[t] = "Free"
    BY <1>5 DEF Claim, MailboxTypeOK
  <2>2. QED
    BY <1>5, <2>1, CreditsSame DEF Claim
<1>6. ASSUME NEW s \in Slots, NEW o \in Outcomes, PublishCompletion(s, o) PROVE CreditInv'
  <2>1. \A t \in Slots : state'[t] = "Free" <=> state[t] = "Free"
    BY <1>6 DEF PublishCompletion, MailboxTypeOK
  <2>2. QED
    BY <1>6, <2>1, CreditsSame DEF PublishCompletion
<1>7. CASE TakeLast \/ TakeLifecycle
  <2>1. \A t \in Slots : state'[t] = "Free" <=> state[t] = "Free"
    BY <1>7 DEF TakeLast, TakeLifecycle, MailboxTypeOK
  <2>2. QED
    BY <1>7, <2>1, CreditsSame DEF TakeLast, TakeLifecycle
<1>8. ASSUME TakeNormal, state[RingFront] # "Free" PROVE CreditInv'
  <2>1. \A t \in Slots : state'[t] = "Free" <=> state[t] = "Free"
    BY <1>8 DEF TakeNormal, StartedAs, MailboxTypeOK
  <2>2. QED
    BY <1>8, <2>1, CreditsSame DEF TakeNormal
<1>9. TakeNormal => state[RingFront] # "Free"
  BY FrontWaits DEF TakeNormal, Waiting
<1>10. QED
  BY <1>1, <1>2, <1>3, <1>4, <1>5, <1>6, <1>7, <1>8, <1>9 DEF MailboxNext, UINext, ServiceNext

----------------------------------------------------------------------------
(* The ring.                                                               *)

\* A step that keeps the waiting slots and the ring keeps what they say.
LEMMA RingSame ==
  ASSUME RingInv, IdInv, Waiting' = Waiting, UNCHANGED <<request, ringVars, nextId, publishing>>
  PROVE  RingInv' /\ IdInv'
<1>1. Entries' = Entries /\ \A i : EntryAt(i)' = EntryAt(i)
  BY DEF Entries, EntryAt, ringVars
<1>2. RingInv'
  BY <1>1 DEF RingInv
<1>3. IdInv'
  BY <1>1 DEF IdInv, ringVars
<1>4. QED
  BY <1>2, <1>3

LEMMA SubmitRing ==
  ASSUME MailboxTypeOK, RingInv, IdInv, NEW op \in NormalOps \cup LifecycleOps, NEW n, Submit(op, n)
  PROVE  RingInv' /\ IdInv'
<1>1. PICK s \in Slots :
         /\ state[s] = "Free" /\ state' = [state EXCEPT ![s] = "Ready"]
         /\ request' = [request EXCEPT ![s] = [id |-> nextId + 1, op |-> op, blocks |-> LowestFreeBlocks(n)]]
         /\ (s \in Normal /\ publishing' = s) \/ (s = Lifecycle /\ publishing' = NoSlot)
  BY SubmitTakes
<1>2. publishing = NoSlot /\ UNCHANGED <<readySlots, readyHead, readyTail>> /\ nextId' = nextId + 1
  BY DEF Submit, ringVars
<1>3. Entries' = Entries /\ \A i : EntryAt(i)' = EntryAt(i)
  BY <1>2 DEF Entries, EntryAt
<1>4. s \notin Waiting /\ Waiting' = Waiting \cup (IF s \in Normal THEN {s} ELSE {})
  BY <1>1, Sizes DEF Waiting, MailboxTypeOK
<1>5. publishing' # NoSlot => s \in Normal /\ publishing' = s
  BY <1>1
<1>6. \A i \in Entries : EntryAt(i) \in Waiting /\ EntryAt(i) # s
  BY <1>4 DEF RingInv
<1>7. RingInv'
  <2>1. \A i \in Entries' : EntryAt(i)' \in Waiting' /\ EntryAt(i)' # publishing'
    <3>1. \A i \in Entries : EntryAt(i) # NoSlot
      BY EntryTypes, Sizes
    <3>2. QED
      BY <1>1, <1>3, <1>4, <1>6, <3>1
  <2>2. \A i, j \in Entries' : EntryAt(i)' = EntryAt(j)' => i = j
    BY <1>3 DEF RingInv
  <2>3. \A u \in Waiting' : u # publishing' => \E i \in Entries' : EntryAt(i)' = u
    <3>1. \A u \in Waiting : \E i \in Entries : EntryAt(i) = u
      BY <1>2, Sizes DEF RingInv, Waiting
    <3>2. \A u \in Waiting' : u # publishing' => u \in Waiting
      BY <1>1, <1>4, Sizes
    <3>3. QED
      BY <1>3, <3>1, <3>2
  <2>4. publishing' # NoSlot => publishing' \in Waiting'
    BY <1>4, <1>5
  <2>5. QED
    BY <2>1, <2>2, <2>3, <2>4 DEF RingInv
<1>8. \A i \in Entries : request'[EntryAt(i)] = request[EntryAt(i)] /\ request[EntryAt(i)].id <= nextId /\ request[EntryAt(i)].id \in Nat
  <2>1. \A t \in Slots : request[t].id \in Nat
    BY Sizes DEF MailboxTypeOK, NoRequest
  <2>2. \A i \in Entries : EntryAt(i) \in Slots
    BY EntryTypes, Sizes
  <2>3. QED
    BY <1>1, <1>6, <2>1, <2>2 DEF IdInv, MailboxTypeOK
<1>9. request'[s].id = nextId + 1 /\ nextId \in Nat
  BY <1>1, Sizes DEF MailboxTypeOK
<1>10. IdInv'
  <2>1. \A i, j \in Entries' : j < i => request'[EntryAt(j)'].id < request'[EntryAt(i)'].id
    BY <1>3, <1>8 DEF IdInv
  <2>2. \A i \in Entries' : publishing' # NoSlot => request'[EntryAt(i)'].id < request'[publishing'].id
    BY <1>3, <1>5, <1>8, <1>9
  <2>3. \A t \in Slots : request'[t].id <= nextId'
    <3>1. \A t \in Slots : t # s => request'[t] = request[t] /\ request[t].id \in Nat
      BY <1>1, Sizes DEF MailboxTypeOK, NoRequest
    <3>2. QED
      BY <1>2, <1>9, <3>1 DEF IdInv
  <2>4. readyTail' <= nextId' /\ (publishing' # NoSlot => readyTail' < nextId')
    BY <1>2, <1>9, Sizes DEF IdInv, MailboxTypeOK
  <2>5. QED
    BY <2>1, <2>2, <2>3, <2>4 DEF IdInv
<1>11. QED
  BY <1>7, <1>10

LEMMA PublishRing ==
  ASSUME MailboxTypeOK, RingInv, IdInv, Publish
  PROVE  RingInv' /\ IdInv'
<1>1. publishing # NoSlot /\ publishing' = NoSlot /\ readyTail' = readyTail + 1 /\ readyHead' = readyHead
      /\ readySlots' = [readySlots EXCEPT ![readyTail % NormalSlots] = publishing]
      /\ UNCHANGED <<state, request, nextId>>
  BY DEF Publish, RingIndex, slotVars
<1>2. readyHead \in Nat /\ readyTail \in Nat /\ readyHead <= readyTail /\ readyTail - readyHead < NormalSlots
  BY <1>1, RoomInRing, Sizes DEF MailboxTypeOK
<1>3. Entries' = Entries \cup {readyTail} /\ readyTail \notin Entries /\ \A i \in Entries : i < readyTail
  BY <1>1, <1>2 DEF Entries
<1>4. \A i \in Entries : EntryAt(i)' = EntryAt(i)
  <2>1. ASSUME NEW i \in Entries PROVE i % NormalSlots # readyTail % NormalSlots /\ i % NormalSlots \in Normal
    <3>1. i \in Nat /\ i < readyTail /\ readyTail - i < NormalSlots
      BY <1>2, Sizes DEF Entries
    <3>2. QED
      BY <1>2, <3>1, PlacesDistinct, PlaceType
  <2>2. QED
    BY <1>1, <2>1 DEF EntryAt, MailboxTypeOK
<1>5. \A i \in Entries' : i \notin Entries => i = readyTail /\ EntryAt(i)' = publishing
  <2>1. readySlots'[readyTail % NormalSlots] = publishing
    <3>1. readyTail % NormalSlots \in Normal
      BY <1>2, PlaceType
    <3>2. QED
      BY <1>1, <3>1 DEF MailboxTypeOK
  <2>2. QED
    BY <1>3, <2>1 DEF EntryAt
<1>6. Waiting' = Waiting /\ publishing \in Waiting /\ NoSlot \notin Waiting
  BY <1>1, Sizes DEF Waiting, RingInv
<1>7. RingInv'
  <2>1. \A i \in Entries' : EntryAt(i)' \in Waiting' /\ EntryAt(i)' # publishing'
    BY <1>1, <1>4, <1>5, <1>6 DEF RingInv
  <2>2. \A i, j \in Entries' : EntryAt(i)' = EntryAt(j)' => i = j
    BY <1>4, <1>5 DEF RingInv
  <2>3. \A s \in Waiting' : \E i \in Entries' : EntryAt(i)' = s
    <3>1. readyTail \in Entries' /\ Entries \subseteq Entries'
      BY <1>3
    <3>2. QED
      BY <1>4, <1>5, <1>3, <1>6, <3>1 DEF RingInv
  <2>4. QED
    BY <1>1, <2>1, <2>2, <2>3 DEF RingInv
<1>8. IdInv'
  <2>0. \A i \in Entries : i \in Nat
    BY EntryTypes
  <2>1. \A i, j \in Entries' : j < i => request'[EntryAt(j)'].id < request'[EntryAt(i)'].id
    <3>1. \A i, j \in Entries : j < i => request'[EntryAt(j)'].id < request'[EntryAt(i)'].id
      BY <1>1, <1>4 DEF IdInv
    <3>2. \A i, j \in Entries' : i \notin Entries /\ j < i => j \in Entries
      BY <1>2, <1>3
    <3>3. \A i, j \in Entries' : j \notin Entries => ~(j < i)
      BY <1>2, <1>3, <2>0
    <3>4. \A j \in Entries : request'[EntryAt(j)'].id < request'[publishing].id
      BY <1>1, <1>4 DEF IdInv
    <3>5. QED
      BY <1>5, <3>1, <3>2, <3>3, <3>4
  <2>2. readyTail' <= nextId'
    BY <1>1, <1>2, Sizes DEF IdInv, MailboxTypeOK
  <2>3. QED
    BY <1>1, <2>1, <2>2 DEF IdInv
<1>9. QED
  BY <1>7, <1>8

LEMMA TakeRing ==
  ASSUME MailboxTypeOK, RingInv, IdInv, TakeNormal
  PROVE  RingInv' /\ IdInv'
<1>1. readyHead \in Entries /\ RingFront = EntryAt(readyHead) /\ RingFront \in Waiting /\ RingFront # publishing
  BY FrontWaits DEF TakeNormal
<1>2. readyHead' = readyHead + 1 /\ UNCHANGED <<readySlots, readyTail, request, nextId, publishing>>
      /\ state' = [state EXCEPT ![RingFront] = StartedAs(@)]
  BY DEF TakeNormal, uiVars
<1>3. Entries' = Entries \ {readyHead}
  BY <1>1, <1>2, Sizes DEF Entries, MailboxTypeOK
<1>4. \A i : EntryAt(i)' = EntryAt(i)
  BY <1>2 DEF EntryAt
<1>5. Waiting' = Waiting \ {RingFront}
  BY <1>1, <1>2, Sizes DEF Waiting, StartedAs, MailboxTypeOK
<1>6. RingInv'
  BY <1>1, <1>2, <1>3, <1>4, <1>5 DEF RingInv
<1>7. IdInv'
  BY <1>2, <1>3, <1>4 DEF IdInv
<1>8. QED
  BY <1>6, <1>7

LEMMA RingNext == MailboxTypeOK /\ RingInv /\ IdInv /\ [MailboxNext]_mailboxVars => RingInv' /\ IdInv'
<1> SUFFICES ASSUME MailboxTypeOK, RingInv, IdInv, [MailboxNext]_mailboxVars PROVE RingInv' /\ IdInv'
  OBVIOUS
<1> USE DEF slotVars, uiVars
<1>1. CASE AllowRecovery \/ (\E value \in BOOLEAN : SetAccepting(value)) \/ UNCHANGED mailboxVars
  <2>1. UNCHANGED <<state, request, ringVars, nextId, publishing>>
    BY <1>1 DEF AllowRecovery, SetAccepting, mailboxVars
  <2>2. QED
    BY <2>1, RingSame DEF Waiting
<1>2. ASSUME NEW s \in Slots, CancelSend(s) PROVE RingInv' /\ IdInv'
  <2>1. Waiting' = Waiting
    BY <1>2, Sizes DEF CancelSend, CanCancel, CancelMark, Waiting, MailboxTypeOK
  <2>2. QED
    BY <1>2, <2>1, RingSame DEF CancelSend
<1>3. ASSUME NEW s \in Slots, Release(s) PROVE RingInv' /\ IdInv'
  <2>1. Waiting' = Waiting
    BY <1>3, Sizes DEF Release, NextResult, Waiting, MailboxTypeOK
  <2>2. QED
    BY <1>3, <2>1, RingSame DEF Release
<1>4. ASSUME NEW s \in Slots, Claim(s) PROVE RingInv' /\ IdInv'
  <2>1. Waiting' = Waiting
    BY <1>4, Sizes DEF Claim, Waiting, MailboxTypeOK
  <2>2. QED
    BY <1>4, <2>1, RingSame DEF Claim
<1>5. ASSUME NEW s \in Slots, NEW o \in Outcomes, PublishCompletion(s, o) PROVE RingInv' /\ IdInv'
  <2>1. Waiting' = Waiting
    BY <1>5, Sizes DEF PublishCompletion, Waiting, MailboxTypeOK
  <2>2. QED
    BY <1>5, <2>1, RingSame DEF PublishCompletion
<1>6. CASE TakeLast \/ TakeLifecycle
  <2>1. Waiting' = Waiting
    BY <1>6, Sizes DEF TakeLast, TakeLifecycle, Waiting, MailboxTypeOK
  <2>2. QED
    BY <1>6, <2>1, RingSame DEF TakeLast, TakeLifecycle
<1>7. QED
  BY <1>1, <1>2, <1>3, <1>4, <1>5, <1>6, SubmitRing, PublishRing, TakeRing DEF MailboxNext, UINext, ServiceNext

----------------------------------------------------------------------------

LEMMA InvInit == MailboxInit => MailboxInv
<1> SUFFICES ASSUME MailboxInit PROVE MailboxInv
  OBVIOUS
<1>1. Held = {} /\ Waiting = {}
  BY Sizes DEF MailboxInit, Held, Waiting
<1>2. CreditInv
  BY <1>1, FS_EmptySet DEF MailboxInit, CreditInv
<1>3. Entries = {}
  BY DEF MailboxInit, Entries
<1>4. RingInv
  BY <1>1, <1>3 DEF MailboxInit, RingInv
<1>5. IdInv
  <2>1. \A s \in Slots : request[s].id <= nextId
    BY DEF MailboxInit, NoRequest
  <2>2. QED
    BY <1>3, <2>1 DEF MailboxInit, IdInv
<1>6. TypesExceptCount
  <2>1. 0 \in Normal /\ 0 \in 0 .. MaxId
    BY Sizes DEF Normal
  <2>2. QED
    BY <2>1 DEF MailboxInit, TypesExceptCount, States
<1>7. QED
  BY <1>2, <1>4, <1>5, <1>6, CountsAreTypes DEF MailboxInv

LEMMA InvNext == MailboxInv /\ [MailboxNext]_mailboxVars => MailboxInv'
<1> SUFFICES ASSUME MailboxInv, [MailboxNext]_mailboxVars PROVE MailboxInv'
  OBVIOUS
<1>1. TypesExceptCount' /\ CreditInv' /\ RingInv' /\ IdInv'
  BY TypesNext, CreditsNext, RingNext DEF MailboxInv
<1>2. (CreditInv /\ TypesExceptCount => MailboxTypeOK)'
  BY CountsAreTypes, PTL
<1>3. QED
  BY <1>1, <1>2 DEF MailboxInv

LEMMA InvAlways == MailboxSpec => []MailboxInv
  BY InvInit, InvNext, PTL DEF MailboxSpec

\* No request is lost in the ring or taken twice, although its places and the
\* slots are used again in any order (ServiceMailbox.h, submit and take).
THEOREM RingSafety == MailboxSpec => []RingHoldsWaiting
<1>1. MailboxInv => RingHoldsWaiting
  BY RingInvMeans DEF MailboxInv
<1>2. QED
  BY <1>1, InvAlways, PTL

\* Requests are taken in the order of their admission (ServiceMailbox.h, take).
THEOREM OrderSafety == MailboxSpec => []AdmissionOrder
<1>1. MailboxInv => AdmissionOrder
  <2> SUFFICES ASSUME MailboxInv PROVE AdmissionOrder
    OBVIOUS
  <2>1. \A i \in Entries : \A j \in readyHead .. (i - 1) : j \in Entries /\ j < i
    BY Sizes DEF MailboxInv, MailboxTypeOK, Entries
  <2>2. QED
    BY <2>1 DEF MailboxInv, IdInv, AdmissionOrder, Entries, EntryAt
<1>2. QED
  BY <1>1, InvAlways, PTL

\* Every slot in use holds one credit and its own blocks, and the count never
\* leaves its range (ServiceMailbox.h, submit and release).
THEOREM CreditSafety == MailboxSpec => []CreditsExact
<1>1. MailboxInv => CreditsExact
  BY DEF MailboxInv, CreditInv, CreditsExact, Held
<1>2. QED
  BY <1>1, InvAlways, PTL

----------------------------------------------------------------------------
(* The service over the mailbox (DeviceService).                           *)

USE OutcomesAssumption

\* The lifecycle request: where it is, and who will answer it.
LifecycleInv ==
  /\ state[Lifecycle] \in {"Free", "Ready", "Running", "Done"}
  /\ phase \in {"Quiescing", "Settling"} <=> lifecycleSlot = Lifecycle
  /\ phase = "Performing" <=> pc = "perform"
  /\ lifecycleSlot = Lifecycle \/ pc = "perform" => state[Lifecycle] = "Running"
  /\ accepting => phase = "Running" /\ state[Lifecycle] = "Free"

\* The state the service reports and the phase of the barrier.
ReportInv ==
  /\ serviceState = "Failed" => phase \in {"Running", "Failed"}
  /\ serviceState = "Running" => phase = "Running"
  /\ pc = "start" => /\ serviceState = "Starting" /\ phase = "Running"
                     /\ ~accepting /\ ~recovery /\ \A s \in Slots : state[s] = "Free"
  /\ claimed => phase \in {"Performing", "Stopped", "Failed"} /\ helpersStarted /\ storageStopStarted

BarrierInv == LifecycleInv /\ ReportInv

DeviceTypes ==
  /\ BarrierTypeOK
  /\ pc \in PcValues /\ cur \in Normal
  /\ bound \in BOOLEAN
  /\ serviceState \in {"Starting", "Running", "Quiescing", "Stopped", "Failed"}
  /\ lifecycleSlot \in {NoSlot, Lifecycle}
  /\ helpers \in {"running", "quiescing", "quiet"}
  /\ storage \in {"running", "stopping", "stopped"}
  /\ late \in BOOLEAN /\ rebooted \in BOOLEAN /\ load \in Loads

LEMMA Distinct == NoSlot # Lifecycle /\ Lifecycle \notin Normal /\ Normal \subseteq Slots /\ Lifecycle \in Slots
  BY Sizes DEF NoSlot, Lifecycle

-----------------------------------------------------------------------------
(* The mailbox inside the service: an action of the service is one of the  *)
(* mailbox's own, or one that neither frees nor takes a slot and leaves    *)
(* the ring alone.                                                         *)

LEMMA SlotsMove ==
  ASSUME MailboxInv, UNCHANGED <<request, ringVars, uiVars>>,
         state' \in [Slots -> States], outcome' \in [Slots -> Outcomes \cup {NoOutcome}],
         accepting' \in BOOLEAN, recovery' \in BOOLEAN,
         \A s \in Slots : state'[s] = state[s] \/ (state[s] \in RunningStates /\ state'[s] \in States \ {"Free", "Ready", "CancelReady"})
                          \/ (s = Lifecycle /\ state[s] # "Free" /\ state'[s] # "Free")
  PROVE  MailboxInv'
<1> USE DEF MailboxInv
<1>1. \A s \in Slots : state'[s] = "Free" <=> state[s] = "Free"
  BY DEF RunningStates
<1>2. CreditInv'
  BY <1>1, CreditsSame DEF uiVars
<1>3. Waiting' = Waiting
  BY Distinct DEF Waiting, RunningStates
<1>4. RingInv' /\ IdInv'
  BY <1>3, RingSame DEF uiVars
<1>5. MailboxTypeOK'
  BY DEF MailboxTypeOK, ringVars, uiVars
<1>6. QED
  BY <1>2, <1>4, <1>5

\* What an action of the service task may do to the mailbox.
Completes(S) ==
  /\ \A s \in S : state[s] \in {"Running", "CancelRunning"}
  /\ \E answer \in [Slots -> Outcomes] : Complete(S, answer)

LEMMA CompleteStep == ASSUME MailboxInv, NEW S \in SUBSET Slots, Completes(S) PROVE MailboxInv'
<1>1. PICK answer \in [Slots -> Outcomes] : Complete(S, answer)
  BY DEF Completes
<1>2. \A s \in Slots : state'[s] = IF s \in S THEN "Done" ELSE state[s]
  BY <1>1 DEF Complete
<1>3. state' \in [Slots -> States] /\ outcome' \in [Slots -> Outcomes \cup {NoOutcome}]
  BY <1>1 DEF Complete, MailboxInv, MailboxTypeOK, States
<1>4. \A s \in S : state[s] \in RunningStates
  BY DEF Completes, RunningStates
<1>5. accepting' \in BOOLEAN /\ recovery' \in BOOLEAN /\ UNCHANGED <<request, ringVars, uiVars>>
  BY <1>1 DEF Complete, MailboxInv, MailboxTypeOK
<1>6. "Done" \in States
  BY DEF States
<1>7. QED
  BY <1>2, <1>3, <1>4, <1>5, <1>6, SlotsMove

LEMMA LifecycleStep ==
  ASSUME MailboxInv, state[Lifecycle] # "Free", NEW x \in {"Running", "Done"}, NEW o \in Outcomes,
         state' \in {state, [state EXCEPT ![Lifecycle] = x]},
         outcome' \in {outcome, [outcome EXCEPT ![Lifecycle] = o]},
         UNCHANGED <<request, ringVars, uiVars>>, accepting' \in BOOLEAN, recovery' \in BOOLEAN
  PROVE  MailboxInv'
<1>1. state' \in [Slots -> States] /\ outcome' \in [Slots -> Outcomes \cup {NoOutcome}]
  BY Distinct DEF MailboxInv, MailboxTypeOK, States
<1>2. \A s \in Slots : state'[s] = state[s] \/ (s = Lifecycle /\ state'[s] # "Free")
  BY Distinct DEF MailboxInv, MailboxTypeOK
<1>3. QED
  BY <1>1, <1>2, SlotsMove

MailboxSteps ==
  \/ MailboxNext
  \/ UNCHANGED mailboxVars
  \/ \E S \in SUBSET Normal : Completes(S)
  \/ /\ state[Lifecycle] # "Free"
     /\ \E x \in {"Running", "Done"} : state' \in {state, [state EXCEPT ![Lifecycle] = x]}
     /\ \E o \in Outcomes : outcome' \in {outcome, [outcome EXCEPT ![Lifecycle] = o]}
     /\ accepting' \in BOOLEAN /\ recovery' \in BOOLEAN
     /\ UNCHANGED <<request, ringVars, uiVars>>
  \/ /\ accepting' \in BOOLEAN /\ recovery' \in BOOLEAN
     /\ UNCHANGED <<slotVars, ringVars, uiVars>>

LEMMA MailboxStep == MailboxInv /\ MailboxSteps => MailboxInv'
<1> SUFFICES ASSUME MailboxInv, MailboxSteps PROVE MailboxInv'
  OBVIOUS
<1>1. CASE MailboxNext \/ UNCHANGED mailboxVars
  BY <1>1, InvNext
<1>2. CASE \E S \in SUBSET Normal : Completes(S)
  BY <1>2, CompleteStep, Distinct
<1>3. CASE /\ accepting' \in BOOLEAN /\ recovery' \in BOOLEAN
           /\ UNCHANGED <<slotVars, ringVars, uiVars>>
  <2>1. state' \in [Slots -> States] /\ outcome' \in [Slots -> Outcomes \cup {NoOutcome}]
    BY <1>3 DEF MailboxInv, MailboxTypeOK, slotVars
  <2>2. QED
    BY <1>3, <2>1, SlotsMove DEF slotVars
<1>4. QED
  BY <1>1, <1>2, <1>3, LifecycleStep DEF MailboxSteps

\* What every action of the service does to the mailbox.
LEMMA StepsOfMailbox ==
  ASSUME MailboxInv, DeviceTypes, LifecycleInv, ServiceStep
  PROVE  MailboxSteps
<1> USE DEF MailboxSteps
<1>0. UNCHANGED mailboxVars => MailboxSteps
  OBVIOUS
<1>1. CASE UIStep
  <2>1. ASSUME NEW op \in NormalOps \cup LifecycleOps, UISubmit(op) PROVE MailboxNext
    <3>1. 0 \in 0 .. MaxBlocks
      BY SizesAssumption
    <3>2. QED
      BY <2>1, <3>1 DEF UISubmit, MailboxNext, UINext
  <2>2. ASSUME UIPublish PROVE MailboxNext
    BY <2>2 DEF UIPublish, MailboxNext, UINext
  <2>3. ASSUME NEW s \in Normal, UICancel(s) PROVE MailboxNext
    BY <2>3, Distinct DEF UICancel, MailboxNext, UINext
  <2>4. ASSUME NEW s \in Slots, UIRelease(s) PROVE MailboxNext
    BY <2>4 DEF UIRelease, MailboxNext, UINext
  <2>5. QED
    BY <1>1, <2>1, <2>2, <2>3, <2>4 DEF UIStep
<1>2. CASE OutsideStep \/ EngineStep
  BY <1>0, <1>2 DEF OutsideStep, EngineStep, StorageAnswers, StorageStops, HelpersRetire, DeadlinePasses,
                    EngineDecides, EngineTransmits, EngineRetires, engineUnchanged
<1>3. CASE OwnerStep
  <2>1. ASSUME NEW ok \in BOOLEAN, BindOwner(ok) PROVE MailboxSteps
    BY <2>1 DEF BindOwner
  <2>2. ASSUME NEW ok \in BOOLEAN, Perform(ok) PROVE MailboxSteps
    <3>1. state[Lifecycle] # "Free"
      BY <2>2 DEF Perform, At, LifecycleInv
    <3>2. recovery' \in BOOLEAN /\ accepting' \in BOOLEAN
      BY <2>2 DEF Perform, MailboxInv, MailboxTypeOK
    <3>3. PICK o \in Outcomes : outcome' = [outcome EXCEPT ![Lifecycle] = o]
      BY <2>2 DEF Perform
    <3>4. QED
      BY <2>2, <3>1, <3>2, <3>3 DEF Perform
  <2>3. ASSUME ExecuteLifecycle, state[Lifecycle] = "Ready", accepting' \in BOOLEAN PROVE MailboxSteps
    <3>1. PICK x \in {"Running", "Done"} : state' = [state EXCEPT ![Lifecycle] = x]
      BY <2>3 DEF ExecuteLifecycle
    <3>2. \E o \in Outcomes : outcome' \in {outcome, [outcome EXCEPT ![Lifecycle] = o]}
      BY <2>3 DEF ExecuteLifecycle
    <3>3. recovery' \in BOOLEAN /\ UNCHANGED <<request, ringVars, uiVars>>
      BY <2>3 DEF ExecuteLifecycle, MailboxInv, MailboxTypeOK
    <3>4. QED
      BY <2>3, <3>1, <3>2, <3>3
  <2>4. CASE ControlTaken
    BY <2>3, <2>4 DEF ControlTaken, ControlReady, MailboxInv, MailboxTypeOK
  <2>5. CASE ControlNone \/ NetworkDone \/ MaintainNothing \/ CommandNone \/ SendAccepted \/ WriteAccepted
    BY <1>0, <2>5 DEF ControlNone, NetworkDone, MaintainNothing, CommandNone, SendAccepted, WriteAccepted, Retain
  <2>6. ASSUME NEW p \in Passes, SendObserve(p) PROVE MailboxSteps
    BY <1>0, <2>6 DEF SendObserve
  <2>7. ASSUME NEW p \in Passes, SendClaim(p) PROVE MailboxSteps
    BY <2>7, Distinct DEF SendClaim, MailboxNext, ServiceNext, DeviceTypes
  <2>8. ASSUME NEW p \in Passes, SendPublish(p) PROVE MailboxSteps
    BY <2>8, Distinct DEF SendPublish, MailboxNext, ServiceNext, DeviceTypes
  <2>9. CASE WritesSettle
    <3>1. Settled \in SUBSET Normal
      BY DEF Settled
    <3>2. [s \in Slots |-> "Ok"] \in [Slots -> Outcomes]
      OBVIOUS
    <3>3. Completes(Settled)
      BY <2>9, <3>2 DEF WritesSettle, Completes, Complete
    <3>4. QED
      BY <3>1, <3>3
  <2>10. ASSUME NEW unrecoverable \in BOOLEAN, Maintain(unrecoverable) PROVE MailboxSteps
    <3> DEFINE v == Snapshot(unrecoverable)
               answers == ReportsFailure(v) /\ lifecycleSlot # NoSlot
    <3>1. /\ recovery' \in BOOLEAN /\ accepting' \in BOOLEAN
          /\ state' = IF answers THEN [state EXCEPT ![Lifecycle] = "Done"] ELSE state
          /\ outcome' = IF answers THEN [outcome EXCEPT ![Lifecycle] = "Failed"] ELSE outcome
          /\ UNCHANGED <<request, ringVars, uiVars>>
      BY <2>10 DEF Maintain, MailboxInv, MailboxTypeOK
    <3> HIDE DEF v
    <3>2. CASE answers
      <4>1. state[Lifecycle] # "Free"
        BY <3>2 DEF LifecycleInv, DeviceTypes
      <4>2. QED
        BY <3>1, <3>2, <4>1
    <3>3. CASE ~answers
      BY <3>1, <3>3 DEF slotVars
    <3>4. QED
      BY <3>2, <3>3
  <2>11. CASE CommandTaken
    BY <2>11 DEF CommandTaken, MailboxNext, ServiceNext
  <2>12. CASE CommandLifecycle
    BY <2>3, <2>12 DEF CommandLifecycle
  <2>13. ASSUME NEW o \in {"Ok", "Failed", "Cancelled"}, Answer(o) PROVE MailboxSteps
    <3>1. {cur} \in SUBSET Normal /\ [s \in Slots |-> o] \in [Slots -> Outcomes]
      BY DEF DeviceTypes
    <3>2. Completes({cur})
      BY <2>13, <3>1 DEF Answer, AnsweredSlots, Completes, Complete
    <3>3. QED
      BY <3>1, <3>2
  <2>14. QED
    BY <1>3, <2>1, <2>2, <2>4, <2>5, <2>6, <2>7, <2>8, <2>9, <2>10, <2>11, <2>12, <2>13
       DEF OwnerStep, ExecuteQuery, SendCancelled, SendRefused, WriteRefused
<1>4. QED
  BY <1>1, <1>2, <1>3 DEF ServiceStep

-----------------------------------------------------------------------------
(* The types of the service's own variables.                               *)

LEMMA DeviceTypesStep ==
  ASSUME MailboxInv, DeviceTypes, [ServiceStep]_vars
  PROVE  DeviceTypes'
<1> USE DEF DeviceTypes, BarrierTypeOK, barrierVars, ownerVars, worldVars, deviceVars, PcValues
<1> DEFINE Frame == UNCHANGED <<barrierVars, pc, cur, ownerVars, worldVars, deviceVars>>
<1>0. Frame => DeviceTypes'
  OBVIOUS
<1>1. CASE UIStep
  <2>1. UNCHANGED <<barrierVars, pc, cur, ownerVars, worldVars, load>> /\ rebooted' \in BOOLEAN
    BY <1>1 DEF UIStep, UISubmit, UIPublish, UICancel, UIRelease, uiUnchanged
  <2>2. QED
    BY <2>1
<1>2. CASE OutsideStep
  <2>1. /\ UNCHANGED <<barrierVars, pc, cur, ownerVars, deviceVars>>
        /\ helpers' \in {"running", "quiescing", "quiet"} /\ storage' \in {"running", "stopping", "stopped"}
    BY <1>2 DEF OutsideStep, StorageAnswers, StorageStops, HelpersRetire, DeadlinePasses
  <2>2. late' = late \/ late' = TRUE
    BY <1>2 DEF OutsideStep, StorageAnswers, StorageStops, HelpersRetire, DeadlinePasses
  <2>3. late' \in BOOLEAN
    BY <2>2
  <2>4. QED
    BY <2>1, <2>3
<1>3. CASE EngineStep
  <2>1. Frame
    BY <1>3 DEF EngineStep, EngineDecides, EngineTransmits, EngineRetires, engineUnchanged
  <2>2. QED
    BY <1>0, <2>1
<1>4. CASE OwnerStep
  <2>0. 0 \in Normal /\ AfterControl \in PcValues
    BY Sizes DEF Normal, AfterControl
  <2>1. ASSUME NEW ok \in BOOLEAN, BindOwner(ok) PROVE DeviceTypes'
    BY <2>1 DEF BindOwner, Goto
  <2>2. ASSUME NEW ok \in BOOLEAN, Perform(ok) PROVE DeviceTypes'
    BY <2>2 DEF Perform, Goto, BarrierComplete, Phases
  <2>3. ASSUME ExecuteLifecycle, pc' \in PcValues, cur' \in Normal PROVE DeviceTypes'
    <3>1. barrierVars' = barrierVars \/ (phase' = "Quiescing" /\ UNCHANGED <<helpersStarted, storageStopStarted, claimed>>)
      BY <2>3 DEF ExecuteLifecycle, BarrierBegin
    <3>2. /\ serviceState' \in {serviceState, "Quiescing"} /\ lifecycleSlot' \in {lifecycleSlot, Lifecycle}
          /\ UNCHANGED <<bound, worldVars, deviceVars>>
      BY <2>3 DEF ExecuteLifecycle
    <3>3. QED
      BY <2>3, <3>1, <3>2 DEF Phases
  <2>4. CASE ControlTaken \/ CommandLifecycle
    BY <2>0, <2>3, <2>4 DEF ControlTaken, CommandLifecycle, Goto
  <2>5. CASE ControlNone
    BY <2>0, <2>5 DEF ControlNone, Goto
  <2>6. CASE NetworkDone \/ MaintainNothing
    BY <2>0, <2>6 DEF NetworkDone, MaintainNothing, Goto
  <2>7. ASSUME NEW p \in Passes, SendObserve(p) \/ SendClaim(p) \/ SendPublish(p) PROVE DeviceTypes'
    <3>1. pc' \in PcValues /\ cur' \in Normal
      BY <2>0, <2>7 DEF Passes, SendObserve, SendClaim, SendPublish, NextSlot, Goto
    <3>2. UNCHANGED <<barrierVars, ownerVars, worldVars, deviceVars>>
      BY <2>7 DEF SendObserve, SendClaim, SendPublish, sendsUnchanged
    <3>3. QED
      BY <3>1, <3>2
  <2>8. CASE WritesSettle
    BY <2>8 DEF WritesSettle, Goto
  <2>9. ASSUME NEW unrecoverable \in BOOLEAN, Maintain(unrecoverable) PROVE DeviceTypes'
    <3> DEFINE v == Snapshot(unrecoverable)
    <3>1. /\ BarrierStep(v)
          /\ serviceState' \in {serviceState, "Failed"} /\ lifecycleSlot' \in {lifecycleSlot, NoSlot}
          /\ helpers' \in {helpers, "quiescing"} /\ storage' \in {storage, "stopping"}
          /\ pc' \in {"perform", "command"} /\ UNCHANGED <<cur, bound, late, deviceVars>>
      BY <2>9 DEF Maintain, Goto
    <3> HIDE DEF v
    <3>2. phase' \in Phases /\ helpersStarted' \in BOOLEAN /\ storageStopStarted' \in BOOLEAN /\ claimed' \in BOOLEAN
      BY <3>1, Zenon DEF BarrierStep, Phases
    <3>3. QED
      BY <3>1, <3>2
  <2>10. CASE CommandNone
    BY <2>10 DEF CommandNone, commandUnchanged, Goto
  <2>11. CASE CommandTaken
    <3>1. RingFront \in Normal
      BY <2>11, FrontWaits DEF CommandTaken, TakeNormal, MailboxInv, Waiting
    <3>2. QED
      BY <2>11, <3>1 DEF CommandTaken, commandUnchanged, Goto
  <2>12. ASSUME NEW o, Answer(o) PROVE DeviceTypes'
    BY <2>12 DEF Answer, commandUnchanged, Goto
  <2>13. CASE SendAccepted \/ WriteAccepted
    BY <2>13 DEF SendAccepted, WriteAccepted, Retain, commandUnchanged, Goto
  <2>14. QED
    BY <1>4, <2>1, <2>2, <2>4, <2>5, <2>6, <2>7, <2>8, <2>9, <2>10, <2>11, <2>12, <2>13
       DEF OwnerStep, ExecuteQuery, SendCancelled, SendRefused, WriteRefused
<1>5. CASE UNCHANGED vars
  BY <1>0, <1>5 DEF vars
<1>6. QED
  BY <1>1, <1>2, <1>3, <1>4, <1>5 DEF ServiceStep

-----------------------------------------------------------------------------
(* The barrier, the lifecycle request and what the service reports.        *)

\* A step that moves none of them keeps what is known of them.
LEMMA BarrierFrame ==
  ASSUME BarrierInv, state'[Lifecycle] = state[Lifecycle], (accepting' => accepting),
         (pc = "start" \/ pc' # "start"), (pc = "start" => pc' # "start" \/ UNCHANGED <<accepting, recovery, state>>),
         (pc' = "perform" <=> pc = "perform"), UNCHANGED <<barrierVars, serviceState, lifecycleSlot>>
  PROVE  BarrierInv'
  BY DEF BarrierInv, LifecycleInv, ReportInv, barrierVars

LEMMA BarrierInvStep ==
  ASSUME MailboxInv, DeviceTypes, BarrierInv, [ServiceStep]_vars
  PROVE  BarrierInv'
<1> USE DEF ownerVars
<1>0. /\ state \in [Slots -> States] /\ state[Lifecycle] \in {"Free", "Ready", "Running", "Done"}
      /\ \A s \in Normal : s # Lifecycle /\ s \in Slots
  BY Distinct DEF MailboxInv, MailboxTypeOK, BarrierInv, LifecycleInv
<1>1. CASE UIStep
  <2>0. UNCHANGED <<barrierVars, pc, ownerVars>>
    BY <1>1 DEF UIStep, UISubmit, UIPublish, UICancel, UIRelease, uiUnchanged
  <2>1. ASSUME NEW op \in NormalOps \cup LifecycleOps, UISubmit(op) PROVE BarrierInv'
    <3>1. pc # "start"
      BY <2>1 DEF UISubmit, Submit, Admitted, BarrierInv, ReportInv
    <3>2. accepting' => accepting /\ op \notin LifecycleOps
      BY <2>1 DEF UISubmit, Submit, AcceptingAfter
    <3>3. PICK s \in SlotsFor(op) : state[s] = "Free" /\ state' = [state EXCEPT ![s] = "Ready"]
      BY <2>1 DEF UISubmit, Submit, FreeSlots
    <3>4. CASE op \in LifecycleOps
      <4>1. s = Lifecycle /\ state'[Lifecycle] = "Ready" /\ ~accepting'
        BY <1>0, <3>2, <3>3, <3>4, Distinct DEF SlotsFor
      <4>2. lifecycleSlot # Lifecycle /\ pc # "perform"
        BY <3>3, <4>1 DEF BarrierInv, LifecycleInv
      <4>3. QED
        BY <2>0, <3>1, <4>1, <4>2 DEF BarrierInv, LifecycleInv, ReportInv, barrierVars
    <3>5. CASE op \notin LifecycleOps
      <4>1. state'[Lifecycle] = state[Lifecycle]
        BY <1>0, <3>3, <3>5, Distinct DEF SlotsFor
      <4>2. QED
        BY <2>0, <3>1, <3>2, <4>1, BarrierFrame
    <3>6. QED
      BY <3>4, <3>5
  <2>2. CASE UIPublish
    BY <2>0, <2>2, BarrierFrame DEF UIPublish, Publish, slotVars
  <2>3. ASSUME NEW s \in Normal, UICancel(s) PROVE BarrierInv'
    <3>1. pc # "start" /\ accepting' = accepting /\ state' = [state EXCEPT ![s] = CancelMark(@)]
      BY <1>0, <2>3 DEF UICancel, CancelSend, CanCancel, BarrierInv, ReportInv
    <3>2. QED
      BY <1>0, <2>0, <3>1, BarrierFrame
  <2>4. ASSUME NEW s \in Slots, UIRelease(s) PROVE BarrierInv'
    <3>1. pc # "start" /\ state[s] = "Done" /\ state' = [state EXCEPT ![s] = "Free"] /\ accepting' = accepting
      BY <2>4 DEF UIRelease, Release, NextResult, BarrierInv, ReportInv
    <3>2. CASE s = Lifecycle
      <4>1. state'[Lifecycle] = "Free" /\ lifecycleSlot # Lifecycle /\ pc # "perform" /\ ~accepting
        BY <1>0, <3>1, <3>2 DEF BarrierInv, LifecycleInv
      <4>2. QED
        BY <2>0, <3>1, <4>1 DEF BarrierInv, LifecycleInv, ReportInv, barrierVars
    <3>3. CASE s # Lifecycle
      BY <1>0, <2>0, <3>1, <3>3, BarrierFrame
    <3>4. QED
      BY <3>2, <3>3
  <2>5. QED
    BY <1>1, <2>1, <2>2, <2>3, <2>4 DEF UIStep
<1>2. CASE OutsideStep \/ EngineStep \/ UNCHANGED vars
  <2>1. UNCHANGED <<mailboxVars, barrierVars, pc, serviceState, lifecycleSlot>>
    BY <1>2 DEF OutsideStep, EngineStep, StorageAnswers, StorageStops, HelpersRetire, DeadlinePasses,
                EngineDecides, EngineTransmits, EngineRetires, engineUnchanged, vars
  <2>2. QED
    BY <2>1, BarrierFrame DEF mailboxVars, slotVars
<1>3. CASE OwnerStep
  <2>1. ASSUME NEW ok \in BOOLEAN, BindOwner(ok) PROVE BarrierInv'
    BY <2>1, Distinct DEF BindOwner, At, Goto, BarrierInv, LifecycleInv, ReportInv, barrierVars, slotVars
  <2>2. ASSUME NEW ok \in BOOLEAN, Perform(ok) PROVE BarrierInv'
    <3>1. /\ pc = "perform" /\ pc' = "command" /\ phase = "Performing" /\ phase' \in {"Stopped", "Failed"}
          /\ (serviceState' = "Failed" => phase' = "Failed") /\ serviceState' \in {"Stopped", "Failed"}
          /\ state' = [state EXCEPT ![Lifecycle] = "Done"]
          /\ UNCHANGED <<helpersStarted, storageStopStarted, claimed, accepting, lifecycleSlot>>
      BY <2>2 DEF Perform, At, Goto, BarrierComplete
    <3>2. lifecycleSlot # Lifecycle /\ ~accepting
      BY <3>1 DEF BarrierInv, LifecycleInv
    <3>3. QED
      BY <1>0, <3>1, <3>2, Distinct DEF BarrierInv, LifecycleInv, ReportInv
  <2>3. ASSUME ExecuteLifecycle, state[Lifecycle] = "Ready", pc \notin {"perform", "start"},
               pc' \notin {"perform", "start"}, accepting' => accepting PROVE BarrierInv'
    <3>1. ~accepting /\ phase # "Performing" /\ lifecycleSlot # Lifecycle
      BY <2>3 DEF BarrierInv, LifecycleInv
    <3> DEFINE begins == ~Forced(request[Lifecycle].op) /\ serviceState = "Running" /\ phase = "Running"
    <3>2. CASE begins
      <4>1. /\ state' = [state EXCEPT ![Lifecycle] = "Running"] /\ lifecycleSlot' = Lifecycle
            /\ serviceState' = "Quiescing" /\ phase' = "Quiescing" /\ phase = "Running"
            /\ UNCHANGED <<helpersStarted, storageStopStarted, claimed>>
        BY <2>3, <3>2 DEF ExecuteLifecycle, BarrierBegin
      <4>2. QED
        BY <1>0, <2>3, <3>1, <4>1, Distinct DEF BarrierInv, LifecycleInv, ReportInv
    <3>3. CASE ~begins
      <4>1. /\ state' = [state EXCEPT ![Lifecycle] = "Done"]
            /\ UNCHANGED <<barrierVars, lifecycleSlot, serviceState>>
        BY <2>3, <3>3 DEF ExecuteLifecycle
      <4>2. QED
        BY <1>0, <2>3, <3>1, <4>1, Distinct DEF BarrierInv, LifecycleInv, ReportInv, barrierVars
    <3>4. QED
      BY <3>2, <3>3
  <2>4. CASE ControlTaken
    BY <2>3, <2>4 DEF ControlTaken, ControlReady, At, Goto, AfterControl
  <2>5. CASE CommandLifecycle
    BY <2>3, <2>5 DEF CommandLifecycle, At, Goto
  <2>6. CASE ControlNone \/ NetworkDone \/ MaintainNothing \/ CommandNone \/ SendAccepted \/ WriteAccepted
    <3>1. UNCHANGED <<mailboxVars, barrierVars, serviceState, lifecycleSlot>>
      BY <2>6 DEF ControlNone, NetworkDone, MaintainNothing, CommandNone, SendAccepted, WriteAccepted, Retain, commandUnchanged
    <3>2. pc \notin {"start", "perform"} /\ pc' \notin {"start", "perform"}
      BY <2>6 DEF ControlNone, NetworkDone, MaintainNothing, CommandNone, SendAccepted, WriteAccepted, SendLive,
                  Retain, At, Goto, AfterControl
    <3>3. QED
      BY <3>1, <3>2, BarrierFrame DEF mailboxVars, slotVars
  <2>7. ASSUME NEW p \in Passes, SendObserve(p) \/ SendClaim(p) \/ SendPublish(p) PROVE BarrierInv'
    <3>1. pc \notin {"start", "perform"} /\ pc' \notin {"start", "perform"}
      BY <2>7 DEF Passes, SendObserve, SendClaim, SendPublish, At, NextSlot, Goto
    <3>2. UNCHANGED <<barrierVars, serviceState, lifecycleSlot>>
      BY <2>7 DEF SendObserve, SendClaim, SendPublish, sendsUnchanged
    <3>3. state'[Lifecycle] = state[Lifecycle] /\ accepting' = accepting
      <4>1. state' = state \/ \E x : state' = [state EXCEPT ![cur] = x]
        BY <2>7 DEF SendObserve, SendClaim, SendPublish, Claim, PublishCompletion, mailboxVars, slotVars
      <4>2. accepting' = accepting
        BY <2>7 DEF SendObserve, SendClaim, SendPublish, Claim, PublishCompletion, mailboxVars
      <4>3. cur # Lifecycle
        BY <1>0 DEF DeviceTypes
      <4>4. QED
        BY <1>0, <4>1, <4>2, <4>3, Distinct
    <3>4. QED
      BY <3>1, <3>2, <3>3, BarrierFrame
  <2>8. ASSUME NEW S \in SUBSET Normal, NEW answer, Complete(S, answer),
               pc \notin {"start", "perform"}, pc' \notin {"start", "perform"},
               UNCHANGED <<barrierVars, serviceState, lifecycleSlot>> PROVE BarrierInv'
    <3>1. state'[Lifecycle] = state[Lifecycle] /\ accepting' = accepting
      BY <1>0, <2>8, Distinct DEF Complete
    <3>2. QED
      BY <2>8, <3>1, BarrierFrame
  <2>9. CASE WritesSettle
    <3>1. Settled \in SUBSET Normal
      BY DEF Settled
    <3>2. QED
      BY <2>8, <2>9, <3>1 DEF WritesSettle, At, Goto
  <2>10. ASSUME NEW o, Answer(o) PROVE BarrierInv'
    <3>1. {cur} \in SUBSET Normal
      BY DEF DeviceTypes
    <3>2. QED
      BY <2>8, <2>10, <3>1 DEF Answer, AnsweredSlots, commandUnchanged, At, Goto
  <2>11. CASE CommandTaken
    <3>1. RingFront \in Normal
      BY <2>11, FrontWaits DEF CommandTaken, TakeNormal, MailboxInv, Waiting
    <3>2. state'[Lifecycle] = state[Lifecycle] /\ (accepting' => accepting)
      <4>1. \E x : state' = [state EXCEPT ![RingFront] = x]
        BY <2>11 DEF CommandTaken, TakeNormal
      <4>2. accepting' = (accepting /\ state[Lifecycle] # "Ready")
        BY <2>11 DEF CommandTaken, TakeNormal
      <4>3. QED
        BY <1>0, <3>1, <4>1, <4>2, Distinct
    <3>3. QED
      BY <2>11, <3>2, BarrierFrame DEF CommandTaken, commandUnchanged, At, Goto
  <2>12. ASSUME NEW unrecoverable \in BOOLEAN, Maintain(unrecoverable) PROVE BarrierInv'
    <3> DEFINE v == Snapshot(unrecoverable)
               reports == ReportsFailure(v)
               performs == Performs(v)
    <3>1. /\ pc = "maintain" /\ phase \in {"Quiescing", "Settling", "Failed"} /\ accepting' = accepting
          /\ BarrierStep(v)
          /\ serviceState' = IF reports THEN "Failed" ELSE serviceState
          /\ state' = IF reports /\ lifecycleSlot # NoSlot THEN [state EXCEPT ![Lifecycle] = "Done"] ELSE state
          /\ lifecycleSlot' = IF reports \/ performs THEN NoSlot ELSE lifecycleSlot
          /\ pc' = IF performs THEN "perform" ELSE "command"
      BY <2>12 DEF Maintain, At, Goto, Stepping
    <3>2. reports => phase # "Failed" /\ ~performs
      BY DEF ReportsFailure, Performs, FailsWith
    <3>3. performs => phase # "Failed" /\ helpersStarted /\ storageStopStarted
      BY DEF Performs, FailsWith, Retired
    <3>4. /\ performs => phase' = "Performing"
          /\ ~performs /\ (phase = "Failed" \/ reports) => phase' = "Failed"
          /\ ~performs /\ phase # "Failed" /\ ~reports => phase' \in {phase, "Settling"}
      BY <3>1, Zenon DEF BarrierStep, FailsWith
    <3>5. /\ (helpersStarted => helpersStarted') /\ (storageStopStarted => storageStopStarted')
          /\ claimed' => claimed \/ performs
      BY <3>1 DEF BarrierStep
    <3> HIDE DEF v, reports, performs
    <3>6. ~accepting /\ pc' # "start" /\ lifecycleSlot \in {NoSlot, Lifecycle}
      BY <3>1 DEF BarrierInv, LifecycleInv, DeviceTypes
    <3>7. (lifecycleSlot = Lifecycle <=> phase # "Failed") /\ (lifecycleSlot = Lifecycle => state[Lifecycle] = "Running")
      BY <3>1 DEF BarrierInv, LifecycleInv
    <3>8. state'[Lifecycle] = IF reports /\ lifecycleSlot = Lifecycle THEN "Done" ELSE state[Lifecycle]
      BY <1>0, <3>1, <3>6, Distinct
    <3>9. LifecycleInv' /\ ReportInv'
      <4>0. /\ serviceState # "Running" /\ (serviceState = "Failed" => phase = "Failed")
            /\ claimed => phase = "Failed" /\ helpersStarted /\ storageStopStarted
            /\ state[Lifecycle] \in {"Free", "Ready", "Running", "Done"}
        BY <3>1 DEF BarrierInv, ReportInv, LifecycleInv
      <4>1. CASE reports
        <5>1. lifecycleSlot' = NoSlot /\ pc' = "command" /\ phase' = "Failed" /\ serviceState' = "Failed" /\ state'[Lifecycle] = "Done"
          BY <3>1, <3>2, <3>4, <3>6, <3>7, <3>8, <4>1
        <5>2. claimed' => claimed
          BY <3>2, <3>5, <4>1
        <5>3. LifecycleInv'
          BY <3>1, <3>6, <5>1, Distinct DEF LifecycleInv
        <5>4. ReportInv'
          BY Zenon, <3>5, <4>0, <5>1, <5>2 DEF ReportInv
        <5>5. QED
          BY <5>3, <5>4
      <4>2. CASE performs
        <5>0. ~reports /\ phase # "Failed"
          BY <3>2, <3>3, <4>2
        <5>1. /\ lifecycleSlot' = NoSlot /\ pc' = "perform" /\ phase' = "Performing" /\ serviceState' = serviceState
              /\ state'[Lifecycle] = "Running"
          BY <3>1, <3>4, <3>7, <3>8, <4>2, <5>0
        <5>5. helpersStarted' /\ storageStopStarted'
          BY <3>3, <3>5, <4>2
        <5>2. LifecycleInv'
          BY <3>1, <3>6, <5>1, Distinct DEF LifecycleInv
        <5>3. ReportInv'
          BY <4>0, <5>0, <5>1, <5>5 DEF ReportInv
        <5>4. QED
          BY <5>2, <5>3
      <4>3. CASE ~reports /\ ~performs
        <5>1. lifecycleSlot' = lifecycleSlot /\ pc' = "command" /\ serviceState' = serviceState
              /\ state'[Lifecycle] = state[Lifecycle]
              /\ (phase' = "Failed" <=> phase = "Failed") /\ phase' \in {"Quiescing", "Settling", "Failed"}
          BY <3>1, <3>4, <3>8, <4>3
        <5>2. claimed' => claimed
          BY <3>5, <4>3
        <5>3. LifecycleInv'
          BY <3>1, <3>6, <3>7, <4>0, <5>1, Distinct DEF LifecycleInv
        <5>4. ReportInv'
          BY Zenon, <3>5, <4>0, <5>1, <5>2 DEF ReportInv
        <5>5. QED
          BY <5>3, <5>4
      <4>4. QED
        BY <4>1, <4>2, <4>3
    <3>10. QED
      BY <3>9 DEF BarrierInv
  <2>13. QED
    BY <1>3, <2>1, <2>2, <2>4, <2>5, <2>6, <2>7, <2>9, <2>10, <2>11, <2>12
       DEF OwnerStep, ExecuteQuery, SendCancelled, SendRefused, WriteRefused
<1>4. QED
  BY <1>1, <1>2, <1>3 DEF ServiceStep

-----------------------------------------------------------------------------
(* Once the operation is claimed.                                          *)

\* The part of QuietTeardown that the rest follows from.
Quiet == claimed => ~NormalWorkPending /\ rows = {} /\ helpers = "quiet" /\ storage = "stopped"

LEMMA QuietMeans == MailboxInv /\ BarrierInv /\ Quiet => QuietTeardown
<1> SUFFICES ASSUME MailboxInv, BarrierInv, Quiet, claimed
             PROVE  RingEmpty /\ publishing = NoSlot /\ ~accepting
  BY DEF Quiet, QuietTeardown
<1>1. ~accepting
  BY DEF BarrierInv, LifecycleInv, ReportInv
<1>2. Waiting = {}
  BY DEF Quiet, NormalWorkPending, Waiting, PendingStates
<1>3. QED
  BY <1>1, <1>2, FrontWaits DEF MailboxInv, RingInv

\* Where nothing is accepted and no ordinary request is pending, none becomes so.
LEMMA NoNewWork ==
  ASSUME MailboxInv, MailboxSteps, ~accepting, ~NormalWorkPending
  PROVE  ~NormalWorkPending'
<1>0. /\ \A s \in Normal : state[s] \notin PendingStates /\ s # Lifecycle /\ s \in Slots
      /\ state \in [Slots -> States] /\ RingEmpty
  <2>1. Waiting = {}
    BY DEF NormalWorkPending, Waiting, PendingStates
  <2>2. QED
    BY <2>1, Distinct, FrontWaits DEF NormalWorkPending, MailboxInv, MailboxTypeOK
<1> SUFFICES \A s \in Normal : state'[s] \notin PendingStates
  BY DEF NormalWorkPending
<1>1. ASSUME NEW x, state' = [state EXCEPT ![Lifecycle] = x] PROVE \A s \in Normal : state'[s] \notin PendingStates
  BY <1>0, <1>1
<1>2. CASE MailboxNext
  <2>1. ASSUME NEW op \in NormalOps \cup LifecycleOps, NEW n \in 0 .. MaxBlocks, Submit(op, n)
        PROVE \A s \in Normal : state'[s] \notin PendingStates
    <3>1. op \in LifecycleOps
      BY <2>1, OpsAssumption DEF Submit, Admitted
    <3>2. state' = [state EXCEPT ![Lifecycle] = "Ready"]
      BY <2>1, <3>1 DEF Submit, FreeSlots, SlotsFor
    <3>3. QED
      BY <1>1, <3>2
  <2>2. CASE Publish \/ AllowRecovery \/ \E value \in BOOLEAN : SetAccepting(value)
    BY <1>0, <2>2 DEF Publish, AllowRecovery, SetAccepting, slotVars
  <2>3. ASSUME NEW s \in Slots, CancelSend(s) PROVE FALSE
    BY <1>0, <2>3 DEF CancelSend, CanCancel, PendingStates, RunningStates
  <2>4. ASSUME NEW s \in Slots, Release(s) PROVE \A u \in Normal : state'[u] \notin PendingStates
    BY <1>0, <2>4 DEF Release, PendingStates, RunningStates
  <2>5. CASE TakeNormal
    BY <1>0, <2>5 DEF TakeNormal
  <2>6. CASE TakeLast \/ TakeLifecycle
    BY <1>1, <2>6 DEF TakeLast, TakeLifecycle
  <2>7. ASSUME NEW s \in Slots, Claim(s) \/ \E o \in Outcomes : PublishCompletion(s, o)
        PROVE \A u \in Normal : state'[u] \notin PendingStates
    <3>1. state[s] \in PendingStates /\ \E x : state' = [state EXCEPT ![s] = x]
      BY <2>7 DEF Claim, PublishCompletion, PendingStates, RunningStates
    <3>2. s = Lifecycle
      BY <1>0, <3>1 DEF Slots
    <3>3. QED
      BY <1>1, <3>1, <3>2
  <2>8. QED
    BY <1>2, <2>1, <2>2, <2>3, <2>4, <2>5, <2>6, <2>7 DEF MailboxNext, UINext, ServiceNext
<1>3. CASE \E S \in SUBSET Normal : Completes(S)
  BY <1>0, <1>3 DEF Completes, Complete, PendingStates, RunningStates
<1>4. CASE UNCHANGED state
  BY <1>0, <1>4
<1>5. QED
  BY <1>1, <1>2, <1>3, <1>4 DEF MailboxSteps, mailboxVars, slotVars

\* The operation is claimed by the step that performs it, and by no other.
LEMMA ClaimedBy ==
  ASSUME DeviceTypes, ServiceStep, claimed' # claimed
  PROVE  \E unrecoverable \in BOOLEAN : Maintain(unrecoverable) /\ Performs(Snapshot(unrecoverable))
<1>1. ~UIStep
  BY DEF UIStep, UISubmit, UIPublish, UICancel, UIRelease, uiUnchanged, barrierVars
<1>2. ~OutsideStep /\ ~EngineStep
  BY DEF OutsideStep, EngineStep, StorageAnswers, StorageStops, HelpersRetire, DeadlinePasses,
         EngineDecides, EngineTransmits, EngineRetires, engineUnchanged, barrierVars
<1>3. ~(ControlTaken \/ CommandLifecycle)
  BY DEF ControlTaken, CommandLifecycle, ExecuteLifecycle, BarrierBegin, barrierVars
<1>4. ~(ControlNone \/ NetworkDone \/ MaintainNothing \/ CommandNone \/ SendAccepted \/ WriteAccepted \/ WritesSettle \/ CommandTaken)
  BY DEF ControlNone, NetworkDone, MaintainNothing, CommandNone, SendAccepted, WriteAccepted, WritesSettle,
         CommandTaken, Retain, commandUnchanged, barrierVars
<1>5. \A ok \in BOOLEAN : ~BindOwner(ok) /\ ~Perform(ok)
  BY DEF BindOwner, Perform, BarrierComplete, barrierVars
<1>6. \A p \in Passes : ~SendObserve(p) /\ ~SendClaim(p) /\ ~SendPublish(p)
  BY DEF SendObserve, SendClaim, SendPublish, sendsUnchanged, barrierVars
<1>7. \A o : ~Answer(o)
  BY DEF Answer, commandUnchanged, barrierVars
<1>8. PICK unrecoverable \in BOOLEAN : Maintain(unrecoverable)
  BY <1>1, <1>2, <1>3, <1>4, <1>5, <1>6, <1>7
     DEF ServiceStep, OwnerStep, ExecuteQuery, SendCancelled, SendRefused, WriteRefused
<1>9. claimed' = (claimed \/ Performs(Snapshot(unrecoverable)))
  BY <1>8 DEF Maintain, BarrierStep
<1>10. claimed \in BOOLEAN
  BY DEF DeviceTypes, BarrierTypeOK
<1>11. QED
  BY Zenon, <1>8, <1>9, <1>10

LEMMA QuietStep ==
  ASSUME MailboxInv, DeviceTypes, BarrierInv, Quiet, [ServiceStep]_vars
  PROVE  Quiet'
<1>1. CASE UNCHANGED vars
  BY <1>1 DEF vars, barrierVars, engineVars, worldVars, mailboxVars, slotVars, Quiet, NormalWorkPending
<1>2. ASSUME ServiceStep, ~claimed, claimed' PROVE Quiet'
  <2>1. PICK unrecoverable \in BOOLEAN : Maintain(unrecoverable) /\ Performs(Snapshot(unrecoverable))
    BY <1>2, ClaimedBy
  <2> DEFINE v == Snapshot(unrecoverable)
  <2>2. ~NormalWorkPending /\ rows = {} /\ helpers = "quiet" /\ storage = "stopped" /\ helpersStarted /\ storageStopStarted
    BY <2>1 DEF Performs, Retired, Snapshot
  <2>3. ~ReportsFailure(v) /\ ~BeginsHelpers(v) /\ ~StopsStorage(v)
    BY <2>1, <2>2 DEF Performs, FailsWith, BeginsHelpers, StopsStorage
  <2>4. state' = state /\ rows' = rows /\ helpers' = helpers /\ storage' = storage
    BY <2>1, <2>3 DEF Maintain, engineVars
  <2>5. QED
    BY <2>2, <2>4 DEF Quiet, NormalWorkPending
<1>3. ASSUME ServiceStep, claimed PROVE Quiet'
  <2>0. ~accepting /\ phase # "Running" /\ helpersStarted /\ storageStopStarted
    BY <1>3 DEF BarrierInv, LifecycleInv, ReportInv
  <2>1. ~NormalWorkPending'
    BY <1>3, <2>0, StepsOfMailbox, NoNewWork DEF Quiet, BarrierInv
  <2>2. rows' = rows \/ rows' \subseteq rows
    <3>1. CASE UIStep \/ OutsideStep \/ EngineStep
      BY <3>1 DEF UIStep, UISubmit, UIPublish, UICancel, UIRelease, uiUnchanged, OutsideStep, EngineStep,
                  StorageAnswers, StorageStops, HelpersRetire, DeadlinePasses,
                  EngineDecides, EngineTransmits, EngineRetires, engineVars
    <3>2. ~SendAccepted
      BY <2>0 DEF SendAccepted, SendLive
    <3>3. CASE OwnerStep
      BY <3>2, <3>3 DEF OwnerStep, BindOwner, Perform, ControlTaken, CommandLifecycle, ExecuteLifecycle, ControlNone,
           SendObserve, SendClaim, SendPublish, sendsUnchanged, NetworkDone, WritesSettle, Maintain, MaintainNothing,
           CommandNone, CommandTaken, ExecuteQuery, SendCancelled, SendRefused, WriteRefused, WriteAccepted, Answer, engineVars
    <3>4. QED
      BY <1>3, <3>1, <3>3 DEF ServiceStep
  <2>3. helpers' = helpers /\ storage' = storage
    <3>0. helpers = "quiet" /\ storage = "stopped"
      BY <1>3 DEF Quiet
    <3>1. CASE UIStep \/ OutsideStep \/ EngineStep
      BY <3>0, <3>1 DEF UIStep, UISubmit, UIPublish, UICancel, UIRelease, uiUnchanged, OutsideStep, EngineStep,
                  StorageAnswers, StorageStops, HelpersRetire, DeadlinePasses,
                  EngineDecides, EngineTransmits, EngineRetires, engineUnchanged, worldVars
    <3>2. ASSUME NEW unrecoverable \in BOOLEAN, Maintain(unrecoverable) PROVE helpers' = helpers /\ storage' = storage
      BY <2>0, <3>2 DEF Maintain, BeginsHelpers, StopsStorage
    <3>3. CASE OwnerStep
      BY <3>2, <3>3 DEF OwnerStep, BindOwner, Perform, ControlTaken, CommandLifecycle, ExecuteLifecycle, ControlNone,
           SendObserve, SendClaim, SendPublish, sendsUnchanged, NetworkDone, WritesSettle, MaintainNothing,
           CommandNone, CommandTaken, commandUnchanged, ExecuteQuery, SendCancelled, SendRefused, SendAccepted,
           WriteRefused, WriteAccepted, Answer, Retain, worldVars
    <3>4. QED
      BY <1>3, <3>1, <3>3 DEF ServiceStep
  <2>4. QED
    BY <1>3, <2>1, <2>2, <2>3 DEF Quiet
<1>4. QED
  BY <1>1, <1>2, <1>3 DEF Quiet

-----------------------------------------------------------------------------
CoreInv == MailboxInv /\ DeviceTypes /\ BarrierInv /\ Quiet

LEMMA CoreInit == ServiceInit => CoreInv
<1> SUFFICES ASSUME ServiceInit PROVE CoreInv
  OBVIOUS
<1>1. MailboxInv
  BY InvInit DEF ServiceInit
<1>2. DeviceTypes
  <2>1. 0 \in Normal
    BY Sizes DEF Normal
  <2>2. phase \in Phases /\ helpersStarted \in BOOLEAN /\ storageStopStarted \in BOOLEAN /\ claimed \in BOOLEAN
    BY Zenon DEF ServiceInit, BarrierInit, Phases
  <2>3. bound \in BOOLEAN /\ late \in BOOLEAN /\ rebooted \in BOOLEAN /\ load \in Loads
    BY Zenon DEF ServiceInit
  <2>4. QED
    BY <2>1, <2>2, <2>3 DEF ServiceInit, DeviceTypes, BarrierTypeOK, PcValues
<1>3. BarrierInv /\ Quiet
  BY Distinct DEF ServiceInit, MailboxInit, BarrierInit, BarrierInv, LifecycleInv, ReportInv, Quiet
<1>4. QED
  BY <1>1, <1>2, <1>3 DEF CoreInv

LEMMA CoreStep == CoreInv /\ [ServiceStep]_vars => CoreInv'
<1> SUFFICES ASSUME CoreInv, [ServiceStep]_vars PROVE CoreInv'
  OBVIOUS
<1>1. MailboxInv'
  <2>1. CASE ServiceStep
    BY <2>1, StepsOfMailbox, MailboxStep DEF CoreInv, BarrierInv
  <2>2. CASE UNCHANGED vars
    BY <2>2, InvNext DEF vars, CoreInv
  <2>3. QED
    BY <2>1, <2>2
<1>2. DeviceTypes' /\ BarrierInv' /\ Quiet'
  BY DeviceTypesStep, BarrierInvStep, QuietStep DEF CoreInv
<1>3. QED
  BY <1>1, <1>2 DEF CoreInv

LEMMA CoreHolds == ServiceSpec => []CoreInv
  BY CoreInit, CoreStep, PTL DEF ServiceSpec

\* A restart, wipe or reset is carried out when no ordinary request waits or
\* runs, none can come, the engine holds no message, the helpers are quiet and
\* the storage worker has exited; and so it stays (DeviceService.cpp,
\* pollMaintenance; MaintenanceBarrier.h).
THEOREM Teardown == ServiceSpec => []QuietTeardown
<1>1. CoreInv => QuietTeardown
  BY QuietMeans DEF CoreInv
<1>2. QED
  BY <1>1, CoreHolds, PTL

\* An operation whose failure was reported is never carried out, even if
\* everything settles later (DeviceService.cpp, pollMaintenance).
THEOREM FailureIsFinal == ServiceSpec => FailedNeverPerforms
<1>1. CoreInv /\ [ServiceStep]_vars => [serviceState = "Failed" /\ ~claimed => ~claimed']_vars
  <2> SUFFICES ASSUME CoreInv, ServiceStep, serviceState = "Failed", ~claimed, claimed' PROVE FALSE
    BY DEF vars, barrierVars
  <2>1. PICK unrecoverable \in BOOLEAN : Maintain(unrecoverable) /\ Performs(Snapshot(unrecoverable))
    BY ClaimedBy DEF CoreInv
  <2>2. phase \in {"Running", "Failed"}
    BY DEF CoreInv, BarrierInv, ReportInv
  <2>3. QED
    BY <2>1, <2>2 DEF Maintain, Stepping, Performs, FailsWith
<1>2. QED
  BY <1>1, CoreHolds, PTL DEF ServiceSpec, FailedNeverPerforms

-----------------------------------------------------------------------------
(* Who completes a slot that runs.                                         *)

TicketTypes ==
  /\ ticket \in [Normal -> TicketStates] /\ told \in [Normal -> BOOLEAN]
  /\ stored \in [Normal -> TicketStates]
  /\ rows \subseteq 1 .. MaxId /\ suppressed \subseteq 1 .. MaxId /\ sent \subseteq 1 .. MaxId
  /\ cancelled \subseteq 1 .. MaxId /\ answered \subseteq 1 .. MaxId

\* A slot in use carries an identifier.
UsedIds == \A s \in Slots : state[s] # "Free" => request[s].id \in 1 .. MaxId

AtSlot == {"execute", "publish1", "publish2"}
AtClaim == {"claim1", "claim2"}
Executes(s) == pc = "execute" /\ cur = s
Publishes(s) == pc \in {"publish1", "publish2"} /\ cur = s
Sends(s) == ticket[s] # "none"
Writes(s) == stored[s] # "none"

Owned(s) ==
  /\ state[s] \in RunningStates => Executes(s) \/ Publishes(s) \/ Sends(s) \/ Writes(s)
  /\ Executes(s) \/ Sends(s) \/ Writes(s) => state[s] \in {"Running", "CancelRunning"}
  /\ Publishes(s) => state[s] = "Completing"
  /\ ~(Executes(s) /\ Sends(s)) /\ ~(Executes(s) /\ Writes(s)) /\ ~(Sends(s) /\ Writes(s))
  /\ Sends(s) => Id(s) \in rows

OwnInv == (\A s \in Normal : Owned(s)) /\ (pc \in AtClaim => Sends(cur))

AllInv == CoreInv /\ TicketTypes /\ UsedIds /\ OwnInv

LEMMA OwnedMeans == AllInv => RunningIsOwned
<1> SUFFICES ASSUME AllInv PROVE RunningIsOwned
  OBVIOUS
<1>1. ServiceTypeOK
  BY DEF AllInv, CoreInv, MailboxInv, DeviceTypes, TicketTypes, ServiceTypeOK
<1>2. ASSUME NEW s \in Normal
      PROVE  LET here == pc \in {"execute", "publish1", "publish2"} /\ cur = s
                 sends == ticket[s] # "none"
                 writes == stored[s] # "none"
             IN /\ state[s] \in RunningStates <=> here \/ sends \/ writes
                /\ ~(here /\ sends) /\ ~(here /\ writes) /\ ~(sends /\ writes)
                /\ sends => Id(s) \in rows
  <2>1. Owned(s)
    BY DEF AllInv, OwnInv
  <2>2. QED
    BY <2>1 DEF Owned, Executes, Publishes, Sends, Writes, RunningStates
<1>3. QED
  BY <1>1, <1>2 DEF RunningIsOwned

\* Identifiers never leave a slot that is in use.
LEMMA UsedIdsStep == MailboxInv /\ UsedIds /\ MailboxSteps => UsedIds'
<1> SUFFICES ASSUME MailboxInv, UsedIds, MailboxSteps PROVE UsedIds'
  OBVIOUS
<1>0. /\ state \in [Slots -> States] /\ Lifecycle \in Slots /\ nextId \in Nat
      /\ request \in [Slots -> {NoRequest} \cup
           [id : 1 .. MaxId, op : NormalOps \cup LifecycleOps, blocks : SUBSET Blocks]]
  BY Distinct, Sizes DEF MailboxInv, MailboxTypeOK
<1>1. ASSUME request' = request, \A s \in Slots : state'[s] # "Free" => state[s] # "Free" PROVE UsedIds'
  BY <1>1 DEF UsedIds
<1>2. ASSUME NEW s \in Slots, state[s] # "Free", NEW x, state' = [state EXCEPT ![s] = x], request' = request PROVE UsedIds'
  BY <1>0, <1>2 DEF UsedIds
<1>3. CASE MailboxNext
  <2>1. ASSUME NEW op \in NormalOps \cup LifecycleOps, NEW n \in 0 .. MaxBlocks, Submit(op, n) PROVE UsedIds'
    <3>1. PICK s \in Slots :
            /\ state' = [state EXCEPT ![s] = "Ready"]
            /\ request' = [request EXCEPT ![s] = [id |-> nextId + 1, op |-> op, blocks |-> LowestFreeBlocks(n)]]
      BY <2>1, SubmitTakes
    <3>2. nextId + 1 \in 1 .. MaxId
      BY <1>0, <2>1, Sizes DEF Submit
    <3>3. request'[s].id = nextId + 1 /\ \A t \in Slots : t # s => request'[t] = request[t] /\ state'[t] = state[t]
      BY <1>0, <3>1
    <3>4. QED
      BY <3>2, <3>3 DEF UsedIds
  <2>2. CASE Publish \/ AllowRecovery \/ \E value \in BOOLEAN : SetAccepting(value)
    BY <1>1, <2>2 DEF Publish, AllowRecovery, SetAccepting, slotVars
  <2>3. ASSUME NEW s \in Slots, CancelSend(s) \/ Release(s) PROVE UsedIds'
    BY <1>2, <2>3 DEF CancelSend, CanCancel, Release, NextResult
  <2>4. CASE TakeNormal
    <3>1. RingFront \in Slots /\ state[RingFront] # "Free"
      BY <2>4, FrontWaits, Distinct DEF TakeNormal, MailboxInv, Waiting
    <3>2. QED
      BY <1>2, <2>4, <3>1 DEF TakeNormal
  <2>5. CASE TakeLast \/ TakeLifecycle
    BY <1>0, <1>2, <2>5 DEF TakeLast, TakeLifecycle
  <2>6. ASSUME NEW s \in Slots, Claim(s) \/ \E o \in Outcomes : PublishCompletion(s, o) PROVE UsedIds'
    BY <1>2, <2>6 DEF Claim, PublishCompletion
  <2>7. QED
    BY <1>3, <2>1, <2>2, <2>3, <2>4, <2>5, <2>6 DEF MailboxNext, UINext, ServiceNext
<1>4. CASE \E S \in SUBSET Normal : Completes(S)
  BY <1>1, <1>4 DEF Completes, Complete
<1>5. CASE UNCHANGED mailboxVars
  BY <1>1, <1>5 DEF mailboxVars, slotVars
<1>6. CASE UNCHANGED <<slotVars, ringVars, uiVars>>
  BY <1>1, <1>6 DEF slotVars
<1>7. CASE state[Lifecycle] # "Free" /\ request' = request /\ \E x \in {"Running", "Done"} : state' \in {state, [state EXCEPT ![Lifecycle] = x]}
  BY <1>0, <1>1, <1>2, <1>7
<1>8. QED
  BY <1>3, <1>4, <1>5, <1>6, <1>7 DEF MailboxSteps

\* A slot in use names a message or request.
LEMMA UsedId == ASSUME UsedIds, NEW s \in Slots, state[s] # "Free" PROVE Id(s) \in 1 .. MaxId
  BY DEF UsedIds, Id

LEMMA TicketTypesStep ==
  ASSUME AllInv, [ServiceStep]_vars
  PROVE  TicketTypes'
<1> USE DEF ticketVars, engineVars, historyVars, TicketTypes, TicketStates
<1>0. /\ TicketTypes /\ cur \in Normal /\ \A s \in Normal : s \in Slots /\ (ticket[s] # "none" => Id(s) \in rows)
      /\ UsedIds /\ OwnInv
  BY Distinct DEF AllInv, CoreInv, DeviceTypes, OwnInv, Owned, Sends
<1>1. CASE UNCHANGED <<ticketVars, engineVars, historyVars>>
  BY <1>0, <1>1
<1>2. CASE UIStep
  <2>1. UNCHANGED <<ticketVars, engineVars>>
    BY <1>2 DEF UIStep, UISubmit, UIPublish, UICancel, UIRelease, uiUnchanged
  <2>2. ASSUME NEW s \in Normal, UICancel(s) PROVE TicketTypes'
    <3>1. state[s] # "Free" /\ cancelled' = cancelled \cup {Id(s)} /\ answered' = answered
      BY <2>2 DEF UICancel, CancelSend, CanCancel
    <3>2. QED
      BY <1>0, <2>1, <3>1, UsedId
  <2>3. ASSUME NEW s \in Slots, UIRelease(s) PROVE TicketTypes'
    <3>1. state[s] # "Free" /\ answered' = answered \cup {Id(s)} /\ cancelled' = cancelled
      BY <2>3 DEF UIRelease, Release, NextResult
    <3>2. QED
      BY <1>0, <2>1, <3>1, UsedId
  <2>4. QED
    BY <1>1, <1>2, <2>1, <2>2, <2>3 DEF UIStep, UISubmit, UIPublish
<1>3. CASE OutsideStep \/ EngineStep
  BY <1>0, <1>3 DEF OutsideStep, EngineStep, StorageAnswers, StorageStops, HelpersRetire, DeadlinePasses,
                    EngineDecides, EngineTransmits, EngineRetires, engineUnchanged
<1>4. CASE OwnerStep
  <2>1. ASSUME NEW p \in Passes, SendObserve(p) PROVE TicketTypes'
    <3>1. UNCHANGED <<ticket, stored, rows, sent, cancelled, answered>>
      BY <2>1 DEF SendObserve, sendsUnchanged
    <3>2. CASE ticket[cur] = "none"
      BY <1>0, <2>1, <3>1, <3>2 DEF SendObserve
    <3>3. CASE ticket[cur] # "none"
      <4>1. told' = [told EXCEPT ![cur] = Heard(cur)] /\ suppressed' \subseteq suppressed \cup {Id(cur)}
        BY <2>1, <3>3 DEF SendObserve
      <4>2. Heard(cur) \in BOOLEAN
        BY <1>0 DEF Heard, CancellationRequested
      <4>3. QED
        BY <1>0, <3>1, <3>3, <4>1, <4>2
    <3>4. QED
      BY <3>2, <3>3
  <2>2. ASSUME NEW p \in Passes, SendClaim(p) PROVE TicketTypes'
    <3>1. /\ ticket' = [ticket EXCEPT ![cur] = "none"] /\ told' = [told EXCEPT ![cur] = FALSE]
          /\ suppressed' \subseteq suppressed \cup {Id(cur)}
          /\ UNCHANGED <<stored, rows, sent, cancelled, answered>> /\ state[cur] # "Free"
      BY <2>2 DEF SendClaim, Claim, sendsUnchanged
    <3>2. Id(cur) \in 1 .. MaxId
      BY <1>0, <3>1, UsedId
    <3>3. QED
      BY <1>0, <3>1, <3>2
  <2>3. CASE WritesSettle
    BY <1>0, <2>3 DEF WritesSettle
  <2>4. CASE SendAccepted
    <3>1. state[cur] # "Free"
      <4>1. Executes(cur)
        BY <2>4 DEF SendAccepted, Retain, At, Executes
      <4>2. QED
        BY <1>0, <4>1 DEF OwnInv, Owned
    <3>2. Id(cur) \in 1 .. MaxId
      BY <1>0, <3>1, UsedId
    <3>3. QED
      BY <1>0, <2>4, <3>2 DEF SendAccepted, Retain, commandUnchanged
  <2>5. CASE WriteAccepted
    BY <1>0, <2>5 DEF WriteAccepted, Retain, commandUnchanged
  <2>6. CASE \/ \E ok \in BOOLEAN : BindOwner(ok) \/ Perform(ok)
             \/ ControlTaken \/ ControlNone \/ NetworkDone \/ MaintainNothing
             \/ \E p \in Passes : SendPublish(p)
             \/ \E unrecoverable \in BOOLEAN : Maintain(unrecoverable)
             \/ CommandNone \/ CommandTaken \/ CommandLifecycle \/ \E o : Answer(o)
    <3>1. UNCHANGED <<ticketVars, engineVars, historyVars>>
      BY <2>6 DEF BindOwner, Perform, ControlTaken, ControlNone, NetworkDone, MaintainNothing, SendPublish, sendsUnchanged,
                  Maintain, CommandNone, CommandTaken, CommandLifecycle, ExecuteLifecycle, Answer, commandUnchanged
    <3>2. QED
      BY <1>1, <3>1
  <2>7. QED
    BY <1>4, <2>1, <2>2, <2>3, <2>4, <2>5, <2>6
       DEF OwnerStep, ExecuteQuery, SendCancelled, SendRefused, WriteRefused
<1>5. CASE UNCHANGED vars
  BY <1>1, <1>5 DEF vars
<1>6. QED
  BY <1>2, <1>3, <1>4, <1>5 DEF ServiceStep

\* A step that is at no slot, before and after, and that keeps the tickets and
\* the running slots, keeps the owners.
LEMMA OwnFrame ==
  ASSUME OwnInv, pc \notin AtSlot, pc' \notin AtSlot, (pc' \in AtClaim => pc \in AtClaim /\ cur' = cur),
         UNCHANGED <<ticket, stored, rows>>,
         \A s \in Normal : /\ state'[s] = state[s] \/ (state[s] \notin RunningStates /\ state'[s] \notin RunningStates)
                           /\ state[s] \in RunningStates => request'[s] = request[s]
  PROVE  OwnInv'
<1>1. ASSUME NEW s \in Normal PROVE Owned(s)'
  <2>1. Owned(s)
    BY DEF OwnInv
  <2>2. ~Executes(s) /\ ~Publishes(s) /\ ~Executes(s)' /\ ~Publishes(s)'
    BY DEF Executes, Publishes, AtSlot
  <2>3. (Sends(s)' <=> Sends(s)) /\ (Writes(s)' <=> Writes(s))
    BY DEF Sends, Writes
  <2>4. Sends(s) \/ Writes(s) => state'[s] = state[s] /\ Id(s)' = Id(s)
    BY <2>1 DEF Owned, Id, RunningStates
  <2>5. QED
    BY <2>1, <2>2, <2>3, <2>4 DEF Owned
<1>2. pc' \in AtClaim => Sends(cur)'
  BY DEF OwnInv, Sends
<1>3. QED
  BY <1>1, <1>2 DEF OwnInv

LEMMA OwnStep ==
  ASSUME AllInv, [ServiceStep]_vars
  PROVE  OwnInv'
<1>0. /\ OwnInv /\ cur \in Normal /\ \A s \in Normal : Owned(s) /\ s \in Slots /\ s # Lifecycle
      /\ state \in [Slots -> States] /\ TicketTypes /\ Lifecycle \in Slots
  BY Distinct DEF AllInv, CoreInv, DeviceTypes, MailboxInv, MailboxTypeOK, OwnInv
<1> USE DEF AtSlot, AtClaim
\* While the service is anywhere, the UI and the world do not touch a running slot.
<1>1. ASSUME UNCHANGED <<pc, cur, ticket, stored, rows>>,
             \A s \in Normal :
               /\ \/ state'[s] = state[s]
                  \/ state[s] \notin RunningStates /\ state'[s] \notin RunningStates
                  \/ state[s] = "Running" /\ state'[s] = "CancelRunning"
               /\ state[s] \in RunningStates => request'[s] = request[s]
      PROVE OwnInv'
  <2>1. ASSUME NEW s \in Normal PROVE Owned(s)'
    <3>1. Owned(s) /\ (Executes(s)' <=> Executes(s)) /\ (Publishes(s)' <=> Publishes(s))
          /\ (Sends(s)' <=> Sends(s)) /\ (Writes(s)' <=> Writes(s))
      BY <1>0, <1>1 DEF Executes, Publishes, Sends, Writes
    <3>2. Sends(s) => Id(s)' = Id(s)
      BY <1>1, <3>1 DEF Owned, Id, RunningStates
    <3>3. QED
      BY <1>1, <3>1, <3>2 DEF Owned, RunningStates
  <2>2. QED
    BY <1>0, <1>1, <2>1 DEF OwnInv, Sends
<1>2. CASE UIStep
  <2>0. UNCHANGED <<pc, cur, ticket, stored, rows>>
    BY <1>2 DEF UIStep, UISubmit, UIPublish, UICancel, UIRelease, uiUnchanged, ticketVars, engineVars
  <2>1. ASSUME NEW op \in NormalOps \cup LifecycleOps, UISubmit(op) PROVE OwnInv'
    <3>1. PICK s \in Slots : /\ state[s] = "Free" /\ state' = [state EXCEPT ![s] = "Ready"]
                             /\ \E r : request' = [request EXCEPT ![s] = r]
      BY <2>1, SubmitTakes DEF UISubmit
    <3>2. \A t \in Normal : t # s => state'[t] = state[t] /\ request'[t] = request[t]
      BY <1>0, <3>1 DEF AllInv, CoreInv, MailboxInv, MailboxTypeOK
    <3>3. state'[s] = "Ready"
      BY <1>0, <3>1
    <3>4. QED
      BY <1>1, <2>0, <3>1, <3>2, <3>3 DEF RunningStates
  <2>2. CASE UIPublish
    BY <1>1, <2>0, <2>2 DEF UIPublish, Publish, slotVars
  <2>3. ASSUME NEW s \in Normal, UICancel(s) PROVE OwnInv'
    <3>1. /\ state' = [state EXCEPT ![s] = CancelMark(@)] /\ request' = request
          /\ state[s] \in {"Ready", "Running", "CancelReady", "CancelRunning"}
      BY <2>3 DEF UICancel, CancelSend, CanCancel
    <3>2. state'[s] = CancelMark(state[s]) /\ \A t \in Normal : t # s => state'[t] = state[t]
      BY <1>0, <3>1
    <3>3. QED
      BY <1>1, <2>0, <3>1, <3>2 DEF CancelMark, RunningStates
  <2>4. ASSUME NEW s \in Slots, UIRelease(s) PROVE OwnInv'
    <3>1. state' = [state EXCEPT ![s] = "Free"] /\ request' = request /\ state[s] = "Done"
      BY <2>4 DEF UIRelease, Release, NextResult
    <3>2. QED
      BY <1>0, <1>1, <2>0, <3>1 DEF RunningStates
  <2>5. QED
    BY <1>2, <2>1, <2>2, <2>3, <2>4 DEF UIStep
<1>3. CASE OutsideStep \/ UNCHANGED vars
  <2>1. ASSUME NEW s \in Normal, StorageAnswers(s) PROVE OwnInv'
    <3>1. stored[s] = "pending" /\ stored' = [stored EXCEPT ![s] = "ready"]
          /\ UNCHANGED <<state, request, pc, cur, ticket, rows>>
      BY <2>1 DEF StorageAnswers, mailboxVars, slotVars, engineVars
    <3>2. \A u \in Normal : stored'[u] # "none" <=> stored[u] # "none"
      BY <1>0, <3>1 DEF TicketTypes
    <3>3. QED
      BY <1>0, <3>1, <3>2 DEF OwnInv, Owned, Executes, Publishes, Sends, Writes, Id
  <2>2. CASE StorageStops \/ HelpersRetire \/ DeadlinePasses \/ UNCHANGED vars
    BY <1>1, <2>2 DEF StorageStops, HelpersRetire, DeadlinePasses, vars, mailboxVars, slotVars, ticketVars, engineVars
  <2>3. QED
    BY <1>3, <2>1, <2>2 DEF OutsideStep
<1>4. CASE EngineStep
  <2>0. UNCHANGED <<state, request, pc, cur, stored>>
    BY <1>4 DEF EngineStep, EngineDecides, EngineTransmits, EngineRetires, engineUnchanged, mailboxVars, slotVars
  <2>1. ASSUME NEW s \in Normal, EngineDecides(s) PROVE OwnInv'
    <3>1. ticket[s] = "pending" /\ ticket' = [ticket EXCEPT ![s] = "ready"] /\ rows' = rows
      BY <2>1 DEF EngineDecides
    <3>2. \A u \in Normal : ticket'[u] # "none" <=> ticket[u] # "none"
      BY <1>0, <3>1 DEF TicketTypes
    <3>3. QED
      BY <1>0, <2>0, <3>1, <3>2 DEF OwnInv, Owned, Executes, Publishes, Sends, Writes, Id
  <2>2. ASSUME NEW m, EngineTransmits(m) PROVE OwnInv'
    BY <1>1, <2>0, <2>2 DEF EngineTransmits
  <2>3. ASSUME NEW m, EngineRetires(m) PROVE OwnInv'
    <3>1. ticket' = ticket /\ rows' = rows \ {m} /\ m \notin Unacknowledged
      BY <2>3 DEF EngineRetires
    <3>2. \A s \in Normal : ticket[s] # "none" => Id(s) # m
      BY <3>1 DEF Unacknowledged
    <3>3. QED
      BY <1>0, <2>0, <3>1, <3>2 DEF OwnInv, Owned, Executes, Publishes, Sends, Writes, Id
  <2>4. QED
    BY <1>4, <2>1, <2>2, <2>3 DEF EngineStep
<1>5. CASE OwnerStep
  \* Steps that change at most the lifecycle slot.
  <2>1. ASSUME state' = state \/ \E x : state' = [state EXCEPT ![Lifecycle] = x],
               UNCHANGED <<request, ticket, stored, rows>>, pc \notin AtSlot \cup AtClaim, pc' \notin AtSlot \cup AtClaim
        PROVE OwnInv'
    <3>1. \A s \in Normal : state'[s] = state[s]
      BY <1>0, <2>1
    <3>2. QED
      BY <1>0, <2>1, <3>1, OwnFrame
  <2>2. CASE \E ok \in BOOLEAN : BindOwner(ok) \/ Perform(ok)
    BY <2>1, <2>2 DEF BindOwner, Perform, At, Goto, slotVars, ticketVars, engineVars
  <2>3. CASE ControlTaken \/ CommandLifecycle
    BY <2>1, <2>3 DEF ControlTaken, CommandLifecycle, ExecuteLifecycle, AfterControl, At, Goto, ticketVars, engineVars
  <2>4. CASE ControlNone \/ NetworkDone \/ MaintainNothing \/ CommandNone
    BY <2>1, <2>4 DEF ControlNone, NetworkDone, MaintainNothing, CommandNone, AfterControl, At, Goto,
                      mailboxVars, slotVars, ticketVars, engineVars
  <2>5. ASSUME NEW unrecoverable \in BOOLEAN, Maintain(unrecoverable) PROVE OwnInv'
    <3>1. state' = state \/ \E x : state' = [state EXCEPT ![Lifecycle] = x]
      BY <2>5 DEF Maintain
    <3>2. QED
      BY <2>1, <2>5, <3>1 DEF Maintain, At, Goto, ticketVars, engineVars
  <2>6. ASSUME NEW p \in Passes, SendObserve(p) PROVE OwnInv'
    <3>1. /\ pc \in {"sends1", "sends2"} /\ pc' \notin AtSlot /\ UNCHANGED <<state, request, ticket, stored, rows>>
          /\ pc' \in AtClaim => cur' = cur /\ ticket[cur] = "ready"
      BY <2>6 DEF Passes, SendObserve, NextSlot, At, Goto, sendsUnchanged, mailboxVars, slotVars
    <3>2. ASSUME NEW s \in Normal PROVE Owned(s)'
      BY <1>0, <3>1 DEF Owned, Executes, Publishes, Sends, Writes, Id
    <3>3. QED
      BY <3>1, <3>2 DEF OwnInv, Sends
  <2>7. ASSUME NEW p \in Passes, SendClaim(p) PROVE OwnInv'
    <3>1. /\ pc \in AtClaim /\ pc' \in {"publish1", "publish2"} /\ cur' = cur
          /\ state' = [state EXCEPT ![cur] = "Completing"] /\ ticket' = [ticket EXCEPT ![cur] = "none"]
          /\ UNCHANGED <<request, stored, rows>>
      BY <2>7 DEF Passes, SendClaim, Claim, At, Goto, sendsUnchanged
    <3>2. /\ state'[cur] = "Completing" /\ ticket'[cur] = "none" /\ stored[cur] = "none"
          /\ \A s \in Normal : s # cur => state'[s] = state[s] /\ ticket'[s] = ticket[s]
      BY <1>0, <3>1 DEF OwnInv, Owned, Sends, Writes, TicketTypes
    <3>3. ASSUME NEW s \in Normal PROVE Owned(s)'
      BY <1>0, <3>1, <3>2 DEF Owned, Executes, Publishes, Sends, Writes, Id, RunningStates
    <3>4. QED
      BY <3>1, <3>3 DEF OwnInv
  <2>8. ASSUME NEW p \in Passes, SendPublish(p) PROVE OwnInv'
    <3>1. /\ pc \in {"publish1", "publish2"} /\ pc' \notin AtSlot \cup AtClaim
          /\ state' = [state EXCEPT ![cur] = "Done"]
          /\ UNCHANGED <<request, ticket, stored, rows>>
      BY <2>8 DEF Passes, SendPublish, PublishCompletion, At, NextSlot, Goto, sendsUnchanged
    <3>2. /\ state'[cur] = "Done" /\ ticket[cur] = "none" /\ stored[cur] = "none"
          /\ \A s \in Normal : s # cur => state'[s] = state[s]
      BY <1>0, <3>1 DEF Owned, Publishes, Sends, Writes
    <3>3. ASSUME NEW s \in Normal PROVE Owned(s)'
      BY <1>0, <3>1, <3>2 DEF Owned, Executes, Publishes, Sends, Writes, Id, RunningStates
    <3>4. QED
      BY <3>1, <3>3 DEF OwnInv
  <2>9. CASE WritesSettle
    <3>1. /\ pc \notin AtSlot /\ pc' \notin AtSlot \cup AtClaim /\ UNCHANGED <<request, ticket, rows>>
          /\ \A s \in Normal : stored'[s] = IF stored[s] = "ready" THEN "none" ELSE stored[s]
          /\ \A s \in Normal : state'[s] = IF stored[s] = "ready" THEN "Done" ELSE state[s]
      BY <1>0, <2>9 DEF WritesSettle, Settled, Complete, At, Goto, engineVars
    <3>2. ASSUME NEW s \in Normal PROVE Owned(s)'
      BY <1>0, <3>1 DEF Owned, Executes, Publishes, Sends, Writes, Id, RunningStates
    <3>3. QED
      BY <3>1, <3>2 DEF OwnInv
  <2>10. CASE CommandTaken
    <3>1. RingFront \in Normal /\ state[RingFront] \in {"Ready", "CancelReady"}
      BY <2>10, FrontWaits DEF CommandTaken, TakeNormal, AllInv, CoreInv, MailboxInv, Waiting
    <3>2. /\ pc \notin AtSlot \cup AtClaim /\ pc' = "execute" /\ cur' = RingFront
          /\ state' = [state EXCEPT ![RingFront] = StartedAs(@)] /\ UNCHANGED <<request, ticket, stored, rows>>
      BY <2>10 DEF CommandTaken, TakeNormal, At, Goto, ticketVars, engineVars
    <3>3. /\ state'[cur'] \in {"Running", "CancelRunning"} /\ ticket[cur'] = "none" /\ stored[cur'] = "none"
          /\ \A s \in Normal : s # cur' => state'[s] = state[s]
      BY <1>0, <3>1, <3>2 DEF Owned, Sends, Writes, StartedAs
    <3>4. ASSUME NEW s \in Normal PROVE Owned(s)'
      BY <1>0, <3>2, <3>3 DEF Owned, Executes, Publishes, Sends, Writes, Id, RunningStates
    <3>5. QED
      BY <3>2, <3>4 DEF OwnInv
  <2>11. ASSUME NEW o, Answer(o) PROVE OwnInv'
    <3>1. /\ pc = "execute" /\ pc' = "control" /\ UNCHANGED <<cur, request, ticket, stored, rows>>
          /\ \A s \in Normal : state'[s] = IF s = cur THEN "Done" ELSE state[s]
      BY <1>0, <2>11 DEF Answer, AnsweredSlots, Complete, At, Goto, ticketVars, engineVars
    <3>2. ASSUME NEW s \in Normal PROVE Owned(s)'
      BY <1>0, <3>1 DEF Owned, Executes, Publishes, Sends, Writes, Id, RunningStates
    <3>3. QED
      BY <3>1, <3>2 DEF OwnInv
  <2>12. ASSUME SendAccepted \/ WriteAccepted PROVE OwnInv'
    <3>1. pc = "execute" /\ pc' = "control" /\ cur' = cur /\ UNCHANGED <<state, request>>
      BY <2>12 DEF SendAccepted, WriteAccepted, Retain, At, Goto, mailboxVars, slotVars
    <3>2. \A s \in Normal : s # cur => ticket'[s] = ticket[s] /\ stored'[s] = stored[s]
      BY <1>0, <2>12 DEF SendAccepted, WriteAccepted, TicketTypes
    <3>3. \/ ticket'[cur] = "pending" /\ stored' = stored /\ rows' = rows \cup {Id(cur)}
          \/ stored'[cur] = "pending" /\ ticket' = ticket /\ rows' = rows
      BY <1>0, <2>12 DEF SendAccepted, WriteAccepted, TicketTypes, engineVars
    <3>4. ASSUME NEW s \in Normal PROVE Owned(s)'
      BY <1>0, <3>1, <3>2, <3>3 DEF Owned, Executes, Publishes, Sends, Writes, Id, RunningStates
    <3>5. QED
      BY <3>1, <3>4 DEF OwnInv
  <2>13. QED
    BY <1>5, <2>2, <2>3, <2>4, <2>5, <2>6, <2>7, <2>8, <2>9, <2>10, <2>11, <2>12
       DEF OwnerStep, ExecuteQuery, SendCancelled, SendRefused, WriteRefused
<1>6. QED
  BY <1>2, <1>3, <1>4, <1>5 DEF ServiceStep

LEMMA AllInvHolds == ServiceSpec => []AllInv
<1>1. ServiceInit => AllInv
  <2> SUFFICES ASSUME ServiceInit PROVE AllInv
    OBVIOUS
  <2>1. CoreInv
    BY CoreInit
  <2>2. TicketTypes
    BY DEF ServiceInit, TicketTypes, TicketStates
  <2>3. UsedIds
    BY DEF ServiceInit, MailboxInit, UsedIds
  <2>4. OwnInv
    BY Distinct DEF ServiceInit, MailboxInit, OwnInv, Owned, Executes, Publishes, Sends, Writes, AtClaim, RunningStates
  <2>5. QED
    BY <2>1, <2>2, <2>3, <2>4 DEF AllInv
<1>2. AllInv /\ [ServiceStep]_vars => AllInv'
  <2> SUFFICES ASSUME AllInv, [ServiceStep]_vars PROVE AllInv'
    OBVIOUS
  <2>1. UsedIds'
    <3>1. CASE ServiceStep
      BY <3>1, StepsOfMailbox, UsedIdsStep DEF AllInv, CoreInv, BarrierInv
    <3>2. CASE UNCHANGED vars
      BY <3>2 DEF vars, mailboxVars, slotVars, AllInv, UsedIds
    <3>3. QED
      BY <3>1, <3>2
  <2>2. QED
    BY <2>1, CoreStep, TicketTypesStep, OwnStep DEF AllInv
<1>3. QED
  BY <1>1, <1>2, PTL DEF ServiceSpec

\* Every variable keeps its type, and a slot that runs has exactly one party
\* that will complete it: the service at this step, the engine's ticket or the
\* storage ticket (DeviceService.cpp, execute, pollSends, pollStorageWrites).
THEOREM Ownership == ServiceSpec => []RunningIsOwned
  BY AllInvHolds, OwnedMeans, PTL

-----------------------------------------------------------------------------
(* A cancelled message.                                                    *)

\* Identifiers name one request each, before and after its result was seen.
NamesInv ==
  /\ \A s, t \in Slots : state[s] # "Free" /\ state[t] # "Free" /\ Id(s) = Id(t) => s = t
  /\ \A s \in Slots : state[s] # "Free" => Id(s) \notin answered
  /\ \A m \in answered \cup rows \cup cancelled : m <= nextId

Early(s) == state[s] \in {"Ready", "CancelReady"} \/ Executes(s)

\* A message that was cancelled, and that the engine holds, is either known to
\* the engine as cancelled, or its slot is marked and still to be claimed.
SilenceInv ==
  /\ \A s \in Normal : Writes(s) => request[s].op = "Write"
  /\ \A s \in Normal : Early(s) => Id(s) \notin rows /\ (Id(s) \in cancelled => CancellationRequested(s))
  /\ \A m \in cancelled \cap rows :
       m \in suppressed \/ \E s \in Normal : Id(s) = m /\ state[s] = "CancelRunning" /\ Sends(s)

\* Only a submission takes a slot or gives out an identifier.
LEMMA OthersTakeNoSlot ==
  ASSUME AllInv, ServiceStep, \A op \in NormalOps \cup LifecycleOps : ~UISubmit(op)
  PROVE  UNCHANGED <<request, nextId>> /\ \A s \in Slots : state'[s] # "Free" => state[s] # "Free"
<1> DEFINE Goal == UNCHANGED <<request, nextId>> /\ \A s \in Slots : state'[s] # "Free" => state[s] # "Free"
<1> USE DEF uiVars
<1>0. state \in [Slots -> States] /\ cur \in Slots /\ Lifecycle \in Slots /\ Normal \subseteq Slots
  BY Distinct DEF AllInv, CoreInv, MailboxInv, MailboxTypeOK, DeviceTypes
<1>1. ASSUME UNCHANGED <<request, nextId>>, NEW s \in Slots, state[s] # "Free", NEW x, state' = [state EXCEPT ![s] = x] PROVE Goal
  BY <1>0, <1>1
<1>2. CASE UIStep
  <2>1. CASE UIPublish
    BY <2>1 DEF UIPublish, Publish, slotVars
  <2>2. ASSUME NEW s \in Normal, UICancel(s) PROVE Goal
    BY <1>0, <1>1, <2>2 DEF UICancel, CancelSend, CanCancel
  <2>3. ASSUME NEW s \in Slots, UIRelease(s) PROVE Goal
    BY <1>1, <2>3 DEF UIRelease, Release, NextResult
  <2>4. QED
    BY <1>2, <2>1, <2>2, <2>3 DEF UIStep
<1>3. CASE UNCHANGED mailboxVars
  BY <1>3 DEF mailboxVars, slotVars
<1>4. CASE OutsideStep \/ EngineStep
  BY <1>3, <1>4 DEF OutsideStep, EngineStep, StorageAnswers, StorageStops, HelpersRetire, DeadlinePasses,
                    EngineDecides, EngineTransmits, EngineRetires, engineUnchanged
<1>5. CASE OwnerStep
  <2>1. CASE ControlNone \/ NetworkDone \/ MaintainNothing \/ CommandNone \/ SendAccepted \/ WriteAccepted \/ \E p \in Passes : SendObserve(p)
    BY <1>3, <2>1 DEF ControlNone, NetworkDone, MaintainNothing, CommandNone, SendAccepted, WriteAccepted, Retain, SendObserve
  <2>2. CASE \E ok \in BOOLEAN : BindOwner(ok)
    BY <2>2 DEF BindOwner, slotVars
  <2>3. CASE \E ok \in BOOLEAN : Perform(ok)
    BY <1>0, <1>1, <2>3 DEF Perform, At, AllInv, CoreInv, BarrierInv, LifecycleInv
  <2>4. CASE ControlTaken \/ CommandLifecycle
    BY <1>0, <1>1, <2>4 DEF ControlTaken, ControlReady, CommandLifecycle, ExecuteLifecycle
  <2>5. ASSUME NEW p \in Passes, SendClaim(p) \/ SendPublish(p) PROVE Goal
    BY <1>0, <1>1, <2>5 DEF SendClaim, SendPublish, Claim, PublishCompletion
  <2>6. ASSUME NEW S \in SUBSET Normal, NEW answer, Complete(S, answer) PROVE Goal
    BY <2>6 DEF Complete
  <2>7. CASE WritesSettle
    BY <2>6, <2>7 DEF WritesSettle, Settled
  <2>8. ASSUME NEW o, Answer(o) PROVE Goal
    <3>1. {cur} \in SUBSET Normal
      BY DEF AllInv, CoreInv, DeviceTypes
    <3>2. QED
      BY <2>6, <2>8, <3>1 DEF Answer, AnsweredSlots
  <2>9. CASE CommandTaken
    <3>1. RingFront \in Slots /\ state[RingFront] # "Free"
      BY <1>0, <2>9, FrontWaits DEF CommandTaken, TakeNormal, AllInv, CoreInv, MailboxInv, Waiting
    <3>2. QED
      BY <1>1, <2>9, <3>1 DEF CommandTaken, TakeNormal
  <2>10. ASSUME NEW unrecoverable \in BOOLEAN, Maintain(unrecoverable) PROVE Goal
    <3> DEFINE answers == ReportsFailure(Snapshot(unrecoverable)) /\ lifecycleSlot # NoSlot
    <3>1. UNCHANGED <<request, nextId>> /\ state' = IF answers THEN [state EXCEPT ![Lifecycle] = "Done"] ELSE state
      BY <2>10 DEF Maintain
    <3>2. answers => state[Lifecycle] # "Free"
      BY DEF AllInv, CoreInv, DeviceTypes, BarrierInv, LifecycleInv
    <3> HIDE DEF answers
    <3>3. QED
      BY <1>0, <1>1, <3>1, <3>2
  <2>11. QED
    BY <1>5, <2>1, <2>2, <2>3, <2>4, <2>5, <2>7, <2>8, <2>9, <2>10
       DEF OwnerStep, ExecuteQuery, SendCancelled, SendRefused, WriteRefused
<1>6. QED
  BY <1>2, <1>4, <1>5 DEF ServiceStep

\* What each history and the engine's rows may gain.
LEMMA Gains ==
  ASSUME ServiceStep
  PROVE  /\ answered' = answered \/ \E s \in Slots : UIRelease(s)
         /\ cancelled' = cancelled \/ \E s \in Normal : UICancel(s)
         /\ rows' \subseteq rows \/ SendAccepted
         /\ sent' = sent \/ \E m \in 1 .. MaxId : EngineTransmits(m)
         /\ suppressed \subseteq suppressed'
<1> USE DEF engineVars, historyVars
<1>1. CASE UIStep
  BY <1>1 DEF UIStep, UISubmit, UIPublish, UICancel, UIRelease, uiUnchanged
<1>2. CASE OutsideStep \/ EngineStep
  BY <1>2 DEF OutsideStep, EngineStep, StorageAnswers, StorageStops, HelpersRetire, DeadlinePasses,
              EngineDecides, EngineTransmits, EngineRetires, engineUnchanged
<1>3. CASE OwnerStep
  <2>1. CASE \E p \in Passes : SendObserve(p) \/ SendClaim(p) \/ SendPublish(p)
    BY <2>1 DEF SendObserve, SendClaim, SendPublish, sendsUnchanged
  <2>2. CASE \/ \E ok \in BOOLEAN : BindOwner(ok) \/ Perform(ok)
             \/ ControlTaken \/ ControlNone \/ NetworkDone \/ WritesSettle \/ MaintainNothing
             \/ \E unrecoverable \in BOOLEAN : Maintain(unrecoverable)
             \/ CommandNone \/ CommandTaken \/ CommandLifecycle \/ WriteAccepted \/ \E o : Answer(o)
    BY <2>2 DEF BindOwner, Perform, ControlTaken, ControlNone, NetworkDone, WritesSettle, MaintainNothing, Maintain,
                CommandNone, CommandTaken, CommandLifecycle, ExecuteLifecycle, WriteAccepted, Retain, Answer, commandUnchanged
  <2>3. CASE SendAccepted
    BY <2>3 DEF SendAccepted, Retain, commandUnchanged
  <2>4. QED
    BY <1>3, <2>1, <2>2, <2>3 DEF OwnerStep, ExecuteQuery, SendCancelled, SendRefused, WriteRefused
<1>4. QED
  BY <1>1, <1>2, <1>3 DEF ServiceStep

LEMMA NamesStep == ASSUME AllInv, NamesInv, [ServiceStep]_vars PROVE NamesInv'
<1>0. /\ state \in [Slots -> States] /\ cur \in Slots /\ Normal \subseteq Slots /\ nextId \in Nat
      /\ \A s \in Slots : request[s].id <= nextId /\ request[s].id \in Nat /\ rows \subseteq Nat /\ answered \subseteq Nat /\ cancelled \subseteq Nat
  <2>1. \A s \in Slots : request[s].id \in Nat
    BY Sizes DEF AllInv, CoreInv, MailboxInv, MailboxTypeOK, NoRequest
  <2>2. QED
    BY <2>1, Distinct, Sizes DEF AllInv, CoreInv, MailboxInv, MailboxTypeOK, DeviceTypes, IdInv, TicketTypes
<1>1. CASE UNCHANGED vars
  BY <1>1 DEF vars, mailboxVars, slotVars, uiVars, engineVars, historyVars, NamesInv, Id
<1>2. ASSUME NEW op \in NormalOps \cup LifecycleOps, UISubmit(op) PROVE NamesInv'
  <2>1. PICK s \in Slots : /\ state[s] = "Free" /\ state' = [state EXCEPT ![s] = "Ready"]
                           /\ request' = [request EXCEPT ![s] = [id |-> nextId + 1, op |-> op, blocks |-> LowestFreeBlocks(0)]]
    BY <1>2, SubmitTakes DEF UISubmit
  <2>2. nextId' = nextId + 1 /\ UNCHANGED <<rows, answered, cancelled>>
    BY <1>2 DEF UISubmit, Submit, uiUnchanged, engineVars, historyVars
  <2>3. Id(s)' = nextId + 1 /\ \A t \in Slots : t # s => Id(t)' = Id(t) /\ state'[t] = state[t]
    BY <1>0, <2>1 DEF Id, AllInv, CoreInv, MailboxInv, MailboxTypeOK
  <2>4. \A t \in Slots : Id(t) <= nextId
    BY <1>0 DEF Id
  <2>5. \A m \in answered \cup rows \cup cancelled : m <= nextId /\ m # nextId + 1
    BY <1>0 DEF NamesInv
  <2>6. QED
    BY <1>0, <2>1, <2>2, <2>3, <2>4, <2>5 DEF NamesInv, Id
<1>3. ASSUME ServiceStep, \A op \in NormalOps \cup LifecycleOps : ~UISubmit(op) PROVE NamesInv'
  <2>1. /\ UNCHANGED <<request, nextId>> /\ \A s \in Slots : state'[s] # "Free" => state[s] # "Free"
        /\ \A s \in Slots : Id(s)' = Id(s)
    BY <1>3, OthersTakeNoSlot DEF Id
  <2>2. \A s \in Slots : state'[s] # "Free" => Id(s) \notin answered'
    <3>1. CASE answered' = answered
      BY <2>1, <3>1 DEF NamesInv
    <3>2. ASSUME NEW s \in Slots, UIRelease(s) PROVE \A t \in Slots : state'[t] # "Free" => Id(t) \notin answered'
      <4>1. answered' = answered \cup {Id(s)} /\ state[s] # "Free" /\ state'[s] = "Free"
        BY <1>0, <3>2 DEF UIRelease, Release, NextResult
      <4>2. QED
        BY <2>1, <4>1 DEF NamesInv
    <3>3. QED
      BY <1>3, <3>1, <3>2, Gains
  <2>3. \A m \in answered' \cup rows' \cup cancelled' : m <= nextId
    <3>1. \A s \in Slots : Id(s) <= nextId
      BY <1>0 DEF Id
    <3>2. \A m \in answered' : m <= nextId
      BY <1>3, <3>1, Gains DEF NamesInv, UIRelease
    <3>3. \A m \in cancelled' : m <= nextId
      BY <1>0, <1>3, <3>1, Gains DEF NamesInv, UICancel
    <3>4. \A m \in rows' : m <= nextId
      BY <1>0, <1>3, <3>1, Gains DEF NamesInv, SendAccepted
    <3>5. QED
      BY <3>2, <3>3, <3>4
  <2>4. QED
    BY <2>1, <2>2, <2>3 DEF NamesInv
<1>4. QED
  BY <1>1, <1>2, <1>3

\* A step that begins nothing, and tells the engine of what it ends.
LEMMA SilenceFrame ==
  ASSUME SilenceInv, UNCHANGED <<request, cancelled>>, rows' \subseteq rows, suppressed \subseteq suppressed',
         \A s \in Normal :
           /\ Writes(s)' => Writes(s)
           /\ Early(s)' => Early(s) /\ (CancellationRequested(s) => CancellationRequested(s)')
           /\ state[s] = "CancelRunning" /\ Sends(s) =>
                (state'[s] = "CancelRunning" /\ Sends(s)') \/ Id(s) \in suppressed'
  PROVE  SilenceInv'
<1>0. \A s \in Normal : Id(s)' = Id(s)
  BY DEF Id
<1>1. \A s \in Normal : Writes(s)' => request'[s].op = "Write"
  BY DEF SilenceInv
<1>2. \A s \in Normal : Early(s)' => Id(s)' \notin rows' /\ (Id(s)' \in cancelled' => CancellationRequested(s)')
  BY <1>0 DEF SilenceInv
<1>3. ASSUME NEW m \in cancelled' \cap rows'
      PROVE  m \in suppressed' \/ \E s \in Normal : Id(s)' = m /\ state'[s] = "CancelRunning" /\ Sends(s)'
  <2>1. CASE m \in suppressed
    BY <2>1
  <2>2. CASE m \notin suppressed
    <3>1. PICK s \in Normal : Id(s) = m /\ state[s] = "CancelRunning" /\ Sends(s)
      BY <2>2 DEF SilenceInv
    <3>2. QED
      BY <1>0, <3>1
  <2>3. QED
    BY <2>1, <2>2
<1>4. QED
  BY <1>1, <1>2, <1>3 DEF SilenceInv

LEMMA SilenceStep == ASSUME AllInv, NamesInv, SilenceInv, [ServiceStep]_vars PROVE SilenceInv'
<1>0. /\ state \in [Slots -> States] /\ cur \in Normal /\ Normal \subseteq Slots /\ Lifecycle \notin Normal
      /\ TicketTypes /\ \A s \in Normal : Owned(s)
  BY Distinct DEF AllInv, CoreInv, MailboxInv, MailboxTypeOK, DeviceTypes, OwnInv
\* Steps that keep the ordinary slots, and where the service is executing.
<1>1. ASSUME UNCHANGED <<request, cancelled>>, rows' \subseteq rows, suppressed \subseteq suppressed',
             \A s \in Normal : /\ state'[s] = state[s]
                               /\ (Writes(s)' <=> Writes(s)) /\ (Sends(s)' <=> Sends(s))
                               /\ Executes(s)' => Executes(s)
      PROVE SilenceInv'
  BY <1>1, SilenceFrame DEF Early, CancellationRequested
<1>2. CASE UNCHANGED vars
  BY <1>1, <1>2 DEF vars, mailboxVars, slotVars, ticketVars, engineVars, historyVars, Writes, Sends, Executes
<1>3. CASE UIStep
  <2>0. UNCHANGED <<pc, cur, ticket, stored, rows, suppressed>>
    BY <1>3 DEF UIStep, UISubmit, UIPublish, UICancel, UIRelease, uiUnchanged, ticketVars, engineVars
  <2>1. ASSUME NEW op \in NormalOps \cup LifecycleOps, UISubmit(op) PROVE SilenceInv'
    <3>1. PICK s \in Slots : /\ state[s] = "Free" /\ state' = [state EXCEPT ![s] = "Ready"]
                             /\ request' = [request EXCEPT ![s] = [id |-> nextId + 1, op |-> op, blocks |-> LowestFreeBlocks(0)]]
      BY <2>1, SubmitTakes DEF UISubmit
    <3>2. cancelled' = cancelled /\ nextId \in Nat
      BY <2>1, Sizes DEF UISubmit, historyVars, AllInv, CoreInv, MailboxInv, MailboxTypeOK
    <3>3. state'[s] = "Ready" /\ Id(s)' = nextId + 1 /\ \A t \in Slots : t # s => state'[t] = state[t] /\ request'[t] = request[t]
      BY <1>0, <3>1 DEF Id, AllInv, CoreInv, MailboxInv, MailboxTypeOK
    <3>4. nextId + 1 \notin rows \cup cancelled
      BY <3>2 DEF NamesInv
    <3>5. s \in Normal => ~Writes(s) /\ ~Sends(s) /\ ~Executes(s)
      BY <1>0, <3>1 DEF Owned
    <3>6. \A t \in Slots : t # s => Id(t)' = Id(t)
      BY <3>3 DEF Id
    <3>7. \A t \in Normal : /\ (Writes(t)' <=> Writes(t)) /\ (Sends(t)' <=> Sends(t)) /\ (Executes(t)' <=> Executes(t))
      BY <2>0 DEF Writes, Sends, Executes
    <3>8. \A t \in Normal : Writes(t)' => request'[t].op = "Write"
      BY <1>0, <3>3, <3>5, <3>7 DEF SilenceInv
    <3>9. \A t \in Normal : Early(t)' => Id(t)' \notin rows' /\ (Id(t)' \in cancelled' => CancellationRequested(t)')
      BY <1>0, <2>0, <3>2, <3>3, <3>4, <3>6, <3>7 DEF SilenceInv, Early, CancellationRequested
    <3>10. ASSUME NEW m \in cancelled' \cap rows'
           PROVE  m \in suppressed' \/ \E t \in Normal : Id(t)' = m /\ state'[t] = "CancelRunning" /\ Sends(t)'
      <4>1. m \in suppressed \/ \E t \in Normal : Id(t) = m /\ state[t] = "CancelRunning" /\ Sends(t)
        BY <2>0, <3>2 DEF SilenceInv
      <4>2. ASSUME NEW t \in Normal, Id(t) = m, state[t] = "CancelRunning", Sends(t)
            PROVE  Id(t)' = m /\ state'[t] = "CancelRunning" /\ Sends(t)'
        BY <1>0, <3>1, <3>3, <3>6, <3>7, <4>2
      <4>3. QED
        BY <2>0, <4>1, <4>2
    <3>11. QED
      BY <3>8, <3>9, <3>10 DEF SilenceInv
  <2>2. CASE UIPublish
    BY <1>1, <2>0, <2>2 DEF UIPublish, Publish, slotVars, historyVars, Writes, Sends, Executes
  <2>3. ASSUME NEW s \in Normal, UICancel(s) PROVE SilenceInv'
    <3>1. /\ state' = [state EXCEPT ![s] = CancelMark(@)] /\ request' = request /\ request[s].op = "Send"
          /\ cancelled' = cancelled \cup {Id(s)} /\ state[s] \in {"Ready", "Running", "CancelReady", "CancelRunning"}
      BY <2>3 DEF UICancel, CancelSend, CanCancel
    <3>2. /\ state'[s] = (IF state[s] \in {"Ready", "CancelReady"} THEN "CancelReady" ELSE "CancelRunning")
          /\ \A t \in Normal : t # s => state'[t] = state[t]
      BY <1>0, <3>1 DEF CancelMark
    <3>3. \A t \in Normal : /\ (Writes(t)' <=> Writes(t)) /\ (Sends(t)' <=> Sends(t)) /\ (Executes(t)' <=> Executes(t))
                            /\ Id(t)' = Id(t)
      BY <2>0, <3>1 DEF Writes, Sends, Executes, Id
    <3>4. \A t \in Normal : t # s /\ Early(t) => Id(t) # Id(s)
      <4>1. \A t \in Normal : Early(t) => state[t] # "Free"
        BY <1>0 DEF Early, Owned
      <4>2. QED
        BY <1>0, <3>1, <4>1 DEF NamesInv
    <3>5. \A t \in Normal : Early(t)' => Early(t)
      BY <3>2, <3>3 DEF Early
    <3>6. \A t \in Normal : Early(t)' => Id(t)' \notin rows' /\ (Id(t)' \in cancelled' => CancellationRequested(t)')
      BY <2>0, <3>1, <3>2, <3>3, <3>4, <3>5 DEF SilenceInv, CancellationRequested
    <3>7. Id(s) \in rows => state'[s] = "CancelRunning" /\ Sends(s)'
      <4>1. ~Writes(s) /\ (Early(s) => Id(s) \notin rows)
        BY <3>1 DEF SilenceInv
      <4>2. Id(s) \in rows => state[s] \in {"Running", "CancelRunning"} /\ ~Executes(s)
        BY <3>1, <4>1 DEF Early
      <4>3. QED
        BY <1>0, <3>2, <3>3, <4>1, <4>2 DEF Owned, Publishes, RunningStates
    <3>8. ASSUME NEW m \in cancelled' \cap rows'
          PROVE  m \in suppressed' \/ \E t \in Normal : Id(t)' = m /\ state'[t] = "CancelRunning" /\ Sends(t)'
      <4>1. CASE m = Id(s)
        BY <2>0, <3>3, <3>7, <4>1
      <4>2. CASE m \in cancelled
        <5>1. m \in suppressed \/ \E t \in Normal : Id(t) = m /\ state[t] = "CancelRunning" /\ Sends(t)
          BY <2>0, <4>2 DEF SilenceInv
        <5>2. \A t \in Normal : state[t] = "CancelRunning" => state'[t] = "CancelRunning"
          BY <3>2
        <5>3. QED
          BY <2>0, <3>3, <5>1, <5>2
      <4>3. QED
        BY <3>1, <4>1, <4>2
    <3>9. QED
      BY <3>1, <3>3, <3>6, <3>8 DEF SilenceInv
  <2>4. ASSUME NEW s \in Slots, UIRelease(s) PROVE SilenceInv'
    <3>1. state' = [state EXCEPT ![s] = "Free"] /\ request' = request /\ cancelled' = cancelled /\ state[s] = "Done"
      BY <2>4 DEF UIRelease, Release, NextResult
    <3>2. \A t \in Normal : /\ (Writes(t)' <=> Writes(t)) /\ (Sends(t)' <=> Sends(t)) /\ (Executes(t)' <=> Executes(t))
      BY <2>0 DEF Writes, Sends, Executes
    <3>3. \A t \in Normal : state'[t] = IF t = s THEN "Free" ELSE state[t]
      BY <1>0, <3>1
    <3>4. QED
      BY <1>0, <2>0, <3>1, <3>2, <3>3, SilenceFrame DEF Early, CancellationRequested, Owned
  <2>5. QED
    BY <1>3, <2>1, <2>2, <2>3, <2>4 DEF UIStep
<1>4. CASE OutsideStep
  <2>1. UNCHANGED <<state, request, pc, cur, ticket, rows, suppressed, cancelled>>
        /\ (stored' = stored \/ \E s \in Normal : stored[s] = "pending" /\ stored' = [stored EXCEPT ![s] = "ready"])
    BY <1>4 DEF OutsideStep, StorageAnswers, StorageStops, HelpersRetire, DeadlinePasses, mailboxVars, slotVars,
                ticketVars, engineVars, historyVars
  <2>2. \A s \in Normal : stored'[s] # "none" <=> stored[s] # "none"
    BY <1>0, <2>1 DEF TicketTypes
  <2>3. QED
    BY <1>1, <2>1, <2>2 DEF Writes, Sends, Executes
<1>5. CASE EngineStep
  <2>1. UNCHANGED <<state, request, pc, cur, stored, suppressed, cancelled>> /\ rows' \subseteq rows
        /\ (ticket' = ticket \/ \E s \in Normal : ticket[s] = "pending" /\ ticket' = [ticket EXCEPT ![s] = "ready"])
    BY <1>5 DEF EngineStep, EngineDecides, EngineTransmits, EngineRetires, engineUnchanged, mailboxVars, slotVars, historyVars
  <2>2. \A s \in Normal : ticket'[s] # "none" <=> ticket[s] # "none"
    BY <1>0, <2>1 DEF TicketTypes
  <2>3. QED
    BY <1>1, <2>1, <2>2 DEF Writes, Sends, Executes
<1>6. CASE OwnerStep
  <2>1. ASSUME state' = state \/ \E x : state' = [state EXCEPT ![Lifecycle] = x],
               UNCHANGED <<request, ticket, stored, rows, suppressed, cancelled>>, pc' # "execute"
        PROVE SilenceInv'
    <3>1. \A s \in Normal : state'[s] = state[s]
      BY <1>0, <2>1
    <3>2. QED
      BY <1>1, <2>1, <3>1 DEF Writes, Sends, Executes
  <2>2. CASE \E ok \in BOOLEAN : BindOwner(ok) \/ Perform(ok)
    BY <2>1, <2>2 DEF BindOwner, Perform, Goto, slotVars, ticketVars, engineVars, historyVars
  <2>3. CASE ControlTaken \/ CommandLifecycle
    BY <2>1, <2>3 DEF ControlTaken, CommandLifecycle, ExecuteLifecycle, AfterControl, Goto, ticketVars, engineVars, historyVars
  <2>4. CASE ControlNone \/ NetworkDone \/ MaintainNothing \/ CommandNone
    BY <2>1, <2>4 DEF ControlNone, NetworkDone, MaintainNothing, CommandNone, commandUnchanged, AfterControl, Goto,
                      mailboxVars, slotVars, ticketVars, engineVars, historyVars
  <2>5. ASSUME NEW unrecoverable \in BOOLEAN, Maintain(unrecoverable) PROVE SilenceInv'
    <3>1. state' = state \/ \E x : state' = [state EXCEPT ![Lifecycle] = x]
      BY <2>5 DEF Maintain
    <3>2. QED
      BY <2>1, <2>5, <3>1 DEF Maintain, Goto, ticketVars, engineVars, historyVars
  <2>6. ASSUME NEW p \in Passes, SendObserve(p) PROVE SilenceInv'
    <3>1. /\ pc' # "execute" /\ UNCHANGED <<state, request, ticket, stored, rows, cancelled>>
          /\ suppressed \subseteq suppressed'
      BY <2>6 DEF Passes, SendObserve, NextSlot, Goto, sendsUnchanged, mailboxVars, slotVars, historyVars
    <3>2. QED
      BY <1>1, <3>1 DEF Writes, Sends, Executes
  <2>7. ASSUME NEW p \in Passes, SendClaim(p) PROVE SilenceInv'
    <3>1. /\ pc' # "execute" /\ ticket' = [ticket EXCEPT ![cur] = "none"]
          /\ state' = [state EXCEPT ![cur] = "Completing"]
          /\ UNCHANGED <<request, stored, rows, cancelled>> /\ suppressed \subseteq suppressed'
          /\ state[cur] = "CancelRunning" => Id(cur) \in suppressed'
      BY <2>7 DEF Passes, SendClaim, Claim, CancelledAtClaim, Goto, sendsUnchanged, historyVars
    <3>2. /\ state'[cur] = "Completing"
          /\ \A s \in Normal : s # cur => state'[s] = state[s] /\ ticket'[s] = ticket[s]
      BY <1>0, <3>1 DEF TicketTypes
    <3>3. QED
      BY <1>0, <3>1, <3>2, SilenceFrame DEF Early, CancellationRequested, Writes, Sends, Executes
  <2>8. ASSUME NEW p \in Passes, SendPublish(p) PROVE SilenceInv'
    <3>1. /\ pc' # "execute" /\ state' = [state EXCEPT ![cur] = "Done"]
          /\ pc \in {"publish1", "publish2"} /\ UNCHANGED <<request, ticket, stored, rows, cancelled, suppressed>>
      BY <2>8 DEF Passes, SendPublish, PublishCompletion, At, NextSlot, Goto, sendsUnchanged, historyVars
    <3>2. state'[cur] = "Done" /\ state[cur] = "Completing" /\ \A s \in Normal : s # cur => state'[s] = state[s]
      BY <1>0, <3>1 DEF Owned, Publishes
    <3>3. QED
      BY <1>0, <3>1, <3>2, SilenceFrame DEF Early, CancellationRequested, Writes, Sends, Executes
  <2>9. CASE WritesSettle
    <3>1. /\ pc' # "execute" /\ UNCHANGED <<request, ticket, rows, cancelled, suppressed>>
          /\ \A s \in Normal : stored'[s] = IF stored[s] = "ready" THEN "none" ELSE stored[s]
          /\ \A s \in Normal : state'[s] = IF stored[s] = "ready" THEN "Done" ELSE state[s]
      BY <1>0, <2>9 DEF WritesSettle, Settled, Complete, Goto, engineVars, historyVars
    <3>2. \A s \in Normal : Sends(s) => stored[s] # "ready"
      BY <1>0 DEF Owned, Writes
    <3>3. QED
      BY <1>0, <3>1, <3>2, SilenceFrame DEF Early, CancellationRequested, Writes, Sends, Executes
  <2>10. CASE CommandTaken
    <3>1. RingFront \in Normal /\ state[RingFront] \in {"Ready", "CancelReady"}
      BY <2>10, FrontWaits DEF CommandTaken, TakeNormal, AllInv, CoreInv, MailboxInv, Waiting
    <3>2. /\ cur' = RingFront /\ state' = [state EXCEPT ![RingFront] = StartedAs(@)]
          /\ UNCHANGED <<request, ticket, stored, rows, cancelled, suppressed>>
      BY <2>10 DEF CommandTaken, TakeNormal, commandUnchanged, ticketVars, engineVars, historyVars
    <3>3. /\ state'[RingFront] = StartedAs(state[RingFront])
          /\ \A s \in Normal : s # RingFront => state'[s] = state[s]
      BY <1>0, <3>1, <3>2
    <3>4. \A s \in Normal : Early(s)' => Early(s) /\ (CancellationRequested(s) => CancellationRequested(s)')
      BY <3>1, <3>2, <3>3 DEF Early, Executes, CancellationRequested, StartedAs
    <3>5. QED
      BY <1>0, <3>1, <3>2, <3>3, <3>4, SilenceFrame DEF Writes, Sends
  <2>11. ASSUME NEW o, Answer(o) PROVE SilenceInv'
    <3>1. /\ pc = "execute" /\ pc' = "control" /\ UNCHANGED <<request, ticket, stored, rows, cancelled, suppressed>>
          /\ \A s \in Normal : state'[s] = IF s = cur THEN "Done" ELSE state[s]
      BY <1>0, <2>11 DEF Answer, AnsweredSlots, Complete, At, Goto, commandUnchanged, ticketVars, engineVars, historyVars
    <3>2. ~Sends(cur)
      BY <1>0, <3>1 DEF Owned, Executes
    <3>3. QED
      BY <1>0, <3>1, <3>2, SilenceFrame DEF Early, CancellationRequested, Writes, Sends, Executes
  <2>12. CASE WriteAccepted
    <3>1. /\ pc = "execute" /\ pc' = "control" /\ request[cur].op = "Write"
          /\ stored' = [stored EXCEPT ![cur] = "pending"] /\ UNCHANGED <<state, request, ticket, rows, cancelled, suppressed>>
      BY <2>12 DEF WriteAccepted, Retain, At, Goto, commandUnchanged, mailboxVars, slotVars, engineVars, historyVars
    <3>2. \A s \in Normal : Writes(s)' => request'[s].op = "Write"
      BY <1>0, <3>1 DEF TicketTypes, Writes, SilenceInv
    <3>3. \A s \in Normal : /\ (Early(s)' => Early(s)) /\ Id(s)' = Id(s) /\ (Sends(s)' <=> Sends(s))
                            /\ (CancellationRequested(s)' <=> CancellationRequested(s))
      BY <3>1 DEF Early, Executes, Id, Sends, CancellationRequested
    <3>4. QED
      BY <3>1, <3>2, <3>3 DEF SilenceInv
  <2>13. CASE SendAccepted
    <3>1. /\ pc = "execute" /\ pc' = "control" /\ ~CancellationRequested(cur) /\ request[cur].op = "Send"
          /\ ticket' = [ticket EXCEPT ![cur] = "pending"] /\ rows' = rows \cup {Id(cur)}
          /\ UNCHANGED <<state, request, cur, stored, cancelled, suppressed>>
      BY <2>13 DEF SendAccepted, SendLive, Retain, At, Goto, commandUnchanged, mailboxVars, slotVars, historyVars
    <3>2. Executes(cur) /\ Early(cur) /\ state[cur] \in {"Running", "CancelRunning"}
      BY <1>0, <3>1 DEF Executes, Early, Owned
    <3>3. Id(cur) \notin cancelled
      BY <1>0, <3>1, <3>2 DEF SilenceInv
    <3>4. \A s \in Normal : /\ (Writes(s)' <=> Writes(s)) /\ Id(s)' = Id(s) /\ (Sends(s) => Sends(s)')
                            /\ (CancellationRequested(s)' <=> CancellationRequested(s))
      BY <1>0, <3>1 DEF Writes, Id, Sends, CancellationRequested, TicketTypes
    <3>5. \A s \in Normal : Early(s)' => Early(s) /\ Id(s) # Id(cur)
      <4>1. ASSUME NEW s \in Normal, Early(s)' PROVE state[s] \in {"Ready", "CancelReady"}
        BY <3>1, <4>1 DEF Early, Executes
      <4>2. QED
        BY <1>0, <3>2, <4>1 DEF NamesInv, Early
    <3>6. QED
      BY <3>1, <3>3, <3>4, <3>5 DEF SilenceInv
  <2>14. QED
    BY <1>6, <2>2, <2>3, <2>4, <2>5, <2>6, <2>7, <2>8, <2>9, <2>10, <2>11, <2>12, <2>13
       DEF OwnerStep, ExecuteQuery, SendCancelled, SendRefused, WriteRefused
<1>7. QED
  BY <1>2, <1>3, <1>4, <1>5, <1>6 DEF ServiceStep

LEMMA SilenceHolds == ServiceSpec => [](AllInv /\ NamesInv /\ SilenceInv)
<1>1. ServiceInit => NamesInv /\ SilenceInv
  <2> SUFFICES ASSUME ServiceInit PROVE NamesInv /\ SilenceInv
    OBVIOUS
  <2>1. (\A s \in Slots : state[s] = "Free") /\ rows = {} /\ cancelled = {} /\ answered = {} /\ pc = "start"
        /\ \A s \in Normal : stored[s] = "none"
    BY DEF ServiceInit, MailboxInit
  <2>2. QED
    BY <2>1, Distinct DEF NamesInv, SilenceInv, Early, Executes, Writes
<1>2. AllInv /\ NamesInv /\ SilenceInv /\ [ServiceStep]_vars => NamesInv' /\ SilenceInv'
  BY NamesStep, SilenceStep
<1>3. QED
  BY <1>1, <1>2, AllInvHolds, PTL DEF ServiceSpec

\* Once cancelSend has returned true for a message and its result is there, the
\* message is not transmitted, whether the cancellation came before the service
\* looked at it, while the engine held it, or in the last moment before the
\* result was claimed (DeviceService.cpp, pollSends; ServiceMailbox.h, cancelSend).
THEOREM CancelSilence == ServiceSpec => CancelledStaysSilent
<1>1. AllInv /\ NamesInv /\ SilenceInv /\ [ServiceStep]_vars
        => [\A m \in cancelled \cap Shown : m \in sent' => m \in sent]_vars
  <2> SUFFICES ASSUME AllInv, NamesInv, SilenceInv, ServiceStep,
                      NEW m \in cancelled \cap Shown, m \in sent', m \notin sent
               PROVE  FALSE
    BY DEF vars, engineVars
  <2>1. PICK k \in 1 .. MaxId : EngineTransmits(k)
    BY Gains
  <2>2. m = k /\ m \in rows /\ m \notin suppressed
    BY <2>1 DEF EngineTransmits
  <2>3. PICK s \in Normal : Id(s) = m /\ state[s] = "CancelRunning" /\ Sends(s)
    BY <2>2 DEF SilenceInv
  <2>4. s \in Slots
    BY Distinct
  <2>5. m \notin answered
    BY <2>3, <2>4 DEF NamesInv
  <2>6. PICK t \in Slots : state[t] = "Done" /\ Id(t) = m
    BY <2>5 DEF Shown
  <2>7. QED
    BY <2>3, <2>4, <2>6 DEF NamesInv
<1>2. QED
  BY <1>1, SilenceHolds, PTL DEF CancelledStaysSilent, ServiceSpec
=============================================================================
