----------------------- MODULE IncomingDeliveryProofs -----------------------
(***************************************************************************)
(* For every number of rows, receipts, peers and messages, every length of *)
(* the radio's queue and every bound on the generations: a proof goes on   *)
(* the air only for a message that is stored, and nothing of a deleted     *)
(* conversation or a stopped delivery is proved or announced. And the      *)
(* books of rows, receipts and queued frames agree at any moment, for      *)
(* which the second part strengthens the invariant.                        *)
(*                                                                         *)
(* The steps are compositions of few changes to rows and receipts, so the  *)
(* invariant is a predicate of these and of the frames in the queue, and   *)
(* the lemmas say what each change keeps.                                  *)
(***************************************************************************)
EXTENDS IncomingDelivery, FiniteSetTheorems, SequenceTheorems, WellFoundedInduction, TLAPS

RowType == [phase : Phases, msg : Messages \cup {NoMessage}, ticket : Tickets,
            proofs : SUBSET Slots, revoked : BOOLEAN]
ReceiptType == [gen : 0 .. MaxGeneration, state : States, kind : Kinds, row : Rows \cup {NoRow},
                fresh : BOOLEAN, revoked : BOOLEAN]
FrameType == [slot : Slots, gen : 0 .. MaxGeneration, msg : Messages \cup {NoMessage},
              to : Peers \cup {NoPeer}, revoked : BOOLEAN]

\* What is called committed is stored, and a row whose conversation was deleted
\* is invisible.
RowsAgree(rw, st) ==
  /\ rw \in [Rows -> RowType]
  /\ \A j \in Rows :
       /\ rw[j].phase = "Free" => rw[j].ticket = "none" /\ rw[j].proofs = {}
       /\ rw[j].phase # "Free" => rw[j].msg \in Messages
       /\ rw[j].phase = "Committed" \/ rw[j].ticket \in {"committed", "duplicate"} => rw[j].msg \in st
       /\ rw[j].phase = "Reaction" => rw[j].msg \in Reactions
       /\ rw[j].revoked => rw[j].phase = "Invisible"

\* A receipt is without a row exactly while it is a reservation or belongs to a
\* control frame, and one of a link ends with the link.
ReceiptsAgree(rs, lk) ==
  /\ rs \in [Slots -> ReceiptType]
  /\ \A i \in Slots :
       /\ rs[i].state # "Free" => (rs[i].row = NoRow <=> rs[i].kind \in {"Control", "Reservation"})
       /\ rs[i].state # "Free" /\ OnLink(rs[i].kind) => lk # "down"
       /\ ~rs[i].revoked

\* A row holds exactly the receipts that point at it.
Masks(rw, rs) ==
  \A j \in Rows : rw[j].proofs = {i \in Slots : rs[i].state # "Free" /\ rs[i].row = j}

HeldBy(rs, f) == rs[f.slot].state # "Free" /\ rs[f.slot].gen = f.gen

\* A frame the receipt of which is still held says the truth about the receipt:
\* its message, the peer it is for, and that neither was revoked.
Truthful(rw, rs, lk, f) ==
  /\ rs[f.slot].kind # "Reservation"
  /\ ~f.revoked
  /\ IF rs[f.slot].row = NoRow
     THEN f.msg = NoMessage /\ f.to = IF lk \in Peers THEN lk ELSE NoPeer
     ELSE f.msg = rw[rs[f.slot].row].msg /\ f.to = Source[f.msg]

FramesAgree(rw, rs, lk, fs) ==
  \A f \in fs \ {Foreign} :
    /\ f \in FrameType
    /\ f.gen <= rs[f.slot].gen
    /\ HeldBy(rs, f) => Truthful(rw, rs, lk, f)

Agree(rw, rs, lk, st, fs) ==
  RowsAgree(rw, st) /\ ReceiptsAgree(rs, lk) /\ Masks(rw, rs) /\ FramesAgree(rw, rs, lk, fs)

InboundOK ==
  /\ inbound \in [phase : {"none", "active", "cancel"}, slot : Nat, gen : Nat]
  /\ inbound.phase # "none" => inbound.slot \in Slots

Types ==
  /\ accepting \in BOOLEAN /\ visibility \in 1 .. MaxVisibility
  /\ link \in Peers \cup {"down", "answered"} /\ stored \subseteq Messages
  /\ InboundOK
  /\ txQueue \in Seq(FrameType \cup {Foreign})

Inv == Types /\ Agree(rows, receipts, link, stored, Frames)
-----------------------------------------------------------------------------
(* Least elements, and what the queue of the radio keeps.                   *)

LEMMA MinIn ==
  ASSUME NEW S \in SUBSET Nat, S # {}
  PROVE  Min(S) \in S
<1> DEFINE R == {ss \in Nat \X Nat : ss[1] < ss[2]}
<1>1. R = OpToRel(<, Nat)
  BY DEF OpToRel
<1>2. IsWellFoundedOn(R, Nat)
  BY <1>1, NatLessThanWellFounded
<1> HIDE DEF R
<1>3. \E x \in S : \A y \in S : ~ (<<y, x>> \in R)
  BY <1>2, WFMin
<1>4. \A x, y \in Nat : x > y => <<y, x>> \in R
  BY DEF R
<1>5. \E x \in S : \A y \in S : x <= y
  <2>1. PICK x \in S : \A y \in S : ~ (<<y, x>> \in R)
    BY <1>3
  <2>2. \A y \in S : x \in Nat /\ y \in Nat /\ ~ (x > y)
    BY <1>4, <2>1
  <2>3. QED
    BY <2>2
<1>6. QED
  BY <1>5 DEF Min

\* An element's rank is the number of those up to it: no two have the same, and
\* every rank from the first to the last has an element.
Rank(S, k) == Cardinality({l \in S : l <= k})

LEMMA Ranks ==
  ASSUME NEW S \in SUBSET Nat, IsFiniteSet(S)
  PROVE  /\ \A k \in S : Rank(S, k) \in 1 .. Cardinality(S)
         /\ \A k, m \in S : Rank(S, k) = Rank(S, m) => k = m
         /\ \A n \in 1 .. Cardinality(S) : \E k \in S : Rank(S, k) = n
<1> DEFINE Upto(k) == {l \in S : l <= k}
           N == 1 .. Cardinality(S)
           rank == [k \in S |-> Cardinality(Upto(k))]
<1> USE DEF Rank
<1>1. Cardinality(S) \in Nat
  BY FS_CardinalityType
<1>2. ASSUME NEW k \in S PROVE IsFiniteSet(Upto(k)) /\ Cardinality(Upto(k)) \in N
  <2>1. IsFiniteSet(Upto(k)) /\ Cardinality(Upto(k)) <= Cardinality(S)
    BY FS_Subset
  <2>2. Cardinality(Upto(k)) \in Nat /\ Upto(k) # {}
    BY <2>1, FS_CardinalityType
  <2>3. Cardinality(Upto(k)) # 0
    BY <2>1, <2>2, FS_EmptySet
  <2>4. QED
    BY <1>1, <2>1, <2>2, <2>3
<1>3. ASSUME NEW k \in S, NEW m \in S, k < m PROVE Cardinality(Upto(k)) # Cardinality(Upto(m))
  <2>1. Upto(k) \subseteq Upto(m) /\ m \in Upto(m) /\ m \notin Upto(k)
    <3>1. \A l \in S : l \in Nat
      OBVIOUS
    <3>2. k \in Nat /\ m \in Nat /\ m <= m /\ ~ (m <= k) /\ \A l \in Nat : l <= k => l <= m
      BY <1>3, <3>1
    <3>3. QED
      BY <3>1, <3>2
  <2>2. QED
    BY <1>2, <2>1, FS_Subset
<1>4. \A k, m \in S : rank[k] = rank[m] => k = m
  <2>1. \A k, m \in S : k < m \/ m < k \/ k = m
    OBVIOUS
  <2>2. QED
    BY <1>3, <2>1
<1>5. rank \in Injection(S, N)
  BY <1>2, <1>4 DEF Injection, IsInjective
<1>6. IsFiniteSet(N) /\ Cardinality(N) = Cardinality(S)
  <2>0. 1 \in Int /\ Cardinality(S) \in Int
    BY <1>1
  <2>1. Cardinality(1 .. Cardinality(S)) = IF 1 > Cardinality(S) THEN 0 ELSE Cardinality(S) - 1 + 1
    BY <2>0, FS_Interval, Zenon
  <2>2. IsFiniteSet(N)
    BY <1>1, FS_Interval
  <2>3. QED
    BY <1>1, <2>1, <2>2
<1>7. rank \in Surjection(S, N)
  BY <1>5, <1>6, FS_Injection
<1>8. QED
  BY <1>2, <1>4, <1>7 DEF Surjection

\* Closing up keeps the frames that were in the queue and are live, each once
\* and in a place of its own.
LEMMA KeptFacts ==
  ASSUME NEW T, txQueue \in Seq(T), NEW live
  PROVE  /\ Kept(live) \in Seq(T)
         /\ ToSet(Kept(live)) = Frames \cap live
         /\ \A n \in DOMAIN Kept(live) : /\ Place(live, n) \in DOMAIN txQueue
                                        /\ Kept(live)[n] = txQueue[Place(live, n)]
         /\ \A n, m \in DOMAIN Kept(live) : Place(live, n) = Place(live, m) => n = m
<1> DEFINE at == LivePlaces(live)
           N == 1 .. Cardinality(at)
<1>1. at \subseteq 1 .. Len(txQueue) /\ Len(txQueue) \in Nat /\ DOMAIN txQueue = 1 .. Len(txQueue)
  BY DEF LivePlaces
<1>2. IsFiniteSet(at) /\ at \in SUBSET Nat
  <2>1. IsFiniteSet(1 .. Len(txQueue))
    BY <1>1, FS_Interval
  <2>2. QED
    BY <1>1, <2>1, FS_Subset
<1>3. Cardinality(at) \in Nat
  BY <1>2, FS_CardinalityType
<1>4. ASSUME NEW n \in N PROVE Place(live, n) \in at /\ Rank(at, Place(live, n)) = n
  <2>1. \E k \in at : Rank(at, k) = n
    BY <1>2, Ranks
  <2>2. QED
    BY <2>1 DEF Place, Rank
<1>5. \A n \in N : Kept(live)[n] = txQueue[Place(live, n)] /\ txQueue[Place(live, n)] \in T \cap Frames \cap live
  BY <1>1, <1>4 DEF Kept, LivePlaces, Frames, ToSet
<1>6. Kept(live) \in [N -> T]
  BY <1>5 DEF Kept
<1>7. Kept(live) \in Seq(T) /\ DOMAIN Kept(live) = N
  BY <1>3, <1>6
<1>8. ASSUME NEW f \in Frames \cap live PROVE \E n \in N : Kept(live)[n] = f
  <2>1. PICK k \in at : txQueue[k] = f
    BY DEF Frames, ToSet, LivePlaces
  <2>2. Rank(at, k) \in N
    BY <1>2, Ranks
  <2>3. Place(live, Rank(at, k)) = k
    BY <1>2, <1>4, <2>2, Ranks
  <2>4. QED
    BY <1>5, <2>1, <2>2, <2>3
<1>9. \A n, m \in N : Place(live, n) = Place(live, m) => n = m
  BY <1>4
<1>10. QED
  BY <1>1, <1>4, <1>5, <1>7, <1>8, <1>9 DEF ToSet

LEMMA TailFrames ==
  ASSUME NEW T, NEW q \in Seq(T), q # <<>>
  PROVE  Tail(q) \in Seq(T) /\ Head(q) \in ToSet(q) /\ ToSet(Tail(q)) \subseteq ToSet(q)
<1>1. /\ Tail(q) \in Seq(T) /\ Head(q) = q[1] /\ Len(q) \in Nat \ {0}
      /\ Len(Tail(q)) = Len(q) - 1 /\ \A i \in 1 .. Len(Tail(q)) : Tail(q)[i] = q[i + 1]
  BY HeadTailProperties, EmptySeq
<1>2. DOMAIN q = 1 .. Len(q) /\ DOMAIN Tail(q) = 1 .. Len(Tail(q))
  BY <1>1
<1>3. QED
  BY <1>1, <1>2 DEF ToSet

LEMMA AppendFrames ==
  ASSUME NEW T, NEW q \in Seq(T), NEW f \in T
  PROVE  Append(q, f) \in Seq(T) /\ ToSet(Append(q, f)) = ToSet(q) \cup {f}
<1>1. /\ Append(q, f) \in Seq(T) /\ Len(q) \in Nat /\ Len(Append(q, f)) = Len(q) + 1
      /\ \A i \in 1 .. Len(q) : Append(q, f)[i] = q[i]
      /\ Append(q, f)[Len(q) + 1] = f
  BY AppendProperties
<1>2. DOMAIN q = 1 .. Len(q) /\ DOMAIN Append(q, f) = 1 .. Len(q) + 1
  BY <1>1
<1>3. QED
  BY <1>1, <1>2 DEF ToSet

QueueType == txQueue \in Seq(FrameType \cup {Foreign})

LEMMA EmptyQueue == <<>> \in Seq(FrameType \cup {Foreign}) /\ ToSet(<<>>) = {}
  BY DEF ToSet

\* What the operations of the radio leave in its queue.
LEMMA OfferFrames ==
  ASSUME QueueType, NEW f \in FrameType \cup {Foreign}, NEW live, NEW offer, Offer(f, live, offer)
  PROVE  /\ QueueType'
         /\ Frames' \subseteq Frames \cup {f}
         /\ offer # "Queued" => Frames' \subseteq Frames
<1>1. Kept(live) \in Seq(FrameType \cup {Foreign}) /\ ToSet(Kept(live)) \subseteq Frames
  BY KeptFacts DEF QueueType
<1>2. Append(Kept(live), f) \in Seq(FrameType \cup {Foreign})
      /\ ToSet(Append(Kept(live), f)) = ToSet(Kept(live)) \cup {f}
  BY <1>1, AppendFrames
<1>3. CASE UNCHANGED txQueue
  BY <1>3 DEF QueueType, Frames
<1>4. CASE txQueue' = <<>>
  BY <1>4, EmptyQueue DEF QueueType, Frames
<1>5. CASE txQueue' = Kept(live)
  BY <1>1, <1>5 DEF QueueType, Frames
<1>6. CASE offer = "Queued" /\ txQueue' = Append(Kept(live), f)
  BY <1>1, <1>2, <1>6 DEF QueueType, Frames
<1>7. QED
  BY <1>3, <1>4, <1>5, <1>6 DEF Offer

LEMMA DrainFrames ==
  ASSUME QueueType, NEW live, NEW f, DrainTx(live, f)
  PROVE  QueueType' /\ Frames' \subseteq Frames /\ f \in Frames \cap live
<1>1. Kept(live) \in Seq(FrameType \cup {Foreign}) /\ ToSet(Kept(live)) \subseteq Frames \cap live
  BY KeptFacts DEF QueueType
<1>2. QED
  BY <1>1, TailFrames DEF DrainTx, QueueType, Frames

LEMMA DiscardFrames ==
  ASSUME QueueType, NEW live, txQueue' = Kept(live)
  PROVE  QueueType' /\ Frames' \subseteq Frames
  BY KeptFacts DEF QueueType, Frames
-----------------------------------------------------------------------------
(* What the changes to rows and receipts keep.                             *)

LEMMA FreshTypes ==
  /\ FreeRow \in RowType /\ FreeRow.phase = "Free" /\ FreeRow.ticket = "none" /\ FreeRow.proofs = {} /\ ~FreeRow.revoked
  /\ \A g \in 0 .. MaxGeneration : /\ FreeReceipt(g) \in ReceiptType /\ FreeReceipt(g).state = "Free"
                                   /\ FreeReceipt(g).gen = g /\ ~FreeReceipt(g).revoked
  BY DEF FreeRow, FreeReceipt, RowType, ReceiptType, Phases, Tickets, States, Kinds

LEMMA FewerFrames ==
  ASSUME NEW rw, NEW rs, NEW lk, NEW st, NEW fs, Agree(rw, rs, lk, st, fs), NEW left, left \subseteq fs
  PROVE  Agree(rw, rs, lk, st, left)
  BY DEF Agree, FramesAgree

\* Receipts are retired, the rows with their last proof.
LEMMA RetireKeeps ==
  ASSUME NEW rw, NEW rs, NEW lk, NEW st, NEW fs, Agree(rw, rs, lk, st, fs), NEW gone
  PROVE  Agree(Without(rw, gone), RetiredFrom(rs, gone), lk, st, fs)
<1> DEFINE rw2 == Without(rw, gone)
           rs2 == RetiredFrom(rs, gone)
<1> USE DEF Agree
<1>1. ASSUME NEW j \in Rows
      PROVE  \/ rw2[j] = FreeRow /\ rw[j].proofs \ gone = {}
             \/ rw2[j] = [rw[j] EXCEPT !.proofs = rw[j].proofs \ gone]
  BY DEF Without
<1>2. \A j \in Rows : rw[j] \in RowType /\ rw2[j] \in RowType /\ rw2[j].proofs = rw[j].proofs \ gone
  <2>1. TAKE j \in Rows
  <2>2. rw[j] \in RowType
    BY DEF RowsAgree
  <2>3. CASE rw2[j] = FreeRow /\ rw[j].proofs \ gone = {}
    BY <2>2, <2>3, FreshTypes
  <2>4. CASE rw2[j] = [rw[j] EXCEPT !.proofs = rw[j].proofs \ gone]
    BY <2>2, <2>4 DEF RowType
  <2>5. QED
    BY <1>1, <2>3, <2>4
<1>3. rw2 \in [Rows -> RowType]
  BY <1>2 DEF Without
<1>4. RowsAgree(rw2, st)
  <2>1. ASSUME NEW j \in Rows
        PROVE  /\ rw2[j].phase = "Free" => rw2[j].ticket = "none" /\ rw2[j].proofs = {}
               /\ rw2[j].phase # "Free" => rw2[j].msg \in Messages
               /\ rw2[j].phase = "Committed" \/ rw2[j].ticket \in {"committed", "duplicate"} => rw2[j].msg \in st
               /\ rw2[j].phase = "Reaction" => rw2[j].msg \in Reactions
               /\ rw2[j].revoked => rw2[j].phase = "Invisible"
    <3>1. CASE rw2[j] = FreeRow
      BY <3>1, FreshTypes
    <3>2. CASE rw2[j] = [rw[j] EXCEPT !.proofs = rw[j].proofs \ gone]
      BY <1>2, <3>2 DEF RowsAgree, RowType
    <3>3. QED
      BY <1>1, <3>1, <3>2
  <2>2. QED
    BY <1>3, <2>1 DEF RowsAgree
<1>5. \A i \in Slots : /\ rs[i] \in ReceiptType
                       /\ rs2[i] = IF i \in gone THEN FreeReceipt(rs[i].gen) ELSE rs[i]
                       /\ rs[i].gen \in 0 .. MaxGeneration
  BY DEF RetiredFrom, ReceiptsAgree, ReceiptType
<1>6. ReceiptsAgree(rs2, lk)
  <2>1. rs2 \in [Slots -> ReceiptType]
    BY <1>5, FreshTypes DEF RetiredFrom
  <2>2. QED
    BY <1>5, <2>1, FreshTypes DEF ReceiptsAgree
<1>7. Masks(rw2, rs2)
  BY <1>2, <1>5, FreshTypes DEF Masks
<1>8. FramesAgree(rw2, rs2, lk, fs)
  <2>1. ASSUME NEW f \in fs \ {Foreign}
        PROVE  f \in FrameType /\ f.gen <= rs2[f.slot].gen /\ (HeldBy(rs2, f) => Truthful(rw2, rs2, lk, f))
    <3>1. f \in FrameType /\ f.slot \in Slots /\ f.gen <= rs[f.slot].gen
      BY DEF FramesAgree, FrameType
    <3>2. rs2[f.slot].gen = rs[f.slot].gen
      BY <1>5, <3>1, FreshTypes
    <3>3. ASSUME HeldBy(rs2, f) PROVE Truthful(rw2, rs2, lk, f)
      <4>1. f.slot \notin gone /\ rs2[f.slot] = rs[f.slot]
        BY <1>5, <3>1, <3>3, FreshTypes DEF HeldBy
      <4>2. Truthful(rw, rs, lk, f)
        BY <3>3, <4>1 DEF HeldBy, FramesAgree
      <4>3. ASSUME rs[f.slot].row # NoRow PROVE rw2[rs[f.slot].row].msg = rw[rs[f.slot].row].msg
        <5>1. rs[f.slot].row \in Rows /\ f.slot \in rw[rs[f.slot].row].proofs
          BY <1>5, <3>1, <3>3, <4>1, <4>3 DEF Masks, HeldBy, ReceiptType
        <5>2. QED
          BY <1>1, <1>2, <4>1, <5>1 DEF RowType
      <4>4. QED
        BY <4>1, <4>2, <4>3 DEF Truthful
    <3>4. QED
      BY <3>1, <3>2, <3>3
  <2>2. QED
    BY <2>1 DEF FramesAgree
<1>9. QED
  BY <1>4, <1>6, <1>7, <1>8

\* Rows change without gaining or losing proofs.
LEMMA RowsChangeKeeps ==
  ASSUME NEW rw, NEW rs, NEW lk, NEW st, NEW fs, Agree(rw, rs, lk, st, fs),
         NEW rw2, NEW st2, RowsAgree(rw2, st2),
         \A j \in Rows : rw2[j].proofs = rw[j].proofs /\ (rw[j].proofs # {} => rw2[j].msg = rw[j].msg)
  PROVE  Agree(rw2, rs, lk, st2, fs)
<1> USE DEF Agree
<1>1. Masks(rw2, rs)
  BY DEF Masks
<1>2. ASSUME NEW f \in fs \ {Foreign}, HeldBy(rs, f) PROVE Truthful(rw2, rs, lk, f)
  <2>1. Truthful(rw, rs, lk, f) /\ f.slot \in Slots
    BY <1>2 DEF FramesAgree, FrameType
  <2>2. ASSUME rs[f.slot].row # NoRow PROVE rw2[rs[f.slot].row].msg = rw[rs[f.slot].row].msg
    <3>1. rs[f.slot].row \in Rows
      BY <2>1, <2>2 DEF ReceiptsAgree, ReceiptType
    <3>2. f.slot \in rw[rs[f.slot].row].proofs
      BY <1>2, <2>1, <3>1 DEF Masks, HeldBy
    <3>3. QED
      BY <3>1, <3>2
  <2>3. QED
    BY <2>1, <2>2 DEF Truthful
<1>3. FramesAgree(rw2, rs, lk, fs)
  BY <1>2 DEF FramesAgree
<1>4. QED
  BY <1>1, <1>3

\* Receipts change their state or their freshness and stay in use; one that is
\* free may skip a generation.
LEMMA ReceiptsChangeKeeps ==
  ASSUME NEW rw, NEW rs, NEW lk, NEW st, NEW fs, Agree(rw, rs, lk, st, fs),
         NEW rs2 \in [Slots -> ReceiptType],
         \A i \in Slots : /\ rs2[i].state = "Free" <=> rs[i].state = "Free"
                          /\ rs2[i].gen = rs[i].gen \/ (rs[i].state = "Free" /\ rs2[i].gen = rs[i].gen + 1)
                          /\ rs2[i].row = rs[i].row
                          /\ rs2[i].kind = rs[i].kind /\ rs2[i].revoked = rs[i].revoked
  PROVE  Agree(rw, rs2, lk, st, fs)
<1> USE DEF Agree
<1>1. ReceiptsAgree(rs2, lk)
  BY DEF ReceiptsAgree
<1>2. Masks(rw, rs2)
  BY DEF Masks
<1>3. ASSUME NEW f \in fs \ {Foreign}
      PROVE  f \in FrameType /\ f.gen <= rs2[f.slot].gen /\ (HeldBy(rs2, f) => Truthful(rw, rs2, lk, f))
  <2>1. f \in FrameType /\ f.gen <= rs[f.slot].gen
    BY DEF FramesAgree
  <2>2. f.slot \in Slots /\ f.gen \in 0 .. MaxGeneration
    BY <2>1 DEF FrameType
  <2>3. rs[f.slot].gen \in 0 .. MaxGeneration
    BY <2>2 DEF ReceiptsAgree, ReceiptType
  <2>4. f.gen <= rs2[f.slot].gen
    BY <2>1, <2>2, <2>3
  <2>5. ASSUME HeldBy(rs2, f) PROVE Truthful(rw, rs2, lk, f)
    <3>1. HeldBy(rs, f)
      BY <2>2, <2>5 DEF HeldBy
    <3>2. Truthful(rw, rs, lk, f)
      BY <3>1 DEF FramesAgree
    <3>3. QED
      BY <2>2, <3>2 DEF Truthful
  <2>6. QED
    BY <2>1, <2>4, <2>5
<1>4. QED
  BY <1>1, <1>2, <1>3 DEF FramesAgree

\* A receipt is taken, for the row j or for none: a free one under its next
\* generation, or the reservation of a transfer.  No frame in the queue is its.
Takes(rw, rs, rw2, rs2, lk, st, i, j) ==
  /\ i \in Slots /\ j \in Rows \cup {NoRow} /\ rs2 \in [Slots -> ReceiptType] /\ RowsAgree(rw2, st)
  /\ \A u \in Slots \ {i} : rs2[u] = rs[u]
  /\ rs2[i].state # "Free" /\ rs2[i].row = j /\ ~rs2[i].revoked
  /\ j = NoRow <=> rs2[i].kind \in {"Control", "Reservation"}
  /\ OnLink(rs2[i].kind) => lk # "down"
  /\ \/ rs[i].state = "Free" /\ rs2[i].gen = rs[i].gen + 1
     \/ rs[i].state # "Free" /\ rs[i].kind = "Reservation" /\ rs2[i].gen = rs[i].gen
  /\ \A k \in Rows : rw2[k].proofs = IF k = j THEN rw[k].proofs \cup {i} ELSE rw[k].proofs
  /\ \A k \in Rows : rw[k].proofs # {} => rw2[k].msg = rw[k].msg

LEMMA TakeKeeps ==
  ASSUME NEW rw, NEW rs, NEW lk, NEW st, NEW fs, Agree(rw, rs, lk, st, fs),
         NEW i, NEW j, NEW rs2, NEW rw2, Takes(rw, rs, rw2, rs2, lk, st, i, j)
  PROVE  Agree(rw2, rs2, lk, st, fs)
<1> USE DEF Agree, Takes
<1>1. ReceiptsAgree(rs2, lk)
  BY DEF ReceiptsAgree
<1>2. \A k \in Rows : i \notin rw[k].proofs
  BY DeliveryAssumption DEF Masks, ReceiptsAgree
<1>3. Masks(rw2, rs2)
  <2>1. ASSUME NEW k \in Rows
        PROVE  rw2[k].proofs = {u \in Slots : rs2[u].state # "Free" /\ rs2[u].row = k}
    <3>1. rw[k].proofs = {u \in Slots : rs[u].state # "Free" /\ rs[u].row = k} /\ i \notin rw[k].proofs
      BY <1>2 DEF Masks
    <3>2. \A u \in Slots : u # i => rs2[u] = rs[u]
      OBVIOUS
    <3>3. CASE k = j
      <4>1. rw2[k].proofs = rw[k].proofs \cup {i} /\ rs2[i].row = k
        BY <3>3
      <4>2. QED
        BY <3>1, <3>2, <4>1
    <3>4. CASE k # j
      <4>1. rw2[k].proofs = rw[k].proofs /\ rs2[i].row # k
        BY <3>4
      <4>2. QED
        BY <3>1, <3>2, <4>1
    <3>5. QED
      BY <3>3, <3>4
  <2>2. QED
    BY <2>1 DEF Masks
<1>4. ASSUME NEW f \in fs \ {Foreign}
      PROVE  f \in FrameType /\ f.gen <= rs2[f.slot].gen /\ (HeldBy(rs2, f) => Truthful(rw2, rs2, lk, f))
  <2>1. f \in FrameType /\ f.slot \in Slots /\ f.gen <= rs[f.slot].gen /\ f.gen \in Nat /\ rs[f.slot].gen \in Nat
    <3>1. f \in FrameType /\ f.gen <= rs[f.slot].gen
      BY DEF FramesAgree
    <3>2. f.slot \in Slots /\ f.gen \in 0 .. MaxGeneration
      BY <3>1 DEF FrameType
    <3>3. rs[f.slot].gen \in 0 .. MaxGeneration
      BY <3>2 DEF ReceiptsAgree, ReceiptType
    <3>4. QED
      BY <3>1, <3>2, <3>3
  <2>2. CASE f.slot = i
    <3>1. f.gen <= rs2[i].gen
      BY <2>1, <2>2
    <3>2. ~HeldBy(rs2, f)
      BY <2>1, <2>2 DEF HeldBy, FramesAgree, Truthful
    <3>3. QED
      BY <2>1, <2>2, <3>1, <3>2
  <2>3. CASE f.slot # i
    <3>1. rs2[f.slot] = rs[f.slot]
      BY <2>1, <2>3
    <3>2. ASSUME HeldBy(rs2, f) PROVE Truthful(rw2, rs2, lk, f)
      <4>1. Truthful(rw, rs, lk, f)
        BY <3>1, <3>2 DEF HeldBy, FramesAgree
      <4>2. ASSUME rs[f.slot].row # NoRow PROVE rw2[rs[f.slot].row].msg = rw[rs[f.slot].row].msg
        <5>1. rs[f.slot].row \in Rows
          BY <2>1, <4>2 DEF ReceiptsAgree, ReceiptType
        <5>2. f.slot \in rw[rs[f.slot].row].proofs
          BY <2>1, <3>1, <3>2, <5>1 DEF Masks, HeldBy
        <5>3. QED
          BY <5>1, <5>2
      <4>3. QED
        BY <3>1, <4>1, <4>2 DEF Truthful
    <3>3. QED
      BY <2>1, <3>1, <3>2
  <2>4. QED
    BY <2>2, <2>3
<1>5. QED
  BY <1>1, <1>3, <1>4 DEF FramesAgree

\* A further frame, the receipt of which is held and agrees with it.
LEMMA NewFrameKeeps ==
  ASSUME NEW rw, NEW rs, NEW lk, NEW st, NEW fs, Agree(rw, rs, lk, st, fs),
         NEW f \in FrameType, f.gen = rs[f.slot].gen, Truthful(rw, rs, lk, f)
  PROVE  Agree(rw, rs, lk, st, fs \cup {f})
<1>1. f.gen \in Nat
  BY DeliveryAssumption DEF FrameType
<1>2. QED
  BY <1>1 DEF Agree, FramesAgree

\* What the radio is told of a live receipt, and what that proves.
Proved(f) == f.msg # NoMessage => f.msg \in stored \cup Reactions

LEMMA LiveRow ==
  ASSUME Inv, NEW i \in Slots, NEW gen, ReceiptLive(i, gen), receipts[i].row # NoRow
  PROVE  /\ receipts[i].row \in Rows
         /\ rows[receipts[i].row].msg \in Messages
         /\ rows[receipts[i].row].msg \in stored \cup Reactions
<1>1. receipts[i].row \in Rows
  BY DEF Inv, Agree, ReceiptsAgree, ReceiptType
<1>2. QED
  BY <1>1 DEF ReceiptLive, Inv, Agree, RowsAgree

LEMMA OfferedFrame ==
  ASSUME Inv, NEW i \in Slots, ReceiptLive(i, receipts[i].gen)
  PROVE  /\ FrameOf(i) \in FrameType /\ FrameOf(i).slot = i /\ FrameOf(i).gen = receipts[i].gen
         /\ Truthful(rows, receipts, link, FrameOf(i))
         /\ Proved(FrameOf(i)) /\ ~FrameOf(i).revoked
<1> DEFINE f == FrameOf(i)
           j == receipts[i].row
<1>1. /\ receipts[i].gen \in 0 .. MaxGeneration /\ j \in Rows \cup {NoRow} /\ ~receipts[i].revoked
      /\ receipts[i].state # "Free"
      /\ j = NoRow <=> receipts[i].kind \in {"Control", "Reservation"}
  BY DEF Inv, Agree, ReceiptsAgree, ReceiptType, ReceiptLive, Held
<1>2. f.slot = i /\ f.gen = receipts[i].gen /\ f.revoked = receipts[i].revoked
  BY DEF FrameOf
<1>3. CASE j = NoRow
  <2>1. f.msg = NoMessage /\ f.to = (IF link \in Peers THEN link ELSE NoPeer) /\ receipts[i].kind = "Control"
    BY <1>3 DEF FrameOf, ReceiptLive
  <2>2. f \in FrameType
    <3>1. f = [slot |-> i, gen |-> receipts[i].gen, msg |-> NoMessage,
               to |-> IF link \in Peers THEN link ELSE NoPeer, revoked |-> receipts[i].revoked]
      BY <1>3 DEF FrameOf
    <3>2. (IF link \in Peers THEN link ELSE NoPeer) \in Peers \cup {NoPeer} /\ receipts[i].revoked \in BOOLEAN
      BY DEF Inv, Agree, ReceiptsAgree, ReceiptType
    <3>3. QED
      BY <1>1, <3>1, <3>2 DEF FrameType
  <2>3. QED
    BY <1>1, <1>2, <1>3, <2>1, <2>2 DEF Truthful, Proved
<1>4. CASE j # NoRow
  <2>1. rows[j].msg \in Messages /\ rows[j].msg \in stored \cup Reactions
    BY <1>4, LiveRow
  <2>2. f.msg = rows[j].msg /\ f.to = Source[rows[j].msg] /\ Source[rows[j].msg] \in Peers
    BY <1>4, <2>1, DeliveryAssumption DEF FrameOf
  <2>3. f \in FrameType
    <3>1. f = [slot |-> i, gen |-> receipts[i].gen, msg |-> rows[j].msg,
               to |-> Source[rows[j].msg], revoked |-> receipts[i].revoked]
      BY <1>4 DEF FrameOf
    <3>2. receipts[i].revoked \in BOOLEAN
      BY DEF Inv, Agree, ReceiptsAgree, ReceiptType
    <3>3. QED
      BY <1>1, <2>1, <2>2, <3>1, <3>2 DEF FrameType
  <2>4. QED
    BY <1>1, <1>2, <1>4, <2>1, <2>2, <2>3 DEF Truthful, Proved
<1>5. QED
  BY <1>3, <1>4

LEMMA LiveFrame ==
  ASSUME Inv, NEW f \in Frames \ {Foreign}, f \in Live
  PROVE  Proved(f) /\ ~f.revoked
<1>1. ReceiptLive(f.slot, f.gen) /\ f.slot \in Slots /\ HeldBy(receipts, f)
  BY DEF Live, ReceiptLive, Held, HeldBy
<1>2. Truthful(rows, receipts, link, f)
  BY <1>1 DEF Inv, Agree, FramesAgree
<1>3. CASE receipts[f.slot].row = NoRow
  BY <1>2, <1>3 DEF Truthful, Proved
<1>4. CASE receipts[f.slot].row # NoRow
  BY <1>1, <1>2, <1>4, LiveRow DEF Truthful, Proved
<1>5. QED
  BY <1>3, <1>4

\* With nothing of a link in use the link may change.
LEMMA LinkChangeKeeps ==
  ASSUME NEW rw, NEW rs, NEW lk, NEW st, NEW fs, Agree(rw, rs, lk, st, fs),
         \A i \in Slots : rs[i].state # "Free" => ~OnLink(rs[i].kind), NEW lk2
  PROVE  Agree(rw, rs, lk2, st, fs)
<1> USE DEF Agree
<1>1. ReceiptsAgree(rs, lk2)
  BY DEF ReceiptsAgree
<1>2. ASSUME NEW f \in fs \ {Foreign}, HeldBy(rs, f) PROVE Truthful(rw, rs, lk2, f)
  <2>1. f.slot \in Slots /\ Truthful(rw, rs, lk, f)
    BY <1>2 DEF FramesAgree, FrameType
  <2>2. rs[f.slot].row # NoRow
    BY <1>2, <2>1 DEF ReceiptsAgree, HeldBy, OnLink
  <2>3. QED
    BY <2>1, <2>2 DEF Truthful
<1>3. QED
  BY <1>1, <1>2 DEF FramesAgree

\* Everything is given up; the rows of pending tickets stay, invisible.
LEMMA StopKeeps ==
  ASSUME NEW rw, NEW rs, NEW lk, NEW st, NEW fs, Agree(rw, rs, lk, st, fs), NEW rw2, RowsAgree(rw2, st),
         \A j \in Rows : rw2[j].proofs = {}
  PROVE  Agree(rw2, [i \in Slots |-> FreeReceipt(rs[i].gen)], lk, st, fs)
<1> DEFINE rs2 == [i \in Slots |-> FreeReceipt(rs[i].gen)]
<1> USE DEF Agree
<1>1. \A i \in Slots : /\ rs[i].gen \in 0 .. MaxGeneration /\ rs2[i] \in ReceiptType
                       /\ rs2[i].state = "Free" /\ rs2[i].gen = rs[i].gen /\ ~rs2[i].revoked
  BY FreshTypes DEF ReceiptsAgree, ReceiptType
<1>2. rs2 \in [Slots -> ReceiptType]
  BY <1>1
<1> HIDE DEF rs2
<1>3. ReceiptsAgree(rs2, lk)
  BY <1>1, <1>2 DEF ReceiptsAgree
<1>4. Masks(rw2, rs2)
  BY <1>1 DEF Masks
<1>5. ASSUME NEW f \in fs \ {Foreign}
      PROVE  f \in FrameType /\ f.gen <= rs2[f.slot].gen /\ ~HeldBy(rs2, f)
  BY <1>1 DEF FramesAgree, FrameType, HeldBy
<1>6. FramesAgree(rw2, rs2, lk, fs)
  BY <1>5 DEF FramesAgree
<1>7. Agree(rw2, rs2, lk, st, fs)
  BY <1>3, <1>4, <1>6
<1>8. QED
  BY <1>7 DEF rs2

\* Frames are revoked the receipts of which are no longer held.
LEMMA RevokeKeeps ==
  ASSUME NEW rw, NEW rs, NEW lk, NEW st, NEW fs, Agree(rw, rs, lk, st, fs), NEW fs2,
         \A g \in fs2 \ {Foreign} :
            \/ g \in fs
            \/ \E f \in fs \ {Foreign} : g = [f EXCEPT !.revoked = TRUE] /\ ~HeldBy(rs, f)
  PROVE  Agree(rw, rs, lk, st, fs2)
<1>1. ASSUME NEW g \in fs2 \ {Foreign}
      PROVE  g \in FrameType /\ g.gen <= rs[g.slot].gen /\ (HeldBy(rs, g) => Truthful(rw, rs, lk, g))
  <2>1. CASE g \in fs
    BY <2>1 DEF Agree, FramesAgree
  <2>2. ASSUME NEW f \in fs \ {Foreign}, g = [f EXCEPT !.revoked = TRUE], ~HeldBy(rs, f)
        PROVE  g \in FrameType /\ g.gen <= rs[g.slot].gen /\ ~HeldBy(rs, g)
    <3>1. f \in FrameType /\ f.gen <= rs[f.slot].gen
      BY DEF Agree, FramesAgree
    <3>2. g \in FrameType /\ g.slot = f.slot /\ g.gen = f.gen
      BY <2>2, <3>1 DEF FrameType
    <3>3. QED
      BY <2>2, <3>1, <3>2 DEF HeldBy
  <2>3. QED
    BY <2>1, <2>2
<1>2. QED
  BY <1>1 DEF Agree, FramesAgree
-----------------------------------------------------------------------------
(* The steps.                                                              *)

EventOK == ProofAfterStore /\ SilentAfterDrop
Now == Agree(rows, receipts, link, stored, Frames)

LEMMA QueueSame ==
  ASSUME Inv, UNCHANGED radioVars
  PROVE  QueueType' /\ Frames' = Frames
  BY DEF Inv, Types, QueueType, radioVars, Frames

LEMMA SilentOK == event' = Silent => EventOK'
  BY DEF EventOK, ProofAfterStore, SilentAfterDrop, Silent

\* The steps of the table: the radio, the link and the store stay as they are.
LEMMA TableStep ==
  ASSUME Inv, UNCHANGED <<accepting, visibility, link, stored, radioVars>>, event' = Silent,
         InboundOK',
         Agree(rows', receipts', link, stored, Frames)
  PROVE  Inv' /\ EventOK'
<1>1. QueueType' /\ Frames' = Frames
  BY QueueSame
<1>2. Types'
  BY <1>1 DEF Inv, Types, QueueType
<1>3. Agree(rows', receipts', link', stored', Frames')
  BY <1>1
<1>4. QED
  BY <1>2, <1>3, SilentOK DEF Inv

LEMMA AllocatedFacts ==
  ASSUME NEW rs \in [Slots -> ReceiptType], FreeSlots(rs) # {},
         NEW kind \in Kinds, NEW state \in States, NEW row \in Rows \cup {NoRow}
  PROVE  LET i == Min(FreeSlots(rs))
             rs2 == Allocated(rs, i, kind, state, row)
         IN  /\ i \in Slots /\ rs[i].state = "Free"
             /\ rs2 \in [Slots -> ReceiptType] /\ \A u \in Slots \ {i} : rs2[u] = rs[u]
             /\ rs2[i].gen = rs[i].gen + 1 /\ rs2[i].state = state /\ rs2[i].kind = kind
             /\ rs2[i].row = row /\ ~rs2[i].revoked
<1> DEFINE i == Min(FreeSlots(rs))
           rs2 == Allocated(rs, i, kind, state, row)
<1>1. i \in FreeSlots(rs)
  BY MinIn, DeliveryAssumption DEF FreeSlots
<1>2. i \in Slots /\ rs[i].state = "Free" /\ rs[i].gen < MaxGeneration /\ rs[i].gen \in 0 .. MaxGeneration
  BY <1>1 DEF FreeSlots, ReceiptType
<1>3. rs[i].gen + 1 \in 0 .. MaxGeneration
  BY <1>2, DeliveryAssumption
<1> HIDE DEF i
<1>4. rs2 = [rs EXCEPT ![i] = [gen |-> rs[i].gen + 1, state |-> state, kind |-> kind, row |-> row,
                               fresh |-> TRUE, revoked |-> FALSE]]
  BY DEF Allocated
<1>5. [gen |-> rs[i].gen + 1, state |-> state, kind |-> kind, row |-> row,
       fresh |-> TRUE, revoked |-> FALSE] \in ReceiptType
  BY <1>3 DEF ReceiptType
<1> HIDE DEF rs2
<1>6. QED
  BY <1>2, <1>4, <1>5 DEF i, rs2

LEMMA ReceiptTypes ==
  ASSUME Inv
  PROVE  /\ receipts \in [Slots -> ReceiptType] /\ rows \in [Rows -> RowType]
         /\ Now /\ RowsAgree(rows, stored) /\ ReceiptsAgree(receipts, link) /\ Masks(rows, receipts)
  BY DEF Inv, Now, Agree, RowsAgree, ReceiptsAgree

\* A new row, with what a message needs to be in it.
AddsRow(rw2, j, m, ticket, P) ==
  /\ m \in Messages /\ P \in SUBSET Slots /\ ticket \in {"none", "waiting"}
  /\ FreeRows # {} /\ j = Min(FreeRows)
  /\ rw2 = [rows EXCEPT ![j] = NewRow(m, ticket, P)]

LEMMA NewRowFacts ==
  ASSUME Inv, NEW m, NEW P, NEW ticket, NEW j, NEW rw2, AddsRow(rw2, j, m, ticket, P)
  PROVE  /\ j \in Rows /\ rows[j].proofs = {}
         /\ RowsAgree(rw2, stored)
         /\ \A k \in Rows \ {j} : rw2[k] = rows[k]
         /\ rw2[j].proofs = P
<1> DEFINE r == NewRow(m, ticket, P)
<1>0. FreeRows # {} /\ j = Min(FreeRows) /\ FreeRows \in SUBSET Nat
  BY DeliveryAssumption DEF AddsRow, FreeRows
<1>1. j \in FreeRows
  BY <1>0, MinIn
<1>2. j \in Rows /\ rows[j].proofs = {}
  BY <1>1, ReceiptTypes DEF FreeRows, RowsAgree
<1>3. /\ r \in RowType /\ r.phase # "Free" /\ r.msg = m /\ r.phase # "Committed" /\ r.ticket \in {"waiting", "none"}
      /\ (r.phase = "Reaction" => m \in Reactions) /\ ~r.revoked /\ r.proofs = P
  BY DEF AddsRow, NewRow, RowType, Phases, Tickets
<1>e. rw2 = [rows EXCEPT ![j] = r]
  BY DEF AddsRow
<1> HIDE DEF r
<1>4. \A k \in Rows : rw2[k] = IF k = j THEN r ELSE rows[k]
  BY <1>2, <1>e, ReceiptTypes
<1>5. rw2 \in [Rows -> RowType]
  BY <1>2, <1>3, <1>e, ReceiptTypes
<1>6. RowsAgree(rw2, stored)
  <2>1. RowsAgree(rows, stored)
    BY ReceiptTypes
  <2>2. ASSUME NEW k \in Rows
        PROVE  /\ rw2[k].phase = "Free" => rw2[k].ticket = "none" /\ rw2[k].proofs = {}
               /\ rw2[k].phase # "Free" => rw2[k].msg \in Messages
               /\ rw2[k].phase = "Committed" \/ rw2[k].ticket \in {"committed", "duplicate"} => rw2[k].msg \in stored
               /\ rw2[k].phase = "Reaction" => rw2[k].msg \in Reactions
               /\ rw2[k].revoked => rw2[k].phase = "Invisible"
    <3>1. CASE k = j
      <4>1. rw2[k] = r /\ m \in Messages
        BY <1>2, <1>4, <3>1 DEF AddsRow
      <4>2. QED
        BY <1>3, <4>1
    <3>2. CASE k # j
      <4>1. rw2[k] = rows[k]
        BY <1>4, <3>2
      <4>2. QED
        BY <2>1, <4>1 DEF RowsAgree
    <3>3. QED
      BY <3>1, <3>2
  <2>3. QED
    BY <1>5, <2>2 DEF RowsAgree
<1>7. QED
  BY <1>2, <1>3, <1>4, <1>6

LEMMA ProofStates == \A j : ProofState(j) \in {"Eligible", "Reserved"}
  BY DEF ProofState

\* A row that is in delivery takes one proof more.
Gains(rw2, j, i) ==
  /\ RowsAgree(rw2, stored)
  /\ \A k \in Rows : rw2[k].proofs = IF k = j THEN rows[k].proofs \cup {i} ELSE rows[k].proofs
  /\ \A k \in Rows : rows[k].proofs # {} => rw2[k].msg = rows[k].msg

AddsProof(rw2, j, i) ==
  /\ i \in Slots /\ j \in Rows /\ rows[j].phase # "Free"
  /\ rw2 = [rows EXCEPT ![j].proofs = @ \cup {i}]

LEMMA MoreProofs ==
  ASSUME Inv, NEW j, NEW i, NEW rw2, AddsProof(rw2, j, i)
  PROVE  Gains(rw2, j, i)
<1>1. j \in Rows /\ rows[j].phase # "Free" /\ i \in Slots /\ rw2 = [rows EXCEPT ![j].proofs = @ \cup {i}]
  BY DEF AddsProof
<1>2. rw2 \in [Rows -> RowType]
  BY <1>1, ReceiptTypes DEF RowType
<1>3. \A k \in Rows : /\ rw2[k].phase = rows[k].phase /\ rw2[k].msg = rows[k].msg
                      /\ rw2[k].ticket = rows[k].ticket /\ rw2[k].revoked = rows[k].revoked
                      /\ rw2[k].proofs = IF k = j THEN rows[k].proofs \cup {i} ELSE rows[k].proofs
  BY <1>1, ReceiptTypes DEF RowType
<1>4. RowsAgree(rw2, stored)
  BY <1>1, <1>2, <1>3, ReceiptTypes DEF RowsAgree
<1>5. QED
  BY <1>3, <1>4 DEF Gains

LEMMA AcceptCopyTakes ==
  ASSUME Inv, NEW m \in Messages, NEW kind \in {"Packet", "LinkPacket"}, AcceptCopy(m, kind)
  PROVE  \E i \in Slots, j \in Existing(m) :
           /\ Takes(rows, receipts, rows', receipts', link, stored, i, j)
           /\ AddsProof(rows', j, i) /\ Cardinality(rows[j].proofs) < ReceiptsPerRow
           /\ receipts'[i].state = ProofState(j) /\ receipts'[i].kind = kind
<1> PICK j \in Existing(m) :
           LET i == Min(FreeSlots(receipts)) IN
           /\ Cardinality(rows[j].proofs) < ReceiptsPerRow
           /\ receipts' = Allocated(receipts, i, kind, ProofState(j), j)
           /\ rows' = [rows EXCEPT ![j].proofs = @ \cup {i}]
  BY DEF AcceptCopy
<1> DEFINE i == Min(FreeSlots(receipts))
<1>1. /\ FreeSlots(receipts) # {} /\ kind \in Kinds /\ ProofState(j) \in States /\ j \in Rows \cup {NoRow}
      /\ (OnLink(kind) => link # "down") /\ j \in Rows
  BY ProofStates DEF AcceptCopy, MaySeed, Kinds, States, Existing
<1>2. /\ i \in Slots /\ receipts[i].state = "Free"
      /\ receipts' \in [Slots -> ReceiptType] /\ \A u \in Slots \ {i} : receipts'[u] = receipts[u]
      /\ receipts'[i].gen = receipts[i].gen + 1 /\ receipts'[i].state = ProofState(j)
      /\ receipts'[i].kind = kind /\ receipts'[i].row = j /\ ~receipts'[i].revoked
  BY <1>1, AllocatedFacts, ReceiptTypes
<1> HIDE DEF i
<1>3. rows' = [rows EXCEPT ![j].proofs = @ \cup {i}]
  BY DEF i
<1>a. AddsProof(rows', j, i)
  BY <1>1, <1>2, <1>3 DEF AddsProof, Existing
<1>4. Gains(rows', j, i)
  BY <1>a, MoreProofs
<1>5. j # NoRow /\ kind \notin {"Control", "Reservation"} /\ receipts'[i].state # "Free"
  BY <1>1, <1>2, ProofStates, DeliveryAssumption
<1>6. /\ j = NoRow <=> receipts'[i].kind \in {"Control", "Reservation"}
      /\ OnLink(receipts'[i].kind) => link # "down"
  BY <1>1, <1>2, <1>5
<1>7. Takes(rows, receipts, rows', receipts', link, stored, i, j)
  BY <1>1, <1>2, <1>4, <1>5, <1>6 DEF Takes, Gains
<1>8. QED
  BY <1>2, <1>7, <1>a

LEMMA AcceptCopyStep ==
  ASSUME Inv, NEW m \in Messages, NEW kind \in {"Packet", "LinkPacket"}, AcceptCopy(m, kind)
  PROVE  Inv' /\ EventOK'
<1>1. PICK i \in Slots, j \in Existing(m) : Takes(rows, receipts, rows', receipts', link, stored, i, j)
  BY AcceptCopyTakes
<1>2. Agree(rows', receipts', link, stored, Frames)
  BY <1>1, ReceiptTypes, TakeKeeps DEF Now
<1>3. QED
  BY <1>2, TableStep DEF AcceptCopy, Inv, Types, InboundOK

\* A first copy takes a receipt and a row, or the store refuses the message and
\* the receipt has skipped a generation.
LEMMA AcceptNewCases ==
  ASSUME Inv, NEW m \in Messages, NEW kind \in {"Packet", "LinkPacket"}, AcceptNew(m, kind)
  PROVE  \E i \in Slots :
           \/ \E j \in Rows :
                LET ticket == IF m \in Reactions THEN "none" ELSE "waiting" IN
                /\ Takes(rows, receipts, rows', receipts', link, stored, i, j)
                /\ AddsRow(rows', j, m, ticket, {i})
                /\ receipts'[i].state = IF m \in Reactions THEN "Eligible" ELSE "Reserved"
                /\ receipts'[i].kind = kind
           \/ /\ receipts[i].state = "Free" /\ receipts[i].gen + 1 \in 0 .. MaxGeneration
              /\ receipts' = [receipts EXCEPT ![i].gen = @ + 1] /\ UNCHANGED rows
<1> DEFINE i == Min(FreeSlots(receipts))
           j == Min(FreeRows)
           state == IF m \in Reactions THEN "Eligible" ELSE "Reserved"
           ticket == IF m \in Reactions THEN "none" ELSE "waiting"
<1>1. /\ FreeSlots(receipts) # {} /\ FreeRows # {} /\ kind \in Kinds /\ state \in States \ {"Free"}
      /\ ticket \in {"none", "waiting"} /\ (OnLink(kind) => link # "down")
  BY DEF AcceptNew, MaySeed, Kinds, States
<1>2. i \in Slots /\ receipts[i].state = "Free" /\ receipts[i].gen + 1 \in 0 .. MaxGeneration
  <2>1. i \in FreeSlots(receipts)
    BY <1>1, MinIn, DeliveryAssumption DEF FreeSlots
  <2>2. i \in Slots /\ receipts[i].state = "Free" /\ receipts[i].gen < MaxGeneration /\ receipts[i].gen \in 0 .. MaxGeneration
    BY <2>1, ReceiptTypes DEF FreeSlots, ReceiptType
  <2>3. QED
    BY <2>2, DeliveryAssumption
<1>3. CASE receipts' = Allocated(receipts, i, kind, state, j) /\ rows' = [rows EXCEPT ![j] = NewRow(m, ticket, {i})]
  <2>a. AddsRow(rows', j, m, ticket, {i})
    BY <1>1, <1>2, <1>3 DEF AddsRow
  <2>1. /\ j \in Rows /\ rows[j].proofs = {} /\ RowsAgree(rows', stored)
        /\ \A k \in Rows \ {j} : rows'[k] = rows[k]
        /\ rows'[j].proofs = {i}
    BY <2>a, NewRowFacts
  <2>2. /\ receipts' \in [Slots -> ReceiptType] /\ \A u \in Slots \ {i} : receipts'[u] = receipts[u]
        /\ receipts'[i].gen = receipts[i].gen + 1 /\ receipts'[i].state = state
        /\ receipts'[i].kind = kind /\ receipts'[i].row = j /\ ~receipts'[i].revoked
    BY <1>1, <1>3, <2>1, AllocatedFacts, ReceiptTypes
  <2>3. j # NoRow /\ kind \notin {"Control", "Reservation"} /\ state # "Free"
    BY <1>1, <2>1, DeliveryAssumption
  <2> HIDE DEF i, j, state, ticket
  <2>4. /\ \A k \in Rows : rows'[k].proofs = IF k = j THEN rows[k].proofs \cup {i} ELSE rows[k].proofs
        /\ \A k \in Rows : rows[k].proofs # {} => rows'[k].msg = rows[k].msg
    BY <2>1
  <2>5. /\ j = NoRow <=> receipts'[i].kind \in {"Control", "Reservation"}
        /\ OnLink(receipts'[i].kind) => link # "down"
        /\ receipts'[i].state # "Free"
    BY <1>1, <2>2, <2>3
  <2>6. Takes(rows, receipts, rows', receipts', link, stored, i, j)
    BY <1>1, <1>2, <2>1, <2>2, <2>3, <2>4, <2>5 DEF Takes
  <2>7. /\ Takes(rows, receipts, rows', receipts', link, stored, i, j) /\ AddsRow(rows', j, m, ticket, {i})
        /\ receipts'[i].state = state /\ receipts'[i].kind = kind
    BY <2>2, <2>6, <2>a
  <2>8. QED
    BY <1>2, <2>1, <2>7 DEF state, ticket
<1>4. CASE receipts' = [receipts EXCEPT ![i].gen = @ + 1] /\ UNCHANGED rows
  <2> HIDE DEF i
  <2>1. QED
    BY <1>2, <1>4
<1>5. QED
  BY <1>3, <1>4 DEF AcceptNew

LEMMA AcceptNewStep ==
  ASSUME Inv, NEW m \in Messages, NEW kind \in {"Packet", "LinkPacket"}, AcceptNew(m, kind)
  PROVE  Inv' /\ EventOK'
<1>1. ASSUME NEW i, NEW j, Takes(rows, receipts, rows', receipts', link, stored, i, j)
      PROVE  Inv' /\ EventOK'
  <2>1. Agree(rows', receipts', link, stored, Frames)
    BY <1>1, ReceiptTypes, TakeKeeps DEF Now
  <2>2. QED
    BY <2>1, TableStep DEF AcceptNew, Inv, Types, InboundOK
<1>2. ASSUME NEW i \in Slots, receipts[i].state = "Free", receipts[i].gen + 1 \in 0 .. MaxGeneration,
             receipts' = [receipts EXCEPT ![i].gen = @ + 1], UNCHANGED rows
      PROVE  Inv' /\ EventOK'
  <2>1. receipts' \in [Slots -> ReceiptType]
    BY <1>2, ReceiptTypes DEF ReceiptType
  <2>2. \A u \in Slots :
          /\ receipts'[u].state = receipts[u].state /\ receipts'[u].row = receipts[u].row
          /\ receipts'[u].kind = receipts[u].kind /\ receipts'[u].revoked = receipts[u].revoked
          /\ receipts'[u].gen = receipts[u].gen \/ (receipts[u].state = "Free" /\ receipts'[u].gen = receipts[u].gen + 1)
    <3>1. TAKE u \in Slots
    <3>2. receipts[u] \in ReceiptType
      BY ReceiptTypes
    <3>3. CASE u = i
      <4>1. receipts'[u] = [receipts[u] EXCEPT !.gen = receipts[u].gen + 1]
        BY <1>2, <3>3, ReceiptTypes
      <4>2. QED
        BY <1>2, <3>2, <3>3, <4>1 DEF ReceiptType
    <3>4. CASE u # i
      <4>1. receipts'[u] = receipts[u]
        BY <1>2, <3>4, ReceiptTypes
      <4>2. QED
        BY <4>1
    <3>5. QED
      BY <3>3, <3>4
  <2>3. Agree(rows, receipts', link, stored, Frames)
    BY <2>1, <2>2, ReceiptTypes, ReceiptsChangeKeeps DEF Now
  <2>4. QED
    BY <1>2, <2>3, TableStep DEF AcceptNew, Inv, Types, InboundOK
<1>3. QED
  BY <1>1, <1>2, AcceptNewCases

LEMMA AcceptUnprovedStep ==
  ASSUME Inv, NEW m \in Messages, AcceptUnproved(m)
  PROVE  Inv' /\ EventOK'
<1> DEFINE j == Min(FreeRows)
<1>1. FreeRows # {} /\ {} \in SUBSET Slots
  BY DEF AcceptUnproved
<1>2. rows' = [rows EXCEPT ![j] = NewRow(m, "waiting", {})] /\ UNCHANGED receipts
  BY DEF AcceptUnproved
<1>3. /\ j \in Rows /\ rows[j].proofs = {} /\ RowsAgree(rows', stored)
      /\ \A k \in Rows \ {j} : rows'[k] = rows[k]
      /\ rows'[j].proofs = {}
  <2>1. AddsRow(rows', j, m, "waiting", {})
    BY <1>1, <1>2 DEF AddsRow
  <2>2. QED
    BY <2>1, NewRowFacts
<1> HIDE DEF j
<1>4. \A k \in Rows : rows'[k].proofs = rows[k].proofs /\ (rows[k].proofs # {} => rows'[k].msg = rows[k].msg)
  BY <1>3
<1>5. Agree(rows', receipts, link, stored, Frames)
  BY <1>3, <1>4, ReceiptTypes, RowsChangeKeeps DEF Now
<1>6. QED
  BY <1>2, <1>5, TableStep DEF AcceptUnproved, Inv, Types, InboundOK

\* A control frame takes a receipt that has no row.
LEMMA ControlTakes ==
  ASSUME Inv, NEW rs, Agree(rows, rs, link, stored, Frames), FreeSlots(rs) # {}, MaySeed("Control")
  PROVE  LET i == Min(FreeSlots(rs))
             rs2 == Allocated(rs, i, "Control", "Eligible", NoRow)
         IN  Takes(rows, rs, rows, rs2, link, stored, i, NoRow) /\ rs2[i].state = "Eligible"
<1> DEFINE i == Min(FreeSlots(rs))
           rs2 == Allocated(rs, i, "Control", "Eligible", NoRow)
<1>1. "Control" \in Kinds /\ "Eligible" \in States /\ NoRow \notin Rows /\ link # "down" /\ rs \in [Slots -> ReceiptType]
  BY DeliveryAssumption DEF Kinds, States, MaySeed, OnLink, Agree, ReceiptsAgree
<1>2. /\ i \in Slots /\ rs[i].state = "Free"
      /\ rs2 \in [Slots -> ReceiptType] /\ \A u \in Slots \ {i} : rs2[u] = rs[u]
      /\ rs2[i].gen = rs[i].gen + 1 /\ rs2[i].state = "Eligible" /\ rs2[i].kind = "Control"
      /\ rs2[i].row = NoRow /\ ~rs2[i].revoked
  BY <1>1, AllocatedFacts
<1> HIDE DEF i, rs2
<1>3. /\ \A k \in Rows : rows[k].proofs = IF k = NoRow THEN rows[k].proofs \cup {i} ELSE rows[k].proofs
      /\ RowsAgree(rows, stored)
  BY <1>1, ReceiptTypes
<1>4. Takes(rows, rs, rows, rs2, link, stored, i, NoRow)
  BY <1>1, <1>2, <1>3, ReceiptTypes DEF Takes
<1>5. QED
  BY <1>2, <1>4 DEF i, rs2

LEMMA ControlKeeps ==
  ASSUME Inv, NEW rs, Agree(rows, rs, link, stored, Frames), FreeSlots(rs) # {}, MaySeed("Control")
  PROVE  Agree(rows, Allocated(rs, Min(FreeSlots(rs)), "Control", "Eligible", NoRow), link, stored, Frames)
  BY ControlTakes, TakeKeeps

LEMMA ReservationTakes ==
  ASSUME Inv, ReserveResource
  PROVE  \E i \in Slots :
           /\ Takes(rows, receipts, rows, receipts', link, stored, i, NoRow) /\ UNCHANGED rows
           /\ receipts'[i].state = "Reserved" /\ receipts'[i].kind = "Reservation"
           /\ receipts[i].gen \in 0 .. MaxGeneration
           /\ inbound' = [phase |-> "active", slot |-> i, gen |-> receipts[i].gen + 1]
<1> DEFINE i == Min(FreeSlots(receipts))
<1>1. /\ "Reservation" \in Kinds /\ "Reserved" \in States /\ NoRow \notin Rows /\ link # "down"
      /\ FreeSlots(receipts) # {}
  BY DeliveryAssumption DEF Kinds, States, MaySeed, OnLink, ReserveResource
<1>2. /\ receipts' = Allocated(receipts, i, "Reservation", "Reserved", NoRow) /\ UNCHANGED rows
      /\ inbound' = [phase |-> "active", slot |-> i, gen |-> receipts[i].gen + 1]
  BY DEF ReserveResource
<1>3. /\ i \in Slots /\ receipts[i].state = "Free"
      /\ receipts' \in [Slots -> ReceiptType] /\ \A u \in Slots \ {i} : receipts'[u] = receipts[u]
      /\ receipts'[i].gen = receipts[i].gen + 1 /\ receipts'[i].state = "Reserved"
      /\ receipts'[i].kind = "Reservation" /\ receipts'[i].row = NoRow /\ ~receipts'[i].revoked
  BY <1>1, <1>2, AllocatedFacts, ReceiptTypes
<1>4. receipts[i].gen \in 0 .. MaxGeneration
  BY <1>3, ReceiptTypes DEF ReceiptType
<1> HIDE DEF i
<1>5. /\ \A k \in Rows : rows[k].proofs = IF k = NoRow THEN rows[k].proofs \cup {i} ELSE rows[k].proofs
      /\ RowsAgree(rows, stored)
  BY <1>1, ReceiptTypes
<1>6. Takes(rows, receipts, rows, receipts', link, stored, i, NoRow)
  BY <1>1, <1>3, <1>5 DEF Takes
<1>7. QED
  BY <1>2, <1>3, <1>4, <1>6

LEMMA ReserveResourceStep == Inv /\ ReserveResource => Inv' /\ EventOK'
<1> SUFFICES ASSUME Inv, ReserveResource PROVE Inv' /\ EventOK'
  OBVIOUS
<1>1. PICK i \in Slots :
        /\ Takes(rows, receipts, rows, receipts', link, stored, i, NoRow) /\ UNCHANGED rows
        /\ receipts[i].gen \in 0 .. MaxGeneration
        /\ inbound' = [phase |-> "active", slot |-> i, gen |-> receipts[i].gen + 1]
  BY ReservationTakes
<1>2. InboundOK'
  <2>1. i \in Nat /\ receipts[i].gen + 1 \in Nat
    BY <1>1, DeliveryAssumption
  <2>2. QED
    BY <1>1, <2>1 DEF InboundOK
<1>3. Agree(rows, receipts', link, stored, Frames)
  BY <1>1, ReceiptTypes, TakeKeeps DEF Now
<1>4. QED
  BY <1>1, <1>2, <1>3, TableStep DEF ReserveResource

\* closeInbound: the rejection takes the place of the reservation, or a receipt
\* of its own, or waits.
LEMMA CloseCancelledCases ==
  ASSUME Inv, inbound.phase # "none", NEW rs, Agree(rows, rs, link, stored, Frames), CloseCancelled(rs)
  PROVE  /\ InboundOK'
         /\ \/ receipts' = rs
            \/ \E i \in Slots : /\ Takes(rows, rs, rows, receipts', link, stored, i, NoRow)
                                /\ receipts'[i].state = "Eligible"
                                /\ Cardinality(Controls(rs)) < MaxControls
<1> DEFINE i == inbound.slot
           reserved == rs[i].state # "Free" /\ rs[i].gen = inbound.gen
           quota == MaySeed("Control") /\ Cardinality(Controls(rs)) < MaxControls
<1>1. /\ InboundOK /\ i \in Slots /\ rs \in [Slots -> ReceiptType] /\ RowsAgree(rows, stored)
      /\ ReceiptsAgree(rs, link) /\ NoRow \notin Rows
  BY DeliveryAssumption DEF Inv, Types, InboundOK, Agree, ReceiptsAgree
<1>2. inbound' = NoInbound => InboundOK'
  BY DEF NoInbound, InboundOK
<1>3. CASE /\ reserved /\ quota /\ rs[i].kind = "Reservation"
           /\ receipts' = [rs EXCEPT ![i].kind = "Control", ![i].state = "Eligible", ![i].fresh = TRUE]
           /\ inbound' = NoInbound
  <2>1. /\ rs[i] \in ReceiptType /\ rs[i].state # "Free" /\ rs[i].kind = "Reservation" /\ rs[i].row = NoRow
        /\ ~rs[i].revoked /\ link # "down"
    BY <1>1, <1>3 DEF ReceiptsAgree, MaySeed, OnLink
  <2> HIDE DEF i
  <2>2. receipts' = [rs EXCEPT ![i] = [rs[i] EXCEPT !.kind = "Control", !.state = "Eligible", !.fresh = TRUE]]
    BY <1>1, <1>3
  <2>3. /\ receipts' \in [Slots -> ReceiptType] /\ \A u \in Slots \ {i} : receipts'[u] = rs[u]
        /\ receipts'[i].state = "Eligible" /\ receipts'[i].kind = "Control" /\ receipts'[i].row = NoRow
        /\ ~receipts'[i].revoked /\ receipts'[i].gen = rs[i].gen
    BY <1>1, <2>1, <2>2 DEF ReceiptType, States, Kinds
  <2>4. Takes(rows, rs, rows, receipts', link, stored, i, NoRow)
    BY <1>1, <2>1, <2>3 DEF Takes
  <2>5. QED
    BY <1>1, <1>2, <1>3, <2>3, <2>4
<1>4. CASE /\ ~reserved /\ quota /\ FreeSlots(rs) # {}
           /\ receipts' = Allocated(rs, Min(FreeSlots(rs)), "Control", "Eligible", NoRow)
           /\ inbound' = NoInbound
  <2>1. /\ Takes(rows, rs, rows, receipts', link, stored, Min(FreeSlots(rs)), NoRow)
        /\ receipts'[Min(FreeSlots(rs))].state = "Eligible"
    BY <1>4, ControlTakes
  <2>2. Min(FreeSlots(rs)) \in Slots
    BY <2>1 DEF Takes
  <2>3. QED
    BY <1>2, <1>4, <2>1, <2>2
<1>5. CASE receipts' = rs /\ inbound' = [inbound EXCEPT !.phase = "cancel"]
  BY <1>1, <1>5 DEF InboundOK
<1>6. QED
  BY <1>3, <1>4, <1>5 DEF CloseCancelled

LEMMA CloseCancelledKeeps ==
  ASSUME Inv, inbound.phase # "none", NEW rs, Agree(rows, rs, link, stored, Frames), CloseCancelled(rs)
  PROVE  Agree(rows, receipts', link, stored, Frames) /\ InboundOK'
  BY CloseCancelledCases, TakeKeeps

LEMMA RefuseSecondStep == Inv /\ RefuseSecondTransfer => Inv' /\ EventOK'
<1> SUFFICES ASSUME Inv, RefuseSecondTransfer PROVE Inv' /\ EventOK'
  OBVIOUS
<1>1. Agree(rows, receipts', link, stored, Frames)
  BY ReceiptTypes, ControlKeeps DEF Now, RefuseSecondTransfer
<1>2. InboundOK'
  BY DEF RefuseSecondTransfer, Inv, Types, InboundOK
<1>3. QED
  BY <1>1, <1>2, TableStep DEF RefuseSecondTransfer

\* A reservation has no row, so that its end leaves the rows alone.
LEMMA NoRowKeeps ==
  ASSUME Inv, NEW i \in Slots, receipts[i].row = NoRow
  PROVE  Agree(rows, RetiredFrom(receipts, {i}), link, stored, Frames)
<1>1. \A j \in Rows : i \notin rows[j].proofs
  BY ReceiptTypes, DeliveryAssumption DEF Masks
<1>2. RowsAgree(rows, stored) /\ Agree(Without(rows, {i}), RetiredFrom(receipts, {i}), link, stored, Frames)
  BY ReceiptTypes, RetireKeeps DEF Now
<1>3. ASSUME NEW j \in Rows
      PROVE  /\ rows[j].proofs = Without(rows, {i})[j].proofs
             /\ Without(rows, {i})[j].proofs # {} => rows[j].msg = Without(rows, {i})[j].msg
  <2>1. rows[j].proofs \ {i} = rows[j].proofs /\ rows[j] \in RowType
    BY <1>1, ReceiptTypes
  <2>2. \/ Without(rows, {i})[j] = FreeRow /\ rows[j].proofs = {}
        \/ Without(rows, {i})[j] = [rows[j] EXCEPT !.proofs = rows[j].proofs]
    BY <2>1 DEF Without
  <2>3. QED
    BY <2>1, <2>2, FreshTypes DEF RowType
<1>4. QED
  BY <1>2, <1>3, RowsChangeKeeps

LEMMA RefuseResourceStep == Inv /\ RefuseResource => Inv' /\ EventOK'
<1> SUFFICES ASSUME Inv, RefuseResource PROVE Inv' /\ EventOK'
  OBVIOUS
<1>1. inbound.phase # "none" /\ inbound.slot \in Slots
  BY DEF RefuseResource, Assembled, Inv, Types, InboundOK
<1>2. Agree(rows, receipts', link, stored, Frames) /\ InboundOK'
  <2>1. CASE CloseCancelled(receipts)
    BY <1>1, <2>1, CloseCancelledKeeps, ReceiptTypes DEF Now
  <2>2. CASE ReservationLive /\ CloseCancelled(RetiredFrom(receipts, {inbound.slot}))
    <3>1. receipts[inbound.slot].row = NoRow
      BY <1>1, <2>2, ReceiptTypes DEF ReservationLive, Held, ReceiptsAgree
    <3>2. Agree(rows, RetiredFrom(receipts, {inbound.slot}), link, stored, Frames)
      BY <1>1, <3>1, NoRowKeeps
    <3>3. QED
      BY <1>1, <2>2, <3>2, CloseCancelledKeeps
  <2>3. QED
    BY <2>1, <2>2 DEF RefuseResource
<1>3. QED
  BY <1>2, TableStep DEF RefuseResource

LEMMA RetireStep ==
  ASSUME Inv, NEW gone, Retire(gone)
  PROVE  Agree(rows', receipts', link, stored, Frames)
  BY ReceiptTypes, RetireKeeps DEF Now, Retire

LEMMA ResourceLoopStep == Inv /\ ResourceLoop => Inv' /\ EventOK'
<1> SUFFICES ASSUME Inv, ResourceLoop PROVE Inv' /\ EventOK'
  OBVIOUS
<1>1. inbound.phase # "none"
  BY DEF ResourceLoop
<1>2. CASE CloseCancelled(receipts) /\ UNCHANGED rows
  BY <1>1, <1>2, CloseCancelledKeeps, ReceiptTypes, TableStep DEF Now, ResourceLoop
<1>3. CASE /\ Retire(IF Held(inbound.slot, inbound.gen) THEN {inbound.slot} ELSE {})
           /\ inbound' = NoInbound
  <2>1. Agree(rows', receipts', link, stored, Frames)
    BY <1>3, RetireStep
  <2>2. InboundOK'
    BY <1>3 DEF NoInbound, InboundOK
  <2>3. QED
    BY <2>1, <2>2, TableStep DEF ResourceLoop
<1>4. QED
  BY <1>2, <1>3 DEF ResourceLoop

LEMMA CancelResourceStep ==
  ASSUME Inv, NEW i \in Slots, CancelResource(i)
  PROVE  Inv' /\ EventOK'
<1>1. Agree(rows', receipts', link, stored, Frames)
  BY RetireStep DEF CancelResource
<1>2. InboundOK'
  BY DEF CancelResource, NoInbound, InboundOK, Inv, Types
<1>3. QED
  BY <1>1, <1>2, TableStep DEF CancelResource

\* The reservation of a transfer becomes the proof of its message.
Moves(rs2, i, state, j) ==
  rs2 = [receipts EXCEPT ![i].kind = "Resource", ![i].state = state, ![i].row = j]

LEMMA MovedTakes ==
  ASSUME Inv, NEW i \in Slots, receipts[i].state # "Free", receipts[i].kind = "Reservation", link # "down",
         NEW state \in {"Eligible", "Reserved"}, NEW j \in Rows, NEW rw2, Gains(rw2, j, i),
         NEW rs2, Moves(rs2, i, state, j)
  PROVE  Takes(rows, receipts, rw2, rs2, link, stored, i, j) /\ rs2[i].state = state /\ rs2[i].kind = "Resource"
<1>1. receipts[i] \in ReceiptType /\ ~receipts[i].revoked /\ j # NoRow
  BY ReceiptTypes, DeliveryAssumption DEF ReceiptsAgree
<1>2. rs2 = [receipts EXCEPT ![i] = [receipts[i] EXCEPT !.kind = "Resource", !.state = state, !.row = j]]
  BY ReceiptTypes DEF Moves
<1>3. /\ rs2 \in [Slots -> ReceiptType] /\ \A u \in Slots \ {i} : rs2[u] = receipts[u]
      /\ rs2[i].state # "Free" /\ rs2[i].kind = "Resource" /\ rs2[i].row = j /\ rs2[i].state = state
      /\ ~rs2[i].revoked /\ rs2[i].gen = receipts[i].gen
  BY <1>1, <1>2, ReceiptTypes DEF ReceiptType, States, Kinds
<1>4. Takes(rows, receipts, rw2, rs2, link, stored, i, j)
  BY <1>1, <1>3 DEF Takes, Gains
<1>5. QED
  BY <1>3, <1>4

LEMMA CompleteResourceTakes ==
  ASSUME Inv, NEW m \in Messages, CompleteResource(m)
  PROVE  \E i \in Slots, j \in Rows :
           /\ Takes(rows, receipts, rows', receipts', link, stored, i, j) /\ receipts'[i].kind = "Resource"
           /\ \/ /\ j \in Existing(m) /\ AddsProof(rows', j, i) /\ Cardinality(rows[j].proofs) < ReceiptsPerRow
                 /\ receipts'[i].state = ProofState(j)
              \/ /\ Existing(m) = {}
                 /\ AddsRow(rows', j, m, IF m \in Reactions THEN "none" ELSE "waiting", {i})
                 /\ receipts'[i].state = IF m \in Reactions THEN "Eligible" ELSE "Reserved"
<1> DEFINE i == inbound.slot
<1>1. /\ i \in Slots /\ receipts[i].state # "Free" /\ receipts[i].kind = "Reservation" /\ link # "down"
  BY DEF CompleteResource, Assembled, ReservationLive, Held, Inv, Types, InboundOK
<1>2. \/ \E j \in Existing(m) : /\ Cardinality(rows[j].proofs) < ReceiptsPerRow
                               /\ Moves(receipts', i, ProofState(j), j)
                               /\ rows' = [rows EXCEPT ![j].proofs = @ \cup {i}]
      \/ /\ Existing(m) = {} /\ FreeRows # {}
         /\ Moves(receipts', i, IF m \in Reactions THEN "Eligible" ELSE "Reserved", Min(FreeRows))
         /\ rows' = [rows EXCEPT ![Min(FreeRows)] = NewRow(m, IF m \in Reactions THEN "none" ELSE "waiting", {i})]
  BY DEF CompleteResource, Moves
<1> HIDE DEF i
<1>3. ASSUME NEW j \in Existing(m), Cardinality(rows[j].proofs) < ReceiptsPerRow,
             Moves(receipts', i, ProofState(j), j), rows' = [rows EXCEPT ![j].proofs = @ \cup {i}]
      PROVE  /\ j \in Rows /\ Takes(rows, receipts, rows', receipts', link, stored, i, j)
             /\ AddsProof(rows', j, i) /\ receipts'[i].kind = "Resource" /\ receipts'[i].state = ProofState(j)
  <2>1. j \in Rows /\ AddsProof(rows', j, i) /\ ProofState(j) \in {"Eligible", "Reserved"}
    BY <1>1, <1>3, ProofStates DEF AddsProof, Existing
  <2>2. Gains(rows', j, i)
    BY <2>1, MoreProofs
  <2>3. QED
    BY <1>1, <1>3, <2>1, <2>2, MovedTakes
<1>4. ASSUME NEW j, j = Min(FreeRows), NEW state \in {"Eligible", "Reserved"}, NEW ticket \in {"none", "waiting"},
             FreeRows # {}, Moves(receipts', i, state, j), rows' = [rows EXCEPT ![j] = NewRow(m, ticket, {i})]
      PROVE  /\ j \in Rows /\ Takes(rows, receipts, rows', receipts', link, stored, i, j)
             /\ AddsRow(rows', j, m, ticket, {i}) /\ receipts'[i].kind = "Resource" /\ receipts'[i].state = state
  <2>1. AddsRow(rows', j, m, ticket, {i})
    BY <1>1, <1>4 DEF AddsRow
  <2>2. /\ j \in Rows /\ rows[j].proofs = {} /\ RowsAgree(rows', stored)
        /\ \A k \in Rows \ {j} : rows'[k] = rows[k]
        /\ rows'[j].proofs = {i}
    BY <2>1, NewRowFacts
  <2>3. Gains(rows', j, i)
    BY <2>2 DEF Gains
  <2>4. QED
    BY <1>1, <1>4, <2>1, <2>2, <2>3, MovedTakes
<1>5. CASE \E j \in Existing(m) : /\ Cardinality(rows[j].proofs) < ReceiptsPerRow
                                /\ Moves(receipts', i, ProofState(j), j)
                                /\ rows' = [rows EXCEPT ![j].proofs = @ \cup {i}]
  BY <1>1, <1>3, <1>5
<1>6. CASE /\ Existing(m) = {} /\ FreeRows # {}
           /\ Moves(receipts', i, IF m \in Reactions THEN "Eligible" ELSE "Reserved", Min(FreeRows))
           /\ rows' = [rows EXCEPT ![Min(FreeRows)] = NewRow(m, IF m \in Reactions THEN "none" ELSE "waiting", {i})]
  BY <1>1, <1>4, <1>6
<1>7. QED
  BY <1>2, <1>5, <1>6

LEMMA CompleteResourceStep ==
  ASSUME Inv, NEW m \in Messages, CompleteResource(m)
  PROVE  Inv' /\ EventOK'
<1>1. PICK i \in Slots, j \in Rows : Takes(rows, receipts, rows', receipts', link, stored, i, j)
  BY CompleteResourceTakes
<1>2. Agree(rows', receipts', link, stored, Frames)
  BY <1>1, ReceiptTypes, TakeKeeps DEF Now
<1>3. InboundOK'
  BY DEF CompleteResource, NoInbound, InboundOK
<1>4. QED
  BY <1>2, <1>3, TableStep DEF CompleteResource

LEMMA ExpireStep ==
  ASSUME Inv, NEW i \in Slots, Expire(i)
  PROVE  Inv' /\ EventOK'
<1>1. receipts' = [receipts EXCEPT ![i].fresh = FALSE]
  BY DEF Expire
<1>2. \A u \in Slots : receipts[u] \in ReceiptType /\ receipts'[u] = [receipts[u] EXCEPT !.fresh = IF u = i THEN FALSE ELSE @]
  <2>1. TAKE u \in Slots
  <2>2. receipts[u] \in ReceiptType
    BY ReceiptTypes
  <2>3. receipts[u] = [receipts[u] EXCEPT !.fresh = receipts[u].fresh]
    BY <2>2 DEF ReceiptType
  <2>4. QED
    BY <1>1, <2>2, <2>3, ReceiptTypes
<1>3. \A u \in Slots : /\ receipts'[u] \in ReceiptType
                       /\ receipts'[u].state = receipts[u].state /\ receipts'[u].row = receipts[u].row
                       /\ receipts'[u].kind = receipts[u].kind /\ receipts'[u].revoked = receipts[u].revoked
                       /\ receipts'[u].gen = receipts[u].gen
  BY <1>2 DEF ReceiptType
<1>4. receipts' \in [Slots -> ReceiptType]
  BY <1>1, <1>3, ReceiptTypes
<1>5. Agree(rows, receipts', link, stored, Frames)
  BY <1>3, <1>4, ReceiptTypes, ReceiptsChangeKeeps DEF Now
<1>6. InboundOK'
  BY DEF Expire, Inv, Types, InboundOK
<1>7. QED
  BY <1>5, <1>6, TableStep DEF Expire
-----------------------------------------------------------------------------
(* The storage worker and poll.                                             *)

LEMMA StoreExecuteStep ==
  ASSUME Inv, NEW j \in Rows, StoreExecute(j)
  PROVE  Inv' /\ EventOK'
<1>1. /\ rows[j] \in RowType /\ rows[j].ticket = "waiting" /\ rows[j].phase # "Free" /\ rows[j].msg \in Messages
  BY ReceiptTypes DEF StoreExecute, RowsAgree
<1>2. PICK ticket \in {"committed", "duplicate", "failed"} :
        /\ rows' = [rows EXCEPT ![j].ticket = ticket]
        /\ stored' = stored \cup {rows[j].msg} \/ (stored' = stored /\ ticket = "failed")
  BY DEF StoreExecute
<1>3. \A k \in Rows : /\ rows[k] \in RowType /\ rows'[k] \in RowType
                      /\ rows'[k].phase = rows[k].phase /\ rows'[k].msg = rows[k].msg
                      /\ rows'[k].revoked = rows[k].revoked /\ rows'[k].proofs = rows[k].proofs
                      /\ rows'[k].ticket = IF k = j THEN ticket ELSE rows[k].ticket
  BY <1>1, <1>2, ReceiptTypes DEF RowType, Tickets
<1>4. rows' \in [Rows -> RowType]
  BY <1>2, <1>3, ReceiptTypes
<1>5. RowsAgree(rows', stored')
  <2>1. RowsAgree(rows, stored)
    BY ReceiptTypes
  <2>2. ASSUME NEW k \in Rows
        PROVE  /\ rows'[k].phase = "Free" => rows'[k].ticket = "none" /\ rows'[k].proofs = {}
               /\ rows'[k].phase # "Free" => rows'[k].msg \in Messages
               /\ rows'[k].phase = "Committed" \/ rows'[k].ticket \in {"committed", "duplicate"} => rows'[k].msg \in stored'
               /\ rows'[k].phase = "Reaction" => rows'[k].msg \in Reactions
               /\ rows'[k].revoked => rows'[k].phase = "Invisible"
    <3>1. CASE k = j
      BY <1>1, <1>2, <1>3, <2>1, <3>1 DEF RowsAgree
    <3>2. CASE k # j
      BY <1>2, <1>3, <2>1, <3>2 DEF RowsAgree
    <3>3. QED
      BY <3>1, <3>2
  <2>3. QED
    BY <1>4, <2>2 DEF RowsAgree
<1>6. Agree(rows', receipts, link, stored', Frames)
  BY <1>3, <1>5, ReceiptTypes, RowsChangeKeeps DEF Now
<1>7. QueueType' /\ Frames' = Frames
  BY QueueSame DEF StoreExecute
<1>8. Types'
  BY <1>1, <1>2, <1>7 DEF StoreExecute, Inv, Types, InboundOK, QueueType
<1>9. receipts' = receipts /\ link' = link /\ event' = Silent
  BY DEF StoreExecute
<1>10. QED
  BY <1>6, <1>7, <1>8, <1>9, SilentOK DEF Inv

LEMMA AnsweredKeeps ==
  ASSUME Inv, NEW j \in Rows, rows[j].phase # "Free", NEW phase \in {"Committed", "Invisible"},
         phase = "Committed" => rows[j].msg \in stored /\ ~rows[j].revoked
  PROVE  Agree([rows EXCEPT ![j].ticket = "none", ![j].phase = phase], receipts, link, stored, Frames)
<1> DEFINE rw2 == [rows EXCEPT ![j].ticket = "none", ![j].phase = phase]
<1>1. RowsAgree(rows, stored) /\ \A k \in Rows : rows[k] \in RowType
  BY ReceiptTypes
<1>2. rw2 = [rows EXCEPT ![j] = [rows[j] EXCEPT !.ticket = "none", !.phase = phase]]
  BY ReceiptTypes
<1> HIDE DEF rw2
<1>3. /\ rw2[j] \in RowType /\ rw2[j].ticket = "none" /\ rw2[j].phase = phase /\ rw2[j].msg = rows[j].msg
      /\ rw2[j].proofs = rows[j].proofs /\ rw2[j].revoked = rows[j].revoked
  BY <1>1, <1>2, ReceiptTypes DEF RowType, Tickets, Phases
<1>4. \A k \in Rows \ {j} : rw2[k] = rows[k]
  BY <1>2, ReceiptTypes
<1>5. rw2 \in [Rows -> RowType]
  BY <1>2, <1>3, <1>4, ReceiptTypes
<1>6. RowsAgree(rw2, stored)
  <2>1. ASSUME NEW k \in Rows
        PROVE  /\ rw2[k].phase = "Free" => rw2[k].ticket = "none" /\ rw2[k].proofs = {}
               /\ rw2[k].phase # "Free" => rw2[k].msg \in Messages
               /\ rw2[k].phase = "Committed" \/ rw2[k].ticket \in {"committed", "duplicate"} => rw2[k].msg \in stored
               /\ rw2[k].phase = "Reaction" => rw2[k].msg \in Reactions
               /\ rw2[k].revoked => rw2[k].phase = "Invisible"
    <3>1. CASE k = j
      BY <1>1, <1>3, <3>1 DEF RowsAgree
    <3>2. CASE k # j
      <4>1. rw2[k] = rows[k]
        BY <1>4, <3>2
      <4>2. QED
        BY <1>1, <4>1 DEF RowsAgree
    <3>3. QED
      BY <3>1, <3>2
  <2>2. QED
    BY <1>5, <2>1 DEF RowsAgree
<1>7. \A k \in Rows : rw2[k].proofs = rows[k].proofs /\ rw2[k].msg = rows[k].msg
  BY <1>3, <1>4
<1>8. Agree(rw2, receipts, link, stored, Frames)
  BY <1>6, <1>7, ReceiptTypes, RowsChangeKeeps DEF Now
<1>9. QED
  BY <1>8 DEF rw2

Committed(j) == rows[j].ticket \in {"committed", "duplicate"} /\ accepting /\ rows[j].phase # "Invisible"

LEMMA PollRowStep ==
  ASSUME Inv, NEW j \in Rows, PollRow(j)
  PROVE  Inv' /\ EventOK'
<1> DEFINE answered(phase) == [rows EXCEPT ![j].ticket = "none", ![j].phase = phase]
<1>1. /\ rows[j].phase # "Free" /\ rows[j].proofs \subseteq Slots
      /\ Committed(j) => rows[j].msg \in stored /\ ~rows[j].revoked
      /\ \A i \in rows[j].proofs : receipts[i].state # "Free"
  BY ReceiptTypes DEF PollRow, RowsAgree, Committed, RowType, Masks
<1>2. Agree(rows', receipts', link, stored, Frames)
  <2>1. ASSUME Committed(j), rows' = Without(answered("Committed"), {}),
               receipts' = [i \in Slots |-> IF i \in rows[j].proofs THEN [receipts[i] EXCEPT !.state = "Eligible"]
                                            ELSE receipts[i]]
        PROVE  Agree(rows', receipts', link, stored, Frames)
    <3>1. Agree(answered("Committed"), receipts, link, stored, Frames)
      BY <1>1, <2>1, AnsweredKeeps
    <3> HIDE DEF answered
    <3>2. \A i \in Slots : /\ receipts'[i] \in ReceiptType
                           /\ receipts'[i].state = "Free" <=> receipts[i].state = "Free"
                           /\ receipts'[i].row = receipts[i].row /\ receipts'[i].kind = receipts[i].kind
                           /\ receipts'[i].revoked = receipts[i].revoked /\ receipts'[i].gen = receipts[i].gen
      <4>1. TAKE i \in Slots
      <4>2. receipts[i] \in ReceiptType
        BY ReceiptTypes
      <4>3. receipts'[i] = IF i \in rows[j].proofs THEN [receipts[i] EXCEPT !.state = "Eligible"] ELSE receipts[i]
        BY <2>1
      <4>4. QED
        BY <1>1, <4>2, <4>3 DEF ReceiptType, States
    <3>3. receipts' \in [Slots -> ReceiptType] /\ RetiredFrom(receipts', {}) = receipts'
      BY <2>1, <3>2 DEF RetiredFrom
    <3>4. Agree(answered("Committed"), receipts', link, stored, Frames)
      BY <3>1, <3>2, <3>3, ReceiptsChangeKeeps
    <3>5. QED
      BY <2>1, <3>3, <3>4, RetireKeeps
  <2>2. ASSUME rows' = Without(answered("Invisible"), rows[j].proofs),
               receipts' = RetiredFrom(receipts, rows[j].proofs)
        PROVE  Agree(rows', receipts', link, stored, Frames)
    <3>1. Agree(answered("Invisible"), receipts, link, stored, Frames)
      BY <1>1, AnsweredKeeps
    <3> HIDE DEF answered
    <3>2. QED
      BY <2>2, <3>1, RetireKeeps
  <2>3. QED
    BY <2>1, <2>2 DEF PollRow, Committed
<1>3. UNCHANGED <<accepting, visibility, link, inbound, stored, radioVars>>
  BY DEF PollRow
<1>4. QueueType' /\ Frames' = Frames
  BY <1>3, QueueSame
<1>5. Inv'
  BY <1>2, <1>3, <1>4 DEF Inv, Types, InboundOK, QueueType
<1>6. EventOK'
  <2>1. CASE event' = Silent
    BY <2>1, SilentOK
  <2>2. CASE Committed(j) /\ event' = [what |-> "notice", msg |-> rows[j].msg, revoked |-> rows[j].revoked]
    BY <1>1, <2>2 DEF EventOK, ProofAfterStore, SilentAfterDrop
  <2>3. QED
    BY <2>1, <2>2 DEF PollRow, Committed
<1>7. QED
  BY <1>5, <1>6
-----------------------------------------------------------------------------
(* The radio.                                                               *)

LEMMA RadioStep ==
  ASSUME Inv, UNCHANGED <<accepting, visibility, link, inbound, stored>>, QueueType',
         Agree(rows', receipts', link, stored, Frames')
  PROVE  Inv'
  BY DEF Inv, Types, InboundOK, QueueType

\* The receipts are retired first, then the frames leave.
LEMMA RetireAndLeave ==
  ASSUME Inv, NEW gone, Retire(gone), Frames' \subseteq Frames \cup {Foreign}
  PROVE  Agree(rows', receipts', link, stored, Frames')
<1>1. Agree(rows', receipts', link, stored, Frames)
  BY RetireStep
<1>2. Agree(rows', receipts', link, stored, Frames \cup {Foreign})
  BY <1>1 DEF Agree, FramesAgree
<1>3. QED
  BY <1>2, FewerFrames

LEMMA TransmitStep == Inv /\ Transmit => Inv' /\ EventOK'
<1> SUFFICES ASSUME Inv, Transmit PROVE Inv' /\ EventOK'
  OBVIOUS
<1>1. PICK others \in SUBSET {Foreign}, frame \in Frames :
        /\ DrainTx(Live \cup others, frame)
        /\ Retire(ReceiptsOf(Dead(Live \cup others) \cup {frame}))
        /\ event' = IF frame = Foreign THEN Silent ELSE ProofOf(frame)
  BY DEF Transmit
<1>2. QueueType' /\ Frames' \subseteq Frames /\ frame \in Frames \cap (Live \cup others)
  BY <1>1, DrainFrames DEF Inv, Types, QueueType
<1>3. UNCHANGED <<accepting, visibility, link, inbound, stored>>
  BY DEF Transmit
<1>4. Inv'
  BY <1>1, <1>2, <1>3, RetireAndLeave, RadioStep
<1>5. EventOK'
  <2>1. CASE frame = Foreign
    BY <1>1, <2>1, SilentOK
  <2>2. CASE frame # Foreign
    <3>1. Proved(frame) /\ ~frame.revoked
      BY <1>2, <2>2, LiveFrame
    <3>2. event' = [what |-> "proof", msg |-> frame.msg, revoked |-> frame.revoked]
      BY <1>1, <2>2 DEF ProofOf
    <3>3. QED
      BY <1>3, <3>1, <3>2 DEF EventOK, ProofAfterStore, SilentAfterDrop, Proved
  <2>3. QED
    BY <2>1, <2>2
<1>6. QED
  BY <1>4, <1>5

LEMMA DiscardStep == Inv /\ Discard => Inv' /\ EventOK'
<1> SUFFICES ASSUME Inv, Discard PROVE Inv' /\ EventOK'
  OBVIOUS
<1>1. PICK others \in SUBSET {Foreign} :
        txQueue' = Kept(Live \cup others) /\ Retire(ReceiptsOf(Dead(Live \cup others)))
  BY DEF Discard, DiscardExpired
<1>2. QueueType' /\ Frames' \subseteq Frames
  BY <1>1, DiscardFrames DEF Inv, Types, QueueType
<1>3. UNCHANGED <<accepting, visibility, link, inbound, stored>> /\ event' = Silent
  BY DEF Discard
<1>4. QED
  BY <1>1, <1>2, <1>3, RetireAndLeave, RadioStep, SilentOK

LEMMA OfferForeignStep == Inv /\ OfferForeign => Inv' /\ EventOK'
<1> SUFFICES ASSUME Inv, OfferForeign PROVE Inv' /\ EventOK'
  OBVIOUS
<1>1. Offer(Foreign, Live, "Queued") /\ Retire(ReceiptsOf(Dead(Live)))
  BY DEF OfferForeign
<1>2. QueueType' /\ Frames' \subseteq Frames \cup {Foreign}
  BY <1>1, OfferFrames DEF Inv, Types, QueueType
<1>3. UNCHANGED <<accepting, visibility, link, inbound, stored>> /\ event' = Silent
  BY DEF OfferForeign
<1>4. QED
  BY <1>1, <1>2, <1>3, RetireAndLeave, RadioStep, SilentOK

LEMMA StaleKeeps ==
  ASSUME NEW rw, NEW rs, NEW lk, NEW st, NEW fs, Agree(rw, rs, lk, st, fs)
  PROVE  Agree(rw, [i \in Slots |-> [rs[i] EXCEPT !.fresh = FALSE]], lk, st, fs)
<1> DEFINE rs2 == [i \in Slots |-> [rs[i] EXCEPT !.fresh = FALSE]]
<1>1. \A i \in Slots : rs[i] \in ReceiptType
  BY DEF Agree, ReceiptsAgree
<1>2. \A i \in Slots : /\ rs2[i] \in ReceiptType /\ rs2[i].state = rs[i].state /\ rs2[i].gen = rs[i].gen
                       /\ rs2[i].row = rs[i].row /\ rs2[i].kind = rs[i].kind /\ rs2[i].revoked = rs[i].revoked
  BY <1>1 DEF ReceiptType
<1>3. rs2 \in [Slots -> ReceiptType]
  BY <1>2
<1> HIDE DEF rs2
<1>4. Agree(rw, rs2, lk, st, fs)
  BY <1>2, <1>3, ReceiptsChangeKeeps
<1>5. QED
  BY <1>4 DEF rs2

LEMMA RadioStopStep == Inv /\ RadioStop => Inv' /\ EventOK'
<1> SUFFICES ASSUME Inv, RadioStop PROVE Inv' /\ EventOK'
  OBVIOUS
<1> DEFINE gone == ReceiptsOf(Frames)
<1>1. /\ txQueue' = <<>> /\ rows' = Without(rows, gone)
      /\ receipts' = [i \in Slots |-> [RetiredFrom(receipts, gone)[i] EXCEPT !.fresh = FALSE]]
  BY DEF RadioStop, Stop
<1>2. UNCHANGED <<accepting, visibility, link, inbound, stored>> /\ event' = Silent
  BY DEF RadioStop
<1> HIDE DEF gone
<1>3. Agree(rows', RetiredFrom(receipts, gone), link, stored, Frames)
  BY <1>1, ReceiptTypes, RetireKeeps DEF Now
<1>4. Agree(rows', receipts', link, stored, Frames)
  BY <1>1, <1>3, StaleKeeps
<1>5. QueueType' /\ Frames' = {}
  BY <1>1, EmptyQueue DEF QueueType, Frames
<1>6. Agree(rows', receipts', link, stored, Frames')
  BY <1>4, <1>5, FewerFrames
<1>7. QED
  BY <1>2, <1>5, <1>6, RadioStep, SilentOK

LEMMA RadioStartStep == Inv /\ RadioStart => Inv' /\ EventOK'
<1> SUFFICES ASSUME Inv, RadioStart PROVE Inv' /\ EventOK'
  OBVIOUS
<1>1. txQueue' = txQueue /\ UNCHANGED <<rows, receipts, accepting, visibility, link, inbound, stored>> /\ event' = Silent
  BY DEF RadioStart, Start, delivery
<1>2. QueueType' /\ Frames' = Frames
  BY <1>1 DEF QueueType, Frames, Inv, Types
<1>3. Agree(rows', receipts', link, stored, Frames')
  BY <1>1, <1>2, ReceiptTypes DEF Now
<1>4. QED
  BY <1>1, <1>2, <1>3, RadioStep, SilentOK

\* The frames that leave are not those of a live receipt.
LEMMA LiveStays ==
  ASSUME Inv, NEW i \in Slots, ReceiptLive(i, receipts[i].gen), NEW others
  PROVE  i \notin ReceiptsOf(Dead(Live \cup others))
<1> SUFFICES ASSUME NEW f \in Frames \ {Foreign}, f \notin Live, Held(f.slot, f.gen), f.slot = i PROVE FALSE
  BY DEF ReceiptsOf, Dead
<1>1. f.gen = receipts[i].gen
  BY DEF Held
<1>2. QED
  BY <1>1 DEF Live

\* The offer of an eligible receipt that is live.
Offers(i, offer, live, gone) ==
  /\ Offer(FrameOf(i), live, offer)
  /\ rows' = Without(rows, IF offer \in {"Started", "Rejected"} THEN gone \cup {i} ELSE gone)
  /\ receipts' = IF offer \in {"Started", "Rejected"} THEN RetiredFrom(receipts, gone \cup {i})
                 ELSE IF offer = "Queued" THEN [RetiredFrom(receipts, gone) EXCEPT ![i].state = "Queued"]
                 ELSE RetiredFrom(receipts, gone)
  /\ event' = IF offer = "Started" THEN ProofOf(FrameOf(i)) ELSE Silent

LEMMA OfferStep ==
  ASSUME Inv, NEW i \in Slots, ReceiptLive(i, receipts[i].gen), NEW live, NEW gone, i \notin gone,
         NEW offer \in {"Blocked", "Rejected", "Started", "Queued"}, Offers(i, offer, live, gone),
         UNCHANGED <<accepting, visibility, link, inbound, stored>>
  PROVE  Inv' /\ EventOK'
<1> DEFINE f == FrameOf(i)
<1>1. /\ f \in FrameType /\ f.slot = i /\ f.gen = receipts[i].gen /\ Truthful(rows, receipts, link, f)
      /\ Proved(f) /\ ~f.revoked /\ event' = IF offer = "Started" THEN ProofOf(f) ELSE Silent
  BY OfferedFrame DEF Offers
<1>2. Offer(f, live, offer)
  BY DEF Offers
<1> HIDE DEF f
<1>3. QueueType' /\ Frames' \subseteq Frames \cup {f} /\ (offer # "Queued" => Frames' \subseteq Frames)
  BY <1>1, <1>2, OfferFrames DEF Inv, Types, QueueType
<1>4. Agree(rows', receipts', link, stored, Frames')
  <2>1. CASE offer \in {"Started", "Rejected"}
    <3>1. Retire(gone \cup {i})
      BY <2>1 DEF Offers, Retire
    <3>2. QED
      BY <1>3, <2>1, <3>1, RetireAndLeave
  <2>2. CASE offer = "Blocked"
    <3>1. Retire(gone)
      BY <2>2 DEF Offers, Retire
    <3>2. QED
      BY <1>3, <2>2, <3>1, RetireAndLeave
  <2>3. CASE offer = "Queued"
    <3> DEFINE kept == RetiredFrom(receipts, gone)
    <3>1. rows' = Without(rows, gone) /\ receipts' = [kept EXCEPT ![i].state = "Queued"]
      BY <2>3 DEF Offers
    <3>2. kept[i] = receipts[i] /\ receipts[i].state # "Free"
      BY DEF RetiredFrom, ReceiptLive, Held
    <3> HIDE DEF kept
    <3>3. Agree(rows, receipts, link, stored, Frames \cup {f})
      BY <1>1, ReceiptTypes, NewFrameKeeps DEF Now
    <3>4. Agree(rows', kept, link, stored, Frames \cup {f})
      BY <3>1, <3>3, RetireKeeps DEF kept
    <3>5. kept \in [Slots -> ReceiptType]
      BY <3>4 DEF Agree, ReceiptsAgree
    <3>6. \A u \in Slots : /\ receipts'[u] \in ReceiptType
                           /\ receipts'[u].state = "Free" <=> kept[u].state = "Free"
                           /\ receipts'[u].gen = kept[u].gen /\ receipts'[u].row = kept[u].row
                           /\ receipts'[u].kind = kept[u].kind /\ receipts'[u].revoked = kept[u].revoked
      <4>1. TAKE u \in Slots
      <4>2. kept[u] \in ReceiptType
        BY <3>5
      <4>3. receipts'[u] = IF u = i THEN [kept[u] EXCEPT !.state = "Queued"] ELSE kept[u]
        BY <3>1, <3>5
      <4>4. QED
        BY <3>2, <4>2, <4>3 DEF ReceiptType, States
    <3>7. receipts' \in [Slots -> ReceiptType]
      BY <3>1, <3>5, <3>6
    <3>8. Agree(rows', receipts', link, stored, Frames \cup {f})
      BY <3>4, <3>6, <3>7, ReceiptsChangeKeeps
    <3>9. QED
      BY <1>3, <3>8, FewerFrames
  <2>4. QED
    BY <2>1, <2>2, <2>3
<1>5. Inv'
  BY <1>3, <1>4, RadioStep
<1>6. EventOK'
  <2>1. CASE event' = Silent
    BY <2>1, SilentOK
  <2>2. CASE event' = ProofOf(f)
    <3>1. event' = [what |-> "proof", msg |-> f.msg, revoked |-> f.revoked]
      BY <2>2 DEF ProofOf
    <3>2. QED
      BY <1>1, <3>1 DEF EventOK, ProofAfterStore, SilentAfterDrop, Proved
  <2>3. QED
    BY <1>1, <2>1, <2>2
<1>7. QED
  BY <1>5, <1>6

LEMMA PollReceiptStep ==
  ASSUME Inv, NEW i \in Slots, PollReceipt(i)
  PROVE  Inv' /\ EventOK'
<1>1. UNCHANGED <<accepting, visibility, link, inbound, stored>>
  BY DEF PollReceipt
<1>2. CASE Retire({i}) /\ event' = Silent /\ UNCHANGED radioVars
  <2>1. QueueType' /\ Frames' = Frames
    BY <1>2, QueueSame
  <2>2. QED
    BY <1>1, <1>2, <2>1, RetireAndLeave, RadioStep, SilentOK
<1>3. CASE /\ ReceiptLive(i, receipts[i].gen)
           /\ \E offer \in {"Blocked", "Rejected", "Started", "Queued"}, others \in SUBSET {Foreign} :
                Offers(i, offer, Live \cup others,
                       IF txQueue' # txQueue THEN ReceiptsOf(Dead(Live \cup others)) ELSE {})
  <2>1. PICK offer \in {"Blocked", "Rejected", "Started", "Queued"}, others \in SUBSET {Foreign} :
          Offers(i, offer, Live \cup others,
                 IF txQueue' # txQueue THEN ReceiptsOf(Dead(Live \cup others)) ELSE {})
    BY <1>3
  <2>2. i \notin IF txQueue' # txQueue THEN ReceiptsOf(Dead(Live \cup others)) ELSE {}
    BY <1>3, LiveStays
  <2>3. QED
    BY <1>1, <1>3, <2>1, <2>2, OfferStep
<1>4. QED
  BY <1>2, <1>3 DEF PollReceipt, Offers
-----------------------------------------------------------------------------
(* The link, deletions, and the end.                                        *)

LEMMA OpenLinkStep ==
  ASSUME Inv, NEW remote \in Called \cup {"answered"}, OpenLink(remote)
  PROVE  Inv' /\ EventOK'
<1>1. /\ link = "down" /\ link' = remote /\ event' = Silent
      /\ UNCHANGED <<rows, receipts, accepting, visibility, inbound, stored, radioVars>>
  BY DEF OpenLink, delivery
<1>2. QueueType' /\ Frames' = Frames
  BY <1>1, QueueSame
<1>3. Agree(rows, receipts, remote, stored, Frames)
  BY <1>1, ReceiptTypes, LinkChangeKeeps DEF Now, ReceiptsAgree
<1>4. Agree(rows', receipts', link', stored', Frames')
  BY <1>1, <1>2, <1>3
<1>5. link' \in Peers \cup {"down", "answered"}
  BY <1>1, DeliveryAssumption
<1>6. QED
  BY <1>1, <1>2, <1>4, <1>5, SilentOK DEF Inv, Types, InboundOK, QueueType

LEMMA CloseLinkStep == Inv /\ CloseLink => Inv' /\ EventOK'
<1> SUFFICES ASSUME Inv, CloseLink PROVE Inv' /\ EventOK'
  OBVIOUS
<1> DEFINE gone == {i \in Slots : receipts[i].state # "Free" /\ OnLink(receipts[i].kind)}
<1>1. /\ link' = "down" /\ Retire(gone) /\ event' = Silent
      /\ UNCHANGED <<accepting, visibility, inbound, stored, radioVars>>
  BY DEF CloseLink
<1>2. QueueType' /\ Frames' = Frames
  BY <1>1, QueueSame
<1>3. \A i \in Slots : receipts'[i].state # "Free" => ~OnLink(receipts'[i].kind)
  BY <1>1 DEF Retire, RetiredFrom, FreeReceipt
<1> HIDE DEF gone
<1>4. Agree(rows', receipts', link, stored, Frames)
  BY <1>1, RetireStep
<1>5. Agree(rows', receipts', "down", stored, Frames)
  BY <1>3, <1>4, LinkChangeKeeps
<1>6. Agree(rows', receipts', link', stored', Frames')
  BY <1>1, <1>2, <1>5
<1>7. QED
  BY <1>1, <1>2, <1>6, SilentOK DEF Inv, Types, InboundOK, QueueType

LEMMA BeginStep == Inv /\ Begin => Inv' /\ EventOK'
<1> SUFFICES ASSUME Inv, Begin PROVE Inv' /\ EventOK'
  OBVIOUS
<1>1. /\ accepting' = TRUE /\ inbound' = NoInbound /\ link' = "down" /\ txQueue' = Kept({Foreign})
      /\ UNCHANGED <<rows, receipts, visibility, stored>> /\ event' = Silent
      /\ \A i \in Slots : receipts[i].state = "Free"
  BY DEF Begin, Drained
<1>2. QueueType' /\ Frames' \subseteq Frames
  BY <1>1, DiscardFrames DEF Inv, Types, QueueType
<1>3. Agree(rows, receipts, "down", stored, Frames)
  BY <1>1, ReceiptTypes, LinkChangeKeeps DEF Now
<1>4. Agree(rows, receipts, "down", stored, Frames')
  BY <1>2, <1>3, FewerFrames
<1>5. Agree(rows', receipts', link', stored', Frames')
  BY <1>1, <1>4
<1>6. QED
  BY <1>1, <1>2, <1>5, SilentOK DEF Inv, Types, InboundOK, NoInbound, QueueType

\* The frames at the places K are revoked.
RevokedAt(K) ==
  txQueue' = [k \in DOMAIN txQueue |-> IF k \in K THEN [txQueue[k] EXCEPT !.revoked = TRUE] ELSE txQueue[k]]

LEMMA RevokedFrames ==
  ASSUME QueueType, NEW K, K \subseteq {k \in DOMAIN txQueue : txQueue[k] # Foreign}, RevokedAt(K)
  PROVE  /\ QueueType'
         /\ \A g \in Frames' : \/ g \in Frames
                               \/ \E k \in K : g = [txQueue[k] EXCEPT !.revoked = TRUE]
<1>1. \A k \in DOMAIN txQueue :
        txQueue'[k] = IF k \in K THEN [txQueue[k] EXCEPT !.revoked = TRUE] ELSE txQueue[k]
  BY DEF RevokedAt
<1>2. /\ Len(txQueue) \in Nat /\ DOMAIN txQueue = 1 .. Len(txQueue)
      /\ \A k \in DOMAIN txQueue : txQueue[k] \in FrameType \cup {Foreign}
  BY DEF QueueType
<1>3. \A k \in DOMAIN txQueue : txQueue'[k] \in FrameType \cup {Foreign}
  <2>1. TAKE k \in DOMAIN txQueue
  <2>2. CASE k \in K
    <3>1. txQueue[k] \in FrameType
      BY <1>2, <2>2
    <3>2. [txQueue[k] EXCEPT !.revoked = TRUE] \in FrameType
      BY <3>1 DEF FrameType
    <3>3. QED
      BY <1>1, <2>2, <3>2
  <2>3. CASE k \notin K
    BY <1>1, <1>2, <2>3
  <2>4. QED
    BY <2>2, <2>3
<1>4. txQueue' \in [1 .. Len(txQueue) -> FrameType \cup {Foreign}] /\ DOMAIN txQueue' = DOMAIN txQueue
  BY <1>2, <1>3 DEF RevokedAt
<1>5. QueueType'
  BY <1>2, <1>4 DEF QueueType
<1>6. QED
  BY <1>1, <1>4, <1>5 DEF Frames, ToSet

LEMMA StopTable ==
  ASSUME Inv, StopEffects
  PROVE  /\ Agree(rows', receipts', link, stored, Frames)
         /\ \A i \in Slots : receipts'[i].state = "Free"
<1>1. RowsAgree(rows, stored)
  BY ReceiptTypes
<1>2. \A j \in Rows :
        \/ rows'[j] = FreeRow
        \/ /\ rows[j].phase # "Free"
           /\ rows'[j] = [rows[j] EXCEPT !.phase = "Invisible", !.proofs = {}, !.revoked = TRUE]
  BY DEF StopEffects
<1>3. \A j \in Rows : /\ rows'[j] \in RowType /\ rows'[j].proofs = {}
                      /\ \/ rows'[j] = FreeRow
                         \/ /\ rows[j].phase # "Free" /\ rows'[j].phase = "Invisible"
                            /\ rows'[j].msg = rows[j].msg /\ rows'[j].ticket = rows[j].ticket
  <2>1. TAKE j \in Rows
  <2>2. rows[j] \in RowType
    BY ReceiptTypes
  <2>3. CASE rows'[j] = FreeRow
    BY <2>3, FreshTypes
  <2>4. CASE /\ rows[j].phase # "Free"
             /\ rows'[j] = [rows[j] EXCEPT !.phase = "Invisible", !.proofs = {}, !.revoked = TRUE]
    BY <2>2, <2>4 DEF RowType, Phases
  <2>5. QED
    BY <1>2, <2>3, <2>4
<1>4. rows' \in [Rows -> RowType]
  BY <1>3 DEF StopEffects
<1>5. RowsAgree(rows', stored)
  <2>1. ASSUME NEW j \in Rows
        PROVE  /\ rows'[j].phase = "Free" => rows'[j].ticket = "none" /\ rows'[j].proofs = {}
               /\ rows'[j].phase # "Free" => rows'[j].msg \in Messages
               /\ rows'[j].phase = "Committed" \/ rows'[j].ticket \in {"committed", "duplicate"} => rows'[j].msg \in stored
               /\ rows'[j].phase = "Reaction" => rows'[j].msg \in Reactions
               /\ rows'[j].revoked => rows'[j].phase = "Invisible"
    <3>1. CASE rows'[j] = FreeRow
      BY <3>1, FreshTypes
    <3>2. CASE /\ rows[j].phase # "Free" /\ rows'[j].phase = "Invisible"
               /\ rows'[j].msg = rows[j].msg /\ rows'[j].ticket = rows[j].ticket
      BY <1>1, <1>3, <3>2 DEF RowsAgree
    <3>3. QED
      BY <1>3, <3>1, <3>2
  <2>2. QED
    BY <1>4, <2>1 DEF RowsAgree
<1>6. receipts' = [i \in Slots |-> FreeReceipt(receipts[i].gen)]
  BY DEF StopEffects
<1>7. Agree(rows', [i \in Slots |-> FreeReceipt(receipts[i].gen)], link, stored, Frames)
  BY <1>3, <1>5, ReceiptTypes, StopKeeps DEF Now
<1>8. QED
  BY <1>6, <1>7 DEF FreeReceipt

\* After the stop no frame is held by a receipt, and each may be revoked.
LEMMA StopFrames ==
  ASSUME Inv, StopEffects, NEW K, K \subseteq {k \in DOMAIN txQueue : txQueue[k] # Foreign}, RevokedAt(K)
  PROVE  QueueType' /\ Agree(rows', receipts', link, stored, Frames')
<1>1. /\ QueueType'
      /\ \A g \in Frames' : g \in Frames \/ \E k \in K : g = [txQueue[k] EXCEPT !.revoked = TRUE]
  BY RevokedFrames DEF Inv, Types, QueueType
<1>2. /\ Agree(rows', receipts', link, stored, Frames)
      /\ \A i \in Slots : receipts'[i].state = "Free"
  BY StopTable
<1>3. \A k \in K : txQueue[k] \in Frames \ {Foreign} /\ ~HeldBy(receipts', txQueue[k])
  <2>1. TAKE k \in K
  <2>2. txQueue[k] \in Frames \ {Foreign}
    BY DEF Frames, ToSet
  <2>3. txQueue[k].slot \in Slots
    BY <1>2, <2>2 DEF Agree, FramesAgree, FrameType
  <2>4. QED
    BY <1>2, <2>2, <2>3 DEF HeldBy
<1>4. \A g \in Frames' \ {Foreign} :
         \/ g \in Frames
         \/ \E f \in Frames \ {Foreign} : g = [f EXCEPT !.revoked = TRUE] /\ ~HeldBy(receipts', f)
  BY <1>1, <1>3
<1>5. QED
  BY <1>1, <1>2, <1>4, RevokeKeeps

LEMMA StopAdmissionsStep == Inv /\ StopAdmissions => Inv' /\ EventOK'
<1> SUFFICES ASSUME Inv, StopAdmissions PROVE Inv' /\ EventOK'
  OBVIOUS
<1> DEFINE K == {k \in DOMAIN txQueue : txQueue[k] # Foreign}
<1>1. /\ StopEffects /\ txQueue' = AllRevoked(txQueue) /\ event' = Silent
      /\ UNCHANGED <<visibility, link, inbound, stored>> /\ accepting' = FALSE
  BY DEF StopAdmissions, StopEffects
<1>2. RevokedAt(K)
  BY <1>1 DEF AllRevoked, RevokedAt
<1>3. QueueType' /\ Agree(rows', receipts', link, stored, Frames')
  BY <1>1, <1>2, StopFrames
<1>4. Agree(rows', receipts', link', stored', Frames')
  BY <1>1, <1>3
<1>5. QED
  BY <1>1, <1>3, <1>4, SilentOK DEF Inv, Types, InboundOK, QueueType

LEMMA EnterMaintenanceStep == Inv /\ EnterMaintenance => Inv' /\ EventOK'
<1> SUFFICES ASSUME Inv, EnterMaintenance PROVE Inv' /\ EventOK'
  OBVIOUS
<1>1. /\ StopEffects /\ txQueue' = <<>> /\ event' = Silent
      /\ UNCHANGED <<visibility, link, inbound, stored>> /\ accepting' = FALSE
  BY DEF EnterMaintenance, BeginMaintenance, StopEffects
<1>2. QueueType' /\ Frames' = {}
  BY <1>1, EmptyQueue DEF QueueType, Frames
<1>3. Agree(rows', receipts', link, stored, Frames)
  BY <1>1, StopTable
<1>4. Agree(rows', receipts', link, stored, Frames')
  BY <1>2, <1>3, FewerFrames
<1>5. Agree(rows', receipts', link', stored', Frames')
  BY <1>1, <1>4
<1>6. QED
  BY <1>1, <1>2, <1>5, SilentOK DEF Inv, Types, InboundOK, QueueType

\* The rows of the peer become invisible and their receipts go, with all on a
\* link that may be his.
HiddenRows(p) ==
  [j \in Rows |-> IF j \in Hidden(p) THEN [rows[j] EXCEPT !.phase = "Invisible", !.revoked = TRUE] ELSE rows[j]]
Gone(p) == (UNION {rows[j].proofs : j \in Hidden(p)}) \cup OnSuspectLink(p)

LEMMA HiddenKeeps ==
  ASSUME Inv, NEW p
  PROVE  Agree(HiddenRows(p), receipts, link, stored, Frames)
<1> DEFINE rw2 == HiddenRows(p)
<1>1. RowsAgree(rows, stored)
  BY ReceiptTypes
<1>2. \A j \in Rows :
        /\ rows[j] \in RowType /\ rw2[j] \in RowType
        /\ rw2[j].proofs = rows[j].proofs /\ rw2[j].msg = rows[j].msg /\ rw2[j].ticket = rows[j].ticket
        /\ \/ rw2[j] = rows[j]
           \/ rows[j].phase # "Free" /\ rw2[j].phase = "Invisible"
  <2>1. TAKE j \in Rows
  <2>2. rows[j] \in RowType
    BY ReceiptTypes
  <2>3. CASE j \in Hidden(p)
    <3>1. rw2[j] = [rows[j] EXCEPT !.phase = "Invisible", !.revoked = TRUE] /\ rows[j].phase # "Free"
      BY <2>3 DEF HiddenRows, Hidden
    <3>2. QED
      BY <2>2, <3>1 DEF RowType, Phases
  <2>4. CASE j \notin Hidden(p)
    BY <2>2, <2>4 DEF HiddenRows
  <2>5. QED
    BY <2>3, <2>4
<1>3. rw2 \in [Rows -> RowType]
  BY <1>2 DEF HiddenRows
<1> HIDE DEF rw2
<1>4. RowsAgree(rw2, stored)
  <2>1. ASSUME NEW j \in Rows
        PROVE  /\ rw2[j].phase = "Free" => rw2[j].ticket = "none" /\ rw2[j].proofs = {}
               /\ rw2[j].phase # "Free" => rw2[j].msg \in Messages
               /\ rw2[j].phase = "Committed" \/ rw2[j].ticket \in {"committed", "duplicate"} => rw2[j].msg \in stored
               /\ rw2[j].phase = "Reaction" => rw2[j].msg \in Reactions
               /\ rw2[j].revoked => rw2[j].phase = "Invisible"
    <3>1. CASE rw2[j] = rows[j]
      BY <1>1, <3>1 DEF RowsAgree
    <3>2. CASE rows[j].phase # "Free" /\ rw2[j].phase = "Invisible"
      BY <1>1, <1>2, <3>2 DEF RowsAgree
    <3>3. QED
      BY <1>2, <3>1, <3>2
  <2>2. QED
    BY <1>3, <2>1 DEF RowsAgree
<1>5. Agree(rw2, receipts, link, stored, Frames)
  BY <1>2, <1>4, ReceiptTypes, RowsChangeKeeps DEF Now
<1>6. QED
  BY <1>5 DEF rw2

\* Nothing of the peer is left: no receipt, and no frame that is held.
LEMMA NothingLeft ==
  ASSUME Inv, NEW p, NEW i \in Slots, i \notin Gone(p), receipts[i].state # "Free"
  PROVE  IF receipts[i].row = NoRow THEN ~(receipts[i].kind = "Control" /\ link = p)
         ELSE receipts[i].row \in Rows /\ Source[rows[receipts[i].row].msg] # p
<1>1. CASE receipts[i].row = NoRow
  <2>1. ASSUME receipts[i].kind = "Control", link = p PROVE i \in OnSuspectLink(p)
    BY <1>1, <2>1 DEF OnSuspectLink, OnLink
  <2>2. i \notin OnSuspectLink(p)
    BY DEF Gone
  <2>3. QED
    BY <1>1, <2>1, <2>2
<1>2. CASE receipts[i].row # NoRow
  <2>1. receipts[i].row \in Rows
    BY <1>2, ReceiptTypes DEF ReceiptType
  <2>2. i \in rows[receipts[i].row].proofs
    BY <2>1, ReceiptTypes DEF Masks
  <2>3. rows[receipts[i].row].phase # "Free"
    BY <2>1, <2>2, ReceiptTypes DEF RowsAgree
  <2>4. receipts[i].row \notin Hidden(p)
    BY <2>2 DEF Gone
  <2>5. QED
    BY <1>2, <2>1, <2>3, <2>4 DEF Hidden
<1>3. QED
  BY <1>1, <1>2

LEMMA NoFrameLeft ==
  ASSUME Inv, NEW p \in Peers, NEW f \in Frames \ {Foreign}, f.to = p
  PROVE  ~HeldBy(RetiredFrom(receipts, Gone(p)), f)
<1> DEFINE i == f.slot
<1>1. i \in Slots /\ (HeldBy(receipts, f) => Truthful(rows, receipts, link, f))
  BY DEF Inv, Agree, FramesAgree, FrameType
<1>2. CASE i \in Gone(p)
  BY <1>1, <1>2 DEF HeldBy, RetiredFrom, FreeReceipt
<1>3. CASE i \notin Gone(p)
  <2>1. RetiredFrom(receipts, Gone(p))[i] = receipts[i]
    BY <1>1, <1>3 DEF RetiredFrom
  <2>2. SUFFICES ASSUME HeldBy(receipts, f) PROVE FALSE
    BY <2>1 DEF HeldBy
  <2>3. receipts[i].state # "Free" /\ Truthful(rows, receipts, link, f)
    BY <1>1, <2>2 DEF HeldBy
  <2>4. receipts[i].row = NoRow => receipts[i].kind = "Control"
    BY <1>1, <2>3, ReceiptTypes DEF ReceiptsAgree, Truthful
  <2>5. CASE receipts[i].row = NoRow
    <3>1. link = p
      BY <2>3, <2>5, DeliveryAssumption DEF Truthful
    <3>2. QED
      BY <1>1, <1>3, <2>3, <2>4, <2>5, <3>1, NothingLeft
  <2>6. CASE receipts[i].row # NoRow
    <3>1. Source[rows[receipts[i].row].msg] = p
      BY <2>3, <2>6 DEF Truthful
    <3>2. QED
      BY <1>1, <1>3, <2>3, <2>6, <3>1, NothingLeft
  <2>7. QED
    BY <2>5, <2>6
<1>4. QED
  BY <1>2, <1>3

Marked(p) ==
  [i \in Slots |-> IF receipts[i].state # "Free" /\
                      (IF receipts[i].row = NoRow THEN receipts[i].kind = "Control" /\ link = p
                       ELSE Source[rows[receipts[i].row].msg] = p)
                   THEN [receipts[i] EXCEPT !.revoked = TRUE] ELSE receipts[i]]

LEMMA MarkedAreGone ==
  ASSUME Inv, NEW p
  PROVE  RetiredFrom(Marked(p), Gone(p)) = RetiredFrom(receipts, Gone(p))
<1>1. ASSUME NEW i \in Slots
      PROVE  Marked(p)[i].gen = receipts[i].gen /\ (i \notin Gone(p) => Marked(p)[i] = receipts[i])
  <2>1. receipts[i] \in ReceiptType
    BY ReceiptTypes
  <2>2. Marked(p)[i].gen = receipts[i].gen
    BY <2>1 DEF Marked, ReceiptType
  <2>3. ASSUME i \notin Gone(p) PROVE Marked(p)[i] = receipts[i]
    <3>1. CASE receipts[i].state = "Free"
      BY <3>1 DEF Marked
    <3>2. CASE receipts[i].state # "Free"
      BY <2>3, <3>2, NothingLeft DEF Marked
    <3>3. QED
      BY <3>1, <3>2
  <2>4. QED
    BY <2>2, <2>3
<1>2. QED
  BY <1>1 DEF RetiredFrom

LEMMA DropPeerStep ==
  ASSUME Inv, NEW p \in Peers, DropPeer(p)
  PROVE  Inv' /\ EventOK'
<1> DEFINE K == {k \in DOMAIN txQueue : txQueue[k] # Foreign /\ (visibility = MaxVisibility \/ txQueue[k].to = p)}
<1>1. UNCHANGED <<radio, link, stored>> /\ event' = Silent /\ InboundOK'
  BY DEF DropPeer, Inv, Types, InboundOK, NoInbound
<1>2. RevokedAt(K) /\ K \subseteq {k \in DOMAIN txQueue : txQueue[k] # Foreign}
  BY DEF DropPeer, RevokedAt
<1>3. CASE visibility = MaxVisibility
  <2>1. StopEffects /\ UNCHANGED visibility
    BY <1>3 DEF DropPeer
  <2> HIDE DEF K
  <2>2. QueueType' /\ Agree(rows', receipts', link, stored, Frames')
    BY <1>2, <2>1, StopFrames
  <2>3. Agree(rows', receipts', link', stored', Frames') /\ accepting' \in BOOLEAN
    BY <1>1, <2>1, <2>2 DEF StopEffects
  <2>4. QED
    BY <1>1, <2>1, <2>2, <2>3, SilentOK DEF Inv, Types, QueueType
<1>4. CASE visibility # MaxVisibility
  <2>1. /\ visibility' = visibility + 1 /\ UNCHANGED accepting
        /\ receipts' = RetiredFrom(Marked(p), Gone(p))
        /\ rows' = Without(HiddenRows(p), Gone(p))
    BY <1>4 DEF DropPeer, Marked, Gone, HiddenRows
  <2>2. receipts' = RetiredFrom(receipts, Gone(p))
    BY <2>1, MarkedAreGone
  <2>3. Agree(rows', receipts', link, stored, Frames)
    BY <2>1, <2>2, HiddenKeeps, RetireKeeps
  <2>4. /\ QueueType'
        /\ \A g \in Frames' : g \in Frames \/ \E k \in K : g = [txQueue[k] EXCEPT !.revoked = TRUE]
    BY <1>2, RevokedFrames DEF Inv, Types, QueueType
  <2>5. \A k \in K : txQueue[k] \in Frames \ {Foreign} /\ ~HeldBy(receipts', txQueue[k])
    <3>1. TAKE k \in K
    <3>2. txQueue[k] \in Frames \ {Foreign} /\ txQueue[k].to = p
      BY <1>4 DEF Frames, ToSet
    <3>3. QED
      BY <2>2, <3>2, NoFrameLeft
  <2> HIDE DEF K
  <2>6. \A g \in Frames' \ {Foreign} :
           \/ g \in Frames
           \/ \E f \in Frames \ {Foreign} : g = [f EXCEPT !.revoked = TRUE] /\ ~HeldBy(receipts', f)
    BY <2>4, <2>5
  <2>7. Agree(rows', receipts', link, stored, Frames')
    BY <2>3, <2>6, RevokeKeeps
  <2>8. visibility' \in 1 .. MaxVisibility
    BY <1>4, <2>1, DeliveryAssumption DEF Inv, Types
  <2>9. Agree(rows', receipts', link', stored', Frames')
    BY <1>1, <2>7
  <2>10. QED
    BY <1>1, <2>1, <2>4, <2>8, <2>9, SilentOK DEF Inv, Types, QueueType
<1>5. QED
  BY <1>3, <1>4
-----------------------------------------------------------------------------
LEMMA InitHolds == Init => Inv /\ EventOK
<1> SUFFICES ASSUME Init PROVE Inv /\ EventOK
  OBVIOUS
<1>1. /\ rows = [j \in Rows |-> FreeRow] /\ accepting = FALSE /\ visibility = 1 /\ link = "down"
      /\ inbound = NoInbound /\ stored = {} /\ event = Silent /\ txQueue = <<>>
      /\ receipts = [i \in Slots |-> FreeReceipt(IF i \in Worn THEN MaxGeneration - 1 ELSE 0)]
  BY DEF Init, TxQueueInit
<1>2. \A i \in Slots : (IF i \in Worn THEN MaxGeneration - 1 ELSE 0) \in 0 .. MaxGeneration
  BY DeliveryAssumption
<1>3. \A i \in Slots : receipts[i] \in ReceiptType /\ receipts[i].state = "Free" /\ ~receipts[i].revoked
  BY <1>1, <1>2, FreshTypes
<1>4. receipts \in [Slots -> ReceiptType]
  BY <1>1, <1>3
<1>5. ReceiptsAgree(receipts, link)
  BY <1>3, <1>4 DEF ReceiptsAgree
<1>6. \A j \in Rows : rows[j] = FreeRow
  BY <1>1
<1>7. rows \in [Rows -> RowType]
  BY <1>1, FreshTypes
<1>8. RowsAgree(rows, stored)
  BY <1>6, <1>7, FreshTypes DEF RowsAgree
<1>9. Masks(rows, receipts)
  BY <1>3, <1>6, FreshTypes DEF Masks
<1>10. txQueue \in Seq(FrameType \cup {Foreign}) /\ Frames = {}
  BY <1>1, EmptyQueue DEF Frames
<1>11. FramesAgree(rows, receipts, link, Frames)
  BY <1>10 DEF FramesAgree
<1>12. Types
  <2>1. InboundOK
    BY <1>1 DEF InboundOK, NoInbound
  <2>2. MaxVisibility \in Nat \ {0}
    BY DeliveryAssumption
  <2>3. 1 \in 1 .. MaxVisibility
    BY <2>2
  <2>4. QED
    BY <1>1, <1>10, <2>1, <2>3 DEF Types
<1>13. EventOK
  BY <1>1 DEF EventOK, ProofAfterStore, SilentAfterDrop, Silent
<1>14. QED
  BY <1>5, <1>8, <1>9, <1>11, <1>12, <1>13 DEF Inv, Agree

LEMMA StutterKeeps == Inv /\ EventOK /\ UNCHANGED vars => Inv' /\ EventOK'
<1> SUFFICES ASSUME Inv, EventOK, UNCHANGED vars PROVE Inv' /\ EventOK'
  OBVIOUS
<1>1. UNCHANGED <<rows, receipts, accepting, visibility, link, inbound, stored, event, txQueue, radio>>
  BY DEF vars, delivery, radioVars
<1>2. QueueType' /\ Frames' = Frames
  BY <1>1, QueueSame DEF radioVars
<1>3. Agree(rows', receipts', link', stored', Frames')
  BY <1>1, <1>2, ReceiptTypes DEF Now
<1>4. QED
  BY <1>1, <1>2, <1>3 DEF Inv, Types, InboundOK, QueueType, EventOK, ProofAfterStore, SilentAfterDrop

LEMMA ReceiveStep ==
  ASSUME Inv, NEW m \in Messages, ReceivePacket(m) \/ ReceiveOnLink(m)
  PROVE  Inv' /\ EventOK'
  BY AcceptCopyStep, AcceptNewStep, AcceptUnprovedStep DEF ReceivePacket, ReceiveOnLink

LEMMA NextKeeps == Inv /\ EventOK /\ [Next]_vars => Inv' /\ EventOK'
<1> SUFFICES ASSUME Inv, EventOK, [Next]_vars PROVE Inv' /\ EventOK'
  OBVIOUS
<1>1. CASE \E m \in Messages : ReceivePacket(m) \/ ReceiveOnLink(m) \/ CompleteResource(m)
  BY <1>1, ReceiveStep, CompleteResourceStep
<1>2. CASE ReserveResource \/ RefuseResource \/ ResourceLoop \/ RefuseSecondTransfer
  BY <1>2, ReserveResourceStep, RefuseResourceStep, ResourceLoopStep, RefuseSecondStep
<1>3. CASE \E j \in Rows : StoreExecute(j) \/ PollRow(j)
  BY <1>3, StoreExecuteStep, PollRowStep
<1>4. CASE \E i \in Slots : PollReceipt(i) \/ Expire(i) \/ CancelResource(i)
  BY <1>4, PollReceiptStep, ExpireStep, CancelResourceStep
<1>5. CASE Transmit \/ Discard \/ OfferForeign \/ RadioStop \/ RadioStart
  BY <1>5, TransmitStep, DiscardStep, OfferForeignStep, RadioStopStep, RadioStartStep
<1>6. CASE \E remote \in Called \cup {"answered"} : OpenLink(remote)
  BY <1>6, OpenLinkStep
<1>7. CASE CloseLink \/ StopAdmissions \/ EnterMaintenance \/ Begin
  BY <1>7, CloseLinkStep, StopAdmissionsStep, EnterMaintenanceStep, BeginStep
<1>8. CASE \E p \in Peers : DropPeer(p)
  BY <1>8, DropPeerStep
<1>9. CASE UNCHANGED vars
  BY <1>9, StutterKeeps
<1>10. QED
  BY <1>1, <1>2, <1>3, <1>4, <1>5, <1>6, <1>7, <1>8, <1>9 DEF Next

LEMMA InvHolds == Spec => [](Inv /\ EventOK)
  BY InitHolds, NextKeeps, PTL DEF Spec

(***************************************************************************)
(* A proof of delivery is transmitted, whether at once                     *)
(* (RustIncomingDelivery::poll) or from the queue (LoRaInterface::drainTx),*)
(* only for a message the store has answered for, or a reaction.           *)
(***************************************************************************)
THEOREM ProofSafety == Spec => []ProofAfterStore
<1>1. Inv /\ EventOK => ProofAfterStore
  BY DEF EventOK
<1>2. QED
  BY <1>1, InvHolds, PTL

(***************************************************************************)
(* After RustIncomingDelivery::dropPeer or stopAdmissions nothing received *)
(* before is proved or announced: no frame the radio still holds, no       *)
(* ticket answered later, and no slot that was taken again in between.     *)
(***************************************************************************)
THEOREM Silence == Spec => []SilentAfterDrop
<1>1. Inv /\ EventOK => SilentAfterDrop
  BY DEF EventOK
<1>2. QED
  BY <1>1, InvHolds, PTL
-----------------------------------------------------------------------------
(* The bookkeeping.                                                         *)

Delivering(row) == row.phase \notin {"Free", "Invisible"}

\* The ticket of a row is out exactly while the store decides, an invisible row
\* has no proofs, and no two rows deliver one message.
RowsCoherent(rw) ==
  /\ \A j \in Rows :
       /\ rw[j].phase # "Reserved"
       /\ rw[j].phase = "AwaitStore" => rw[j].ticket # "none"
       /\ rw[j].ticket # "none" => rw[j].phase \in {"AwaitStore", "Invisible"}
       /\ rw[j].phase = "Invisible" => rw[j].proofs = {}
  /\ \A j, k \in Rows : Delivering(rw[j]) /\ Delivering(rw[k]) /\ rw[j].msg = rw[k].msg => j = k

\* And a row in use waits for its ticket or for the last of its proofs.
RowsSettled(rw) ==
  /\ RowsCoherent(rw)
  /\ \A j \in Rows : rw[j].phase # "Free" => rw[j].ticket # "none" \/ rw[j].proofs # {}

\* A receipt of a row is reserved exactly until the row is committed.
StatesSettled(rw, rs) ==
  \A i \in Slots : rs[i].state # "Free" /\ rs[i].row \in Rows
                     => (rs[i].state = "Reserved" <=> rw[rs[i].row].phase = "AwaitStore")

Carries(f, i, gen) == f # Foreign /\ f.slot = i /\ f.gen = gen

\* A frame that is held belongs to a queued receipt, and such a receipt has one.
FramesSettled(rs, fs) ==
  /\ \A f \in fs \ {Foreign} : HeldBy(rs, f) => rs[f.slot].state = "Queued"
  /\ \A i \in Slots : rs[i].state = "Queued" => \E f \in fs : Carries(f, i, rs[i].gen)

CreditsSettled(rw, rs) ==
  /\ Cardinality(Controls(rs)) <= MaxControls
  /\ \A j \in Rows : Cardinality(rw[j].proofs) <= ReceiptsPerRow

Settled(rw, rs, fs) ==
  RowsSettled(rw) /\ StatesSettled(rw, rs) /\ FramesSettled(rs, fs) /\ CreditsSettled(rw, rs)

\* No two frames in the queue are of one receipt in one generation.
Single(q) ==
  \A a, b \in DOMAIN q : q[a] # Foreign /\ q[b] # Foreign /\ q[a].slot = q[b].slot /\ q[a].gen = q[b].gen => a = b

Books == Settled(rows, receipts, Frames) /\ Single(txQueue)

\* Rows are released or become invisible, or keep what they are and lose proofs.
Lessens(rw, rw2) ==
  \A j \in Rows :
    /\ rw2[j].phase # "Free" => rw2[j].ticket # "none" \/ rw2[j].proofs # {}
    /\ \/ rw2[j] = FreeRow
       \/ rw2[j].phase = "Invisible" /\ rw2[j].proofs = {}
       \/ /\ rw2[j].phase = rw[j].phase /\ rw2[j].msg = rw[j].msg /\ rw2[j].proofs \subseteq rw[j].proofs
          /\ rw2[j].ticket = "none" <=> rw[j].ticket = "none"

\* Receipts are retired or keep what they are, but for their deadline.
Retires(rs, rs2) ==
  \A i \in Slots : \/ rs2[i].state = "Free"
                   \/ /\ rs2[i].state = rs[i].state /\ rs2[i].gen = rs[i].gen
                      /\ rs2[i].row = rs[i].row /\ rs2[i].kind = rs[i].kind

LEMMA SlotSets ==
  ASSUME NEW S \in SUBSET Slots, NEW T \in SUBSET Slots, S \subseteq T
  PROVE  IsFiniteSet(S) /\ Cardinality(S) \in Nat /\ Cardinality(T) \in Nat /\ Cardinality(S) <= Cardinality(T)
<1>1. IsFiniteSet(T) /\ IsFiniteSet(S)
  BY FS_Subset, DeliveryAssumption
<1>2. QED
  BY <1>1, FS_Subset, FS_CardinalityType

LEMMA SlotAdded ==
  ASSUME NEW S \in SUBSET Slots, NEW i \in Slots, NEW T, T \subseteq S \cup {i}, NEW n \in Nat, Cardinality(S) < n
  PROVE  Cardinality(T) <= n
<1>1. IsFiniteSet(S) /\ Cardinality(S) \in Nat
  BY SlotSets
<1>2. Cardinality(S \cup {i}) \in {Cardinality(S), Cardinality(S) + 1}
  BY <1>1, FS_AddElement
<1>3. Cardinality(T) \in Nat /\ Cardinality(T) <= Cardinality(S \cup {i})
  <2>1. S \cup {i} \in SUBSET Slots /\ T \in SUBSET Slots
    OBVIOUS
  <2>2. QED
    BY <2>1, SlotSets
<1>4. QED
  BY <1>1, <1>2, <1>3

LEMMA LessensSettled ==
  ASSUME NEW rw, NEW rw2, RowsCoherent(rw), Lessens(rw, rw2)
  PROVE  RowsSettled(rw2)
<1>1. ASSUME NEW j \in Rows
      PROVE  /\ rw2[j].phase # "Reserved"
             /\ rw2[j].phase # "Free" => rw2[j].ticket # "none" \/ rw2[j].proofs # {}
             /\ rw2[j].phase = "AwaitStore" => rw2[j].ticket # "none"
             /\ rw2[j].ticket # "none" => rw2[j].phase \in {"AwaitStore", "Invisible"}
             /\ rw2[j].phase = "Invisible" => rw2[j].proofs = {}
             /\ Delivering(rw2[j]) => Delivering(rw[j]) /\ rw2[j].msg = rw[j].msg
  <2>0. rw2[j].phase # "Free" => rw2[j].ticket # "none" \/ rw2[j].proofs # {}
    BY DEF Lessens
  <2>1. CASE rw2[j] = FreeRow
    BY <2>1, FreshTypes DEF Delivering
  <2>2. CASE rw2[j].phase = "Invisible" /\ rw2[j].proofs = {}
    BY <2>0, <2>2 DEF Delivering
  <2>3. CASE /\ rw2[j].phase = rw[j].phase /\ rw2[j].msg = rw[j].msg /\ rw2[j].proofs \subseteq rw[j].proofs
             /\ rw2[j].ticket = "none" <=> rw[j].ticket = "none"
    BY <2>0, <2>3 DEF Delivering, RowsCoherent
  <2>4. QED
    BY <2>1, <2>2, <2>3 DEF Lessens
<1>2. ASSUME NEW j \in Rows, NEW k \in Rows, Delivering(rw2[j]), Delivering(rw2[k]), rw2[j].msg = rw2[k].msg
      PROVE  j = k
  <2>1. Delivering(rw[j]) /\ Delivering(rw[k]) /\ rw[j].msg = rw[k].msg
    BY <1>1, <1>2
  <2>2. QED
    BY <2>1 DEF RowsCoherent
<1>3. QED
  BY <1>1, <1>2 DEF RowsSettled, RowsCoherent

\* What is given up leaves the books of the rest in order.
LEMMA GivenUp ==
  ASSUME NEW rw, NEW rs, NEW lk, NEW st, NEW fs, Agree(rw, rs, lk, st, fs),
         RowsCoherent(rw), StatesSettled(rw, rs), FramesSettled(rs, fs), CreditsSettled(rw, rs),
         NEW rw2, NEW rs2, Lessens(rw, rw2), Retires(rs, rs2), Masks(rw2, rs2)
  PROVE  Settled(rw2, rs2, fs)
<1>1. RowsSettled(rw2)
  BY LessensSettled
<1>2. StatesSettled(rw2, rs2)
  <2>1. SUFFICES ASSUME NEW i \in Slots, rs2[i].state # "Free", rs2[i].row \in Rows
                 PROVE  rs2[i].state = "Reserved" <=> rw2[rs2[i].row].phase = "AwaitStore"
    BY DEF StatesSettled
  <2>2. rs2[i].state = rs[i].state /\ rs2[i].row = rs[i].row
    BY <2>1 DEF Retires
  <2>3. i \in rw2[rs2[i].row].proofs
    BY <2>1 DEF Masks
  <2>4. rw2[rs2[i].row].phase = rw[rs2[i].row].phase
    BY <2>1, <2>3, FreshTypes DEF Lessens
  <2>5. QED
    BY <2>1, <2>2, <2>4 DEF StatesSettled
<1>3. FramesSettled(rs2, fs)
  <2>1. ASSUME NEW f \in fs \ {Foreign}, HeldBy(rs2, f) PROVE rs2[f.slot].state = "Queued"
    <3>1. f.slot \in Slots
      BY DEF Agree, FramesAgree, FrameType
    <3>2. HeldBy(rs, f) /\ rs2[f.slot].state = rs[f.slot].state
      BY <2>1, <3>1 DEF HeldBy, Retires
    <3>3. QED
      BY <3>2 DEF FramesSettled
  <2>2. ASSUME NEW i \in Slots, rs2[i].state = "Queued" PROVE \E f \in fs : Carries(f, i, rs2[i].gen)
    <3>1. rs2[i].state = rs[i].state /\ rs2[i].gen = rs[i].gen
      BY <2>2 DEF Retires
    <3>2. QED
      BY <2>2, <3>1 DEF FramesSettled
  <2>3. QED
    BY <2>1, <2>2 DEF FramesSettled
<1>4. CreditsSettled(rw2, rs2)
  <2>1. Controls(rs2) \subseteq Controls(rs) /\ Controls(rs) \in SUBSET Slots
    BY DEF Controls, Retires
  <2>2. Cardinality(Controls(rs2)) <= MaxControls
    <3>1. Controls(rs2) \in SUBSET Slots
      BY DEF Controls
    <3>2. /\ Cardinality(Controls(rs2)) <= Cardinality(Controls(rs))
          /\ Cardinality(Controls(rs2)) \in Nat /\ Cardinality(Controls(rs)) \in Nat
      BY <2>1, <3>1, SlotSets
    <3>3. Cardinality(Controls(rs)) <= MaxControls /\ MaxControls \in Nat
      BY DeliveryAssumption DEF CreditsSettled
    <3>4. QED
      BY <3>2, <3>3
  <2>3. ASSUME NEW j \in Rows PROVE Cardinality(rw2[j].proofs) <= ReceiptsPerRow
    <3>1. rw[j].proofs \in SUBSET Slots
      BY DEF Agree, RowsAgree, RowType
    <3>2. rw2[j].proofs \subseteq rw[j].proofs
      BY FreshTypes DEF Lessens
    <3>3. /\ Cardinality(rw2[j].proofs) <= Cardinality(rw[j].proofs)
          /\ Cardinality(rw2[j].proofs) \in Nat /\ Cardinality(rw[j].proofs) \in Nat
      <4>1. rw2[j].proofs \in SUBSET Slots
        BY <3>1, <3>2
      <4>2. QED
        BY <3>1, <3>2, <4>1, SlotSets
    <3>4. Cardinality(rw[j].proofs) <= ReceiptsPerRow /\ ReceiptsPerRow \in Nat
      BY DeliveryAssumption DEF CreditsSettled
    <3>5. QED
      BY <3>3, <3>4
  <2>4. QED
    BY <2>2, <2>3 DEF CreditsSettled
<1>5. QED
  BY <1>1, <1>2, <1>3, <1>4 DEF Settled

LEMMA WithoutLessens ==
  ASSUME NEW rw \in [Rows -> RowType], NEW gone
  PROVE  Lessens(rw, Without(rw, gone))
<1>1. SUFFICES ASSUME NEW j \in Rows
               PROVE  LET r == Without(rw, gone)[j] IN
                      /\ r.phase # "Free" => r.ticket # "none" \/ r.proofs # {}
                      /\ \/ r = FreeRow
                         \/ r.phase = "Invisible" /\ r.proofs = {}
                         \/ /\ r.phase = rw[j].phase /\ r.msg = rw[j].msg /\ r.proofs \subseteq rw[j].proofs
                            /\ r.ticket = "none" <=> rw[j].ticket = "none"
  BY DEF Lessens
<1> DEFINE r == Without(rw, gone)[j]
           left == rw[j].proofs \ gone
<1>2. \/ r = FreeRow
      \/ ~(rw[j].ticket = "none" /\ left = {}) /\ r = [rw[j] EXCEPT !.proofs = left]
  BY DEF Without
<1>3. CASE r = FreeRow
  BY <1>3, FreshTypes
<1>4. CASE ~(rw[j].ticket = "none" /\ left = {}) /\ r = [rw[j] EXCEPT !.proofs = left]
  <2>1. r.phase = rw[j].phase /\ r.msg = rw[j].msg /\ r.proofs = left /\ r.ticket = rw[j].ticket
    BY <1>4 DEF RowType
  <2>2. QED
    BY <1>4, <2>1
<1>5. QED
  BY <1>2, <1>3, <1>4

LEMMA RetiredRetires ==
  ASSUME NEW rs, NEW gone PROVE Retires(rs, RetiredFrom(rs, gone))
  BY DEF Retires, RetiredFrom, FreeReceipt

\* Frames leave, or change but for the receipt they carry.
LEMMA FramesLeave ==
  ASSUME NEW rs, NEW fs, FramesSettled(rs, fs), NEW fs2,
         \A g \in fs2 \ {Foreign} : \E f \in fs : Carries(f, g.slot, g.gen),
         \A f \in fs \ {Foreign} : HeldBy(rs, f) => \E g \in fs2 : Carries(g, f.slot, f.gen)
  PROVE  FramesSettled(rs, fs2)
  BY DEF FramesSettled, HeldBy, Carries

\* A receipt is taken, in the state its row asks for.
LEMMA TakeSettles ==
  ASSUME NEW rw, NEW rs, NEW lk, NEW st, NEW fs, Agree(rw, rs, lk, st, fs), Settled(rw, rs, fs),
         NEW i, NEW j, NEW rs2, NEW rw2, Takes(rw, rs, rw2, rs2, lk, st, i, j),
         RowsSettled(rw2), CreditsSettled(rw2, rs2),
         rs2[i].state \in {"Eligible", "Reserved"},
         j \in Rows => (rs2[i].state = "Reserved" <=> rw2[j].phase = "AwaitStore"),
         \A k \in Rows : rw[k].proofs # {} => rw2[k].phase = rw[k].phase
  PROVE  Settled(rw2, rs2, fs)
<1>1. i \in Slots /\ \A u \in Slots \ {i} : rs2[u] = rs[u]
  BY DEF Takes
<1>2. StatesSettled(rw2, rs2)
  <2>1. SUFFICES ASSUME NEW u \in Slots, rs2[u].state # "Free", rs2[u].row \in Rows
                 PROVE  rs2[u].state = "Reserved" <=> rw2[rs2[u].row].phase = "AwaitStore"
    BY DEF StatesSettled
  <2>2. CASE u = i
    BY <2>1, <2>2 DEF Takes
  <2>3. CASE u # i
    <3>1. rs2[u] = rs[u]
      BY <1>1, <2>3
    <3>2. rw[rs[u].row].proofs # {}
      BY <2>1, <3>1 DEF Agree, Masks
    <3>3. QED
      BY <2>1, <3>1, <3>2 DEF Settled, StatesSettled
  <2>4. QED
    BY <2>2, <2>3
<1>3. FramesSettled(rs2, fs)
  <2>1. ASSUME NEW f \in fs \ {Foreign}, HeldBy(rs2, f) PROVE rs2[f.slot].state = "Queued"
    <3>1. /\ f.slot \in Slots /\ f.gen <= rs[f.slot].gen /\ f.gen \in Nat /\ rs[f.slot].gen \in Nat
          /\ HeldBy(rs, f) => rs[f.slot].kind # "Reservation"
      <4>1. f \in FrameType /\ f.gen <= rs[f.slot].gen /\ (HeldBy(rs, f) => Truthful(rw, rs, lk, f))
        BY DEF Agree, FramesAgree
      <4>2. f.slot \in Slots /\ f.gen \in 0 .. MaxGeneration
        BY <4>1 DEF FrameType
      <4>3. rs[f.slot].gen \in 0 .. MaxGeneration
        BY <4>2 DEF Agree, ReceiptsAgree, ReceiptType
      <4>4. QED
        BY <4>1, <4>2, <4>3 DEF Truthful
    <3>2. CASE f.slot = i
      BY <2>1, <3>1, <3>2 DEF HeldBy, Takes
    <3>3. CASE f.slot # i
      <4>1. rs2[f.slot] = rs[f.slot]
        BY <1>1, <3>1, <3>3
      <4>2. QED
        BY <2>1, <4>1 DEF HeldBy, Settled, FramesSettled
    <3>4. QED
      BY <3>2, <3>3
  <2>2. ASSUME NEW u \in Slots, rs2[u].state = "Queued" PROVE \E f \in fs : Carries(f, u, rs2[u].gen)
    <3>1. rs2[u] = rs[u]
      BY <1>1, <2>2
    <3>2. QED
      BY <2>2, <3>1 DEF Settled, FramesSettled
  <2>3. QED
    BY <2>1, <2>2 DEF FramesSettled
<1>4. QED
  BY <1>2, <1>3 DEF Settled

\* The credits, when the receipt i becomes another one.
LEMMA OtherCredits ==
  ASSUME NEW rw, NEW rs, CreditsSettled(rw, rs), NEW rs2, NEW i, \A u \in Slots \ {i} : rs2[u] = rs[u],
         rs2[i].kind # "Control"
  PROVE  Cardinality(Controls(rs2)) <= MaxControls
<1>1. Controls(rs2) \subseteq Controls(rs) /\ Controls(rs) \in SUBSET Slots /\ Controls(rs2) \in SUBSET Slots
  BY DEF Controls
<1>2. /\ Cardinality(Controls(rs2)) <= Cardinality(Controls(rs))
      /\ Cardinality(Controls(rs2)) \in Nat /\ Cardinality(Controls(rs)) \in Nat
  BY <1>1, SlotSets
<1>3. Cardinality(Controls(rs)) <= MaxControls /\ MaxControls \in Nat
  BY DeliveryAssumption DEF CreditsSettled
<1>4. QED
  BY <1>2, <1>3

LEMMA ControlCredit ==
  ASSUME NEW rs, Cardinality(Controls(rs)) < MaxControls, NEW rs2, NEW i \in Slots,
         \A u \in Slots \ {i} : rs2[u] = rs[u]
  PROVE  Cardinality(Controls(rs2)) <= MaxControls
<1>1. Controls(rs2) \subseteq Controls(rs) \cup {i} /\ Controls(rs) \in SUBSET Slots
  BY DEF Controls
<1>2. MaxControls \in Nat
  BY DeliveryAssumption
<1>3. QED
  BY <1>1, <1>2, SlotAdded
-----------------------------------------------------------------------------
(* The steps of the table keep the books.                                   *)

LEMMA BooksFacts ==
  ASSUME Inv, Books
  PROVE  /\ RowsSettled(rows) /\ RowsCoherent(rows) /\ StatesSettled(rows, receipts) /\ FramesSettled(receipts, Frames)
         /\ CreditsSettled(rows, receipts) /\ Single(txQueue) /\ Settled(rows, receipts, Frames) /\ Now
  BY ReceiptTypes DEF Books, Settled, RowsSettled

LEMMA QuietStep ==
  ASSUME Inv, Books, UNCHANGED radioVars, Settled(rows', receipts', Frames)
  PROVE  Books'
<1>1. Frames' = Frames /\ txQueue' = txQueue
  BY QueueSame DEF radioVars
<1>2. Settled(rows', receipts', Frames')
  BY <1>1
<1>3. Single(txQueue')
  BY <1>1, BooksFacts
<1>4. QED
  BY <1>2, <1>3 DEF Books

LEMMA GivenUpStep ==
  ASSUME Inv, Books, Inv', Lessens(rows, rows'), Retires(receipts, receipts')
  PROVE  Settled(rows', receipts', Frames)
<1>1. Masks(rows', receipts')
  BY DEF Inv, Agree
<1>2. QED
  BY <1>1, BooksFacts, GivenUp DEF Now

\* A row stays what it is and keeps its proofs.
LEMMA SameLessens ==
  ASSUME NEW rw, RowsSettled(rw)
  PROVE  Lessens(rw, rw)
  BY DEF Lessens, RowsSettled

LEMMA RetireBooks ==
  ASSUME Inv, Books, Inv', NEW gone, Retire(gone)
  PROVE  Settled(rows', receipts', Frames)
<1>1. Lessens(rows, rows')
  BY WithoutLessens, ReceiptTypes DEF Retire
<1>2. Retires(receipts, receipts')
  BY RetiredRetires DEF Retire
<1>3. QED
  BY <1>1, <1>2, GivenUpStep

\* A row in delivery gains a proof that it has the credit for.
LEMMA ProofSettles ==
  ASSUME Inv, Books, NEW m, NEW j \in Existing(m), NEW i, NEW rw2, AddsProof(rw2, j, i),
         Cardinality(rows[j].proofs) < ReceiptsPerRow
  PROVE  /\ RowsSettled(rw2)
         /\ \A k \in Rows : rw2[k].phase = rows[k].phase
         /\ \A k \in Rows : Cardinality(rw2[k].proofs) <= ReceiptsPerRow
<1>1. /\ j \in Rows /\ rows[j].phase \notin {"Free", "Invisible"} /\ i \in Slots
      /\ rw2 = [rows EXCEPT ![j].proofs = @ \cup {i}]
  BY DEF AddsProof, Existing
<1>2. \A k \in Rows : /\ rw2[k].phase = rows[k].phase /\ rw2[k].msg = rows[k].msg
                      /\ rw2[k].ticket = rows[k].ticket
                      /\ rw2[k].proofs = IF k = j THEN rows[k].proofs \cup {i} ELSE rows[k].proofs
  BY <1>1, ReceiptTypes DEF RowType
<1>3. RowsSettled(rw2)
  BY <1>1, <1>2, BooksFacts DEF RowsSettled, RowsCoherent, Delivering
<1>4. ASSUME NEW k \in Rows PROVE Cardinality(rw2[k].proofs) <= ReceiptsPerRow
  <2>1. CASE k # j
    BY <1>2, <2>1, BooksFacts DEF CreditsSettled
  <2>2. CASE k = j
    <3>1. rows[j].proofs \in SUBSET Slots /\ ReceiptsPerRow \in Nat
      BY <1>1, ReceiptTypes, DeliveryAssumption DEF RowType
    <3>2. rw2[k].proofs = rows[j].proofs \cup {i}
      BY <1>2, <2>2
    <3>3. QED
      BY <1>1, <3>1, <3>2, SlotAdded
  <2>3. QED
    BY <2>1, <2>2
<1>5. QED
  BY <1>2, <1>3, <1>4

\* The row of a message that is not in delivery.
LEMMA RowSettles ==
  ASSUME Inv, Books, NEW m, Existing(m) = {}, NEW j, NEW P, NEW rw2,
         NEW ticket, ticket = IF m \in Reactions THEN "none" ELSE "waiting", AddsRow(rw2, j, m, ticket, P),
         m \in Reactions => P # {}, Cardinality(P) <= ReceiptsPerRow
  PROVE  /\ RowsSettled(rw2) /\ j \in Rows
         /\ rw2[j].phase = IF m \in Reactions THEN "Reaction" ELSE "AwaitStore"
         /\ \A k \in Rows : rows[k].proofs # {} => rw2[k].phase = rows[k].phase
         /\ \A k \in Rows : Cardinality(rw2[k].proofs) <= ReceiptsPerRow
<1> DEFINE r == NewRow(m, ticket, P)
<1>1. /\ j \in Rows /\ rows[j].proofs = {} /\ \A k \in Rows \ {j} : rw2[k] = rows[k]
      /\ rw2[j].proofs = P
  BY NewRowFacts
<1>2. rw2[j] = r
  BY <1>1, ReceiptTypes DEF AddsRow
<1>3. /\ rw2[j].phase = IF m \in Reactions THEN "Reaction" ELSE "AwaitStore"
      /\ rw2[j].ticket = ticket /\ rw2[j].msg = m /\ rw2[j].proofs = P
  BY <1>2 DEF NewRow
<1>4. ASSUME NEW k \in Rows
      PROVE  /\ rw2[k].phase # "Reserved"
             /\ rw2[k].phase # "Free" => rw2[k].ticket # "none" \/ rw2[k].proofs # {}
             /\ rw2[k].phase = "AwaitStore" => rw2[k].ticket # "none"
             /\ rw2[k].ticket # "none" => rw2[k].phase \in {"AwaitStore", "Invisible"}
             /\ rw2[k].phase = "Invisible" => rw2[k].proofs = {}
  <2>1. CASE k = j
    BY <1>3, <2>1
  <2>2. CASE k # j
    BY <1>1, <2>2, BooksFacts DEF RowsSettled, RowsCoherent
  <2>3. QED
    BY <2>1, <2>2
<1>5. ASSUME NEW k \in Rows, NEW l \in Rows, Delivering(rw2[k]), Delivering(rw2[l]), rw2[k].msg = rw2[l].msg
      PROVE  k = l
  <2>1. ASSUME NEW u \in Rows, u # j, Delivering(rw2[u]) PROVE rw2[u].msg # m
    BY <1>1, <2>1 DEF Existing, Delivering
  <2>2. CASE k # j /\ l # j
    BY <1>1, <1>5, <2>2, BooksFacts DEF RowsSettled, RowsCoherent
  <2>3. CASE k = j \/ l = j
    BY <1>3, <1>5, <2>1, <2>3
  <2>4. QED
    BY <2>2, <2>3
<1>6. RowsSettled(rw2)
  BY <1>4, <1>5 DEF RowsSettled, RowsCoherent
<1>7. ASSUME NEW k \in Rows PROVE Cardinality(rw2[k].proofs) <= ReceiptsPerRow
  <2>1. CASE k = j
    BY <1>1, <2>1
  <2>2. CASE k # j
    BY <1>1, <2>2, BooksFacts DEF CreditsSettled
  <2>3. QED
    BY <2>1, <2>2
<1>8. QED
  BY <1>1, <1>3, <1>6, <1>7

LEMMA OneProof ==
  ASSUME NEW i PROVE Cardinality({i}) <= ReceiptsPerRow
<1>1. Cardinality({i}) = 1
  BY FS_Singleton
<1>2. QED
  BY <1>1, DeliveryAssumption

\* A receipt that is not for a control frame is taken for a row in delivery.
LEMMA TakesProof ==
  ASSUME Inv, Books, NEW m, NEW i \in Slots, NEW j \in Existing(m), NEW rw2, NEW rs2,
         Takes(rows, receipts, rw2, rs2, link, stored, i, j), AddsProof(rw2, j, i),
         Cardinality(rows[j].proofs) < ReceiptsPerRow,
         rs2[i].state = ProofState(j), rs2[i].kind # "Control"
  PROVE  Settled(rw2, rs2, Frames)
<1>1. /\ RowsSettled(rw2)
      /\ \A k \in Rows : rw2[k].phase = rows[k].phase
      /\ \A k \in Rows : Cardinality(rw2[k].proofs) <= ReceiptsPerRow
  BY ProofSettles
<1>2. j \in Rows /\ rows[j].phase \in {"AwaitStore", "Committed", "Reaction"}
  BY BooksFacts, ReceiptTypes DEF Existing, RowsCoherent, RowType, Phases
<1>3. rs2[i].state \in {"Eligible", "Reserved"} /\ (rs2[i].state = "Reserved" <=> rw2[j].phase = "AwaitStore")
  BY <1>1, <1>2 DEF ProofState
<1>4. CreditsSettled(rw2, rs2)
  <2>1. Cardinality(Controls(rs2)) <= MaxControls
    BY BooksFacts, OtherCredits DEF Takes
  <2>2. QED
    BY <1>1, <2>1 DEF CreditsSettled
<1>5. QED
  BY <1>1, <1>3, <1>4, BooksFacts, TakeSettles DEF Now

\* And for a new row.
LEMMA TakesRow ==
  ASSUME Inv, Books, NEW m, Existing(m) = {}, NEW i \in Slots, NEW j, NEW rw2, NEW rs2,
         Takes(rows, receipts, rw2, rs2, link, stored, i, j),
         AddsRow(rw2, j, m, IF m \in Reactions THEN "none" ELSE "waiting", {i}),
         rs2[i].state = IF m \in Reactions THEN "Eligible" ELSE "Reserved", rs2[i].kind # "Control"
  PROVE  Settled(rw2, rs2, Frames)
<1>1. /\ RowsSettled(rw2)
      /\ rw2[j].phase = IF m \in Reactions THEN "Reaction" ELSE "AwaitStore"
      /\ \A k \in Rows : rows[k].proofs # {} => rw2[k].phase = rows[k].phase
      /\ \A k \in Rows : Cardinality(rw2[k].proofs) <= ReceiptsPerRow
  <2> DEFINE P == {i}
             ticket == IF m \in Reactions THEN "none" ELSE "waiting"
  <2>1. P # {} /\ Cardinality(P) <= ReceiptsPerRow /\ AddsRow(rw2, j, m, ticket, P) /\ ticket = IF m \in Reactions THEN "none" ELSE "waiting"
    BY OneProof
  <2> HIDE DEF P, ticket
  <2>2. QED
    BY <2>1, RowSettles
<1>2. rs2[i].state \in {"Eligible", "Reserved"} /\ (rs2[i].state = "Reserved" <=> rw2[j].phase = "AwaitStore")
  BY <1>1
<1>3. CreditsSettled(rw2, rs2)
  <2>1. Cardinality(Controls(rs2)) <= MaxControls
    BY BooksFacts, OtherCredits DEF Takes
  <2>2. QED
    BY <1>1, <2>1 DEF CreditsSettled
<1>4. QED
  BY <1>1, <1>2, <1>3, BooksFacts, TakeSettles DEF Now

\* And for no row, when the receipts are those of rs.
LEMMA TakesNone ==
  ASSUME Inv, NEW rs, Agree(rows, rs, link, stored, Frames), Settled(rows, rs, Frames), NEW i \in Slots, NEW rs2,
         Takes(rows, rs, rows, rs2, link, stored, i, NoRow), rs2[i].state \in {"Eligible", "Reserved"},
         rs2[i].kind # "Control" \/ Cardinality(Controls(rs)) < MaxControls
  PROVE  Settled(rows, rs2, Frames)
<1>1. Cardinality(Controls(rs2)) <= MaxControls
  BY OtherCredits, ControlCredit DEF Takes, Settled
<1>2. RowsSettled(rows) /\ CreditsSettled(rows, rs2)
  BY <1>1 DEF Settled, CreditsSettled
<1>3. QED
  BY <1>2, DeliveryAssumption, TakeSettles

LEMMA ReceiveBooks ==
  ASSUME Inv, Books, Inv', NEW m \in Messages, ReceivePacket(m) \/ ReceiveOnLink(m)
  PROVE  Books'
<1>1. ASSUME NEW kind \in {"Packet", "LinkPacket"}, AcceptCopy(m, kind) PROVE Books'
  <2>1. PICK i \in Slots, j \in Existing(m) :
           /\ Takes(rows, receipts, rows', receipts', link, stored, i, j)
           /\ AddsProof(rows', j, i) /\ Cardinality(rows[j].proofs) < ReceiptsPerRow
           /\ receipts'[i].state = ProofState(j) /\ receipts'[i].kind = kind
    BY <1>1, AcceptCopyTakes
  <2>2. receipts'[i].kind # "Control"
    BY <2>1
  <2>3. Settled(rows', receipts', Frames)
    BY <2>1, <2>2, TakesProof
  <2>4. QED
    BY <1>1, <2>3, QuietStep DEF AcceptCopy
<1>2. ASSUME NEW kind \in {"Packet", "LinkPacket"}, AcceptNew(m, kind) PROVE Books'
  <2>1. ASSUME NEW i \in Slots, NEW j \in Rows,
               Takes(rows, receipts, rows', receipts', link, stored, i, j),
               AddsRow(rows', j, m, IF m \in Reactions THEN "none" ELSE "waiting", {i}),
               receipts'[i].state = IF m \in Reactions THEN "Eligible" ELSE "Reserved",
               receipts'[i].kind = kind
        PROVE  Settled(rows', receipts', Frames)
    <3>1. Existing(m) = {} /\ receipts'[i].kind # "Control"
      BY <1>2, <2>1 DEF AcceptNew
    <3>2. QED
      BY <2>1, <3>1, TakesRow
  <2>2. ASSUME NEW i \in Slots, receipts[i].state = "Free",
               receipts' = [receipts EXCEPT ![i].gen = @ + 1], UNCHANGED rows
        PROVE  Settled(rows', receipts', Frames)
    <3>1. Retires(receipts, receipts')
      <4>1. ASSUME NEW u \in Slots
            PROVE  \/ receipts'[u].state = "Free"
                   \/ receipts'[u] = receipts[u]
        <5>1. CASE u = i
          <6>1. receipts[i] \in ReceiptType /\ receipts'[i] = [receipts[i] EXCEPT !.gen = receipts[i].gen + 1]
            BY <2>2, ReceiptTypes
          <6>2. QED
            BY <2>2, <5>1, <6>1 DEF ReceiptType
        <5>2. CASE u # i
          BY <2>2, <5>2, ReceiptTypes
        <5>3. QED
          BY <5>1, <5>2
      <4>2. QED
        BY <4>1 DEF Retires
    <3>2. Lessens(rows, rows')
      BY <2>2, SameLessens, BooksFacts
    <3>3. QED
      BY <3>1, <3>2, GivenUpStep
  <2>3. Settled(rows', receipts', Frames)
    BY <1>2, <2>1, <2>2, AcceptNewCases
  <2>4. QED
    BY <1>2, <2>3, QuietStep DEF AcceptNew
<1>3. ASSUME AcceptUnproved(m) PROVE Books'
  <2> DEFINE P == {}
             j == Min(FreeRows)
             ticket == "waiting"
  <2>1. /\ Existing(m) = {} /\ m \notin Reactions /\ UNCHANGED <<receipts, radioVars>>
        /\ AddsRow(rows', j, m, ticket, P)
    BY <1>3 DEF AcceptUnproved, AddsRow
  <2>2. Cardinality(P) <= ReceiptsPerRow /\ ticket = IF m \in Reactions THEN "none" ELSE "waiting"
    BY <2>1, FS_EmptySet, DeliveryAssumption
  <2> HIDE DEF P, j, ticket
  <2>added. ASSUME NEW rw2, AddsRow(rw2, j, m, ticket, P)
        PROVE  /\ RowsSettled(rw2)
               /\ \A k \in Rows : rows[k].proofs # {} => rw2[k].phase = rows[k].phase
               /\ \A k \in Rows : Cardinality(rw2[k].proofs) <= ReceiptsPerRow
    BY <2>1, <2>2, <2>added, RowSettles
  <2>3. /\ RowsSettled(rows')
        /\ \A k \in Rows : rows[k].proofs # {} => rows'[k].phase = rows[k].phase
        /\ \A k \in Rows : Cardinality(rows'[k].proofs) <= ReceiptsPerRow
    BY <2>1, <2>added
  <2>4. StatesSettled(rows', receipts)
    <3>1. SUFFICES ASSUME NEW i \in Slots, receipts[i].state # "Free", receipts[i].row \in Rows
                   PROVE  receipts[i].state = "Reserved" <=> rows'[receipts[i].row].phase = "AwaitStore"
      BY DEF StatesSettled
    <3>2. rows[receipts[i].row].proofs # {}
      BY <3>1, ReceiptTypes DEF Masks
    <3>3. QED
      BY <2>3, <3>1, <3>2, BooksFacts DEF StatesSettled
  <2>5. Settled(rows', receipts, Frames)
    BY <2>3, <2>4, BooksFacts DEF Settled, CreditsSettled
  <2>6. QED
    BY <2>1, <2>5, QuietStep
<1>4. QED
  BY <1>1, <1>2, <1>3 DEF ReceivePacket, ReceiveOnLink

LEMMA CompleteResourceBooks ==
  ASSUME Inv, Books, NEW m \in Messages, CompleteResource(m)
  PROVE  Books'
<1>1. PICK i \in Slots, j \in Rows :
        /\ Takes(rows, receipts, rows', receipts', link, stored, i, j) /\ receipts'[i].kind = "Resource"
        /\ \/ /\ j \in Existing(m) /\ AddsProof(rows', j, i) /\ Cardinality(rows[j].proofs) < ReceiptsPerRow
              /\ receipts'[i].state = ProofState(j)
           \/ /\ Existing(m) = {}
              /\ AddsRow(rows', j, m, IF m \in Reactions THEN "none" ELSE "waiting", {i})
              /\ receipts'[i].state = IF m \in Reactions THEN "Eligible" ELSE "Reserved"
  BY CompleteResourceTakes
<1>2. receipts'[i].kind # "Control"
  BY <1>1
<1>3. Settled(rows', receipts', Frames)
  BY <1>1, <1>2, TakesProof, TakesRow
<1>4. QED
  BY <1>3, QuietStep DEF CompleteResource

LEMMA ReserveResourceBooks == Inv /\ Books /\ ReserveResource => Books'
<1> SUFFICES ASSUME Inv, Books, ReserveResource PROVE Books'
  OBVIOUS
<1>1. PICK i \in Slots :
        /\ Takes(rows, receipts, rows, receipts', link, stored, i, NoRow) /\ UNCHANGED rows
        /\ receipts'[i].state = "Reserved" /\ receipts'[i].kind = "Reservation"
  BY ReservationTakes
<1>2. receipts'[i].kind # "Control"
  BY <1>1
<1>3. Settled(rows, receipts', Frames)
  BY <1>1, <1>2, BooksFacts, TakesNone DEF Now
<1>4. QED
  BY <1>1, <1>3, QuietStep DEF ReserveResource

LEMMA CloseCancelledBooks ==
  ASSUME Inv, inbound.phase # "none", NEW rs, Agree(rows, rs, link, stored, Frames), Settled(rows, rs, Frames),
         CloseCancelled(rs)
  PROVE  Settled(rows, receipts', Frames)
<1>1. CASE receipts' = rs
  BY <1>1
<1>2. ASSUME NEW i \in Slots, Takes(rows, rs, rows, receipts', link, stored, i, NoRow),
             receipts'[i].state = "Eligible", Cardinality(Controls(rs)) < MaxControls
      PROVE  Settled(rows, receipts', Frames)
  BY <1>2, TakesNone
<1>3. QED
  BY <1>1, <1>2, CloseCancelledCases

LEMMA RefuseResourceBooks == Inv /\ Books /\ RefuseResource => Books'
<1> SUFFICES ASSUME Inv, Books, RefuseResource PROVE Books'
  OBVIOUS
<1>1. inbound.phase # "none" /\ inbound.slot \in Slots /\ UNCHANGED <<rows, radioVars>>
  BY DEF RefuseResource, Assembled, Inv, Types, InboundOK
<1>2. CASE CloseCancelled(receipts)
  <2>1. Settled(rows, receipts', Frames)
    BY <1>1, <1>2, BooksFacts, CloseCancelledBooks DEF Now
  <2>2. QED
    BY <1>1, <2>1, QuietStep
<1>3. CASE ReservationLive /\ CloseCancelled(RetiredFrom(receipts, {inbound.slot}))
  <2> DEFINE rs == RetiredFrom(receipts, {inbound.slot})
  <2>1. receipts[inbound.slot].row = NoRow
    BY <1>1, <1>3, ReceiptTypes DEF ReservationLive, Held, ReceiptsAgree
  <2>2. Agree(rows, rs, link, stored, Frames)
    BY <1>1, <2>1, NoRowKeeps
  <2>3. Settled(rows, rs, Frames)
    <3>1. Masks(rows, rs) /\ Retires(receipts, rs) /\ Lessens(rows, rows)
      BY <2>2, RetiredRetires, SameLessens, BooksFacts DEF Agree
    <3>2. QED
      BY <3>1, BooksFacts, GivenUp DEF Now
  <2> HIDE DEF rs
  <2>4. Settled(rows, receipts', Frames)
    BY <1>1, <1>3, <2>2, <2>3, CloseCancelledBooks DEF rs
  <2>5. QED
    BY <1>1, <2>4, QuietStep
<1>4. QED
  BY <1>2, <1>3 DEF RefuseResource

LEMMA ResourceLoopBooks == Inv /\ Books /\ Inv' /\ ResourceLoop => Books'
<1> SUFFICES ASSUME Inv, Books, Inv', ResourceLoop PROVE Books'
  OBVIOUS
<1>1. inbound.phase # "none" /\ UNCHANGED radioVars
  BY DEF ResourceLoop
<1>2. CASE CloseCancelled(receipts) /\ UNCHANGED rows
  <2>1. Settled(rows, receipts', Frames)
    BY <1>1, <1>2, BooksFacts, CloseCancelledBooks DEF Now
  <2>2. QED
    BY <1>1, <1>2, <2>1, QuietStep
<1>3. CASE Retire(IF Held(inbound.slot, inbound.gen) THEN {inbound.slot} ELSE {})
  BY <1>1, <1>3, RetireBooks, QuietStep
<1>4. QED
  BY <1>2, <1>3 DEF ResourceLoop

LEMMA CancelResourceBooks ==
  ASSUME Inv, Books, Inv', NEW i \in Slots, CancelResource(i)
  PROVE  Books'
  BY RetireBooks, QuietStep DEF CancelResource

LEMMA RefuseSecondBooks == Inv /\ Books /\ RefuseSecondTransfer => Books'
<1> SUFFICES ASSUME Inv, Books, RefuseSecondTransfer PROVE Books'
  OBVIOUS
<1> DEFINE i == Min(FreeSlots(receipts))
<1>1. /\ receipts' = Allocated(receipts, i, "Control", "Eligible", NoRow)
      /\ Cardinality(Controls(receipts)) < MaxControls /\ UNCHANGED <<rows, radioVars>>
      /\ FreeSlots(receipts) # {} /\ MaySeed("Control")
  BY DEF RefuseSecondTransfer
<1>2. Takes(rows, receipts, rows, receipts', link, stored, i, NoRow) /\ receipts'[i].state = "Eligible"
  BY <1>1, BooksFacts, ControlTakes DEF Now
<1> HIDE DEF i
<1>3. i \in Slots
  BY <1>2 DEF Takes
<1>4. Settled(rows, receipts', Frames)
  BY <1>1, <1>2, <1>3, BooksFacts, TakesNone DEF Now
<1>5. QED
  BY <1>1, <1>4, QuietStep

\* A receipt whose deadline passed is not given up yet.
LEMMA ExpireBooks ==
  ASSUME Inv, Books, Inv', NEW i \in Slots, Expire(i)
  PROVE  Books'
<1>1. receipts' = [receipts EXCEPT ![i].fresh = FALSE] /\ UNCHANGED <<rows, radioVars>>
  BY DEF Expire
<1>2. ASSUME NEW u \in Slots
      PROVE  /\ receipts'[u].state = receipts[u].state /\ receipts'[u].gen = receipts[u].gen
             /\ receipts'[u].row = receipts[u].row /\ receipts'[u].kind = receipts[u].kind
  <2>1. receipts[u] \in ReceiptType
    BY ReceiptTypes
  <2>2. receipts'[u] = receipts[u] \/ receipts'[u] = [receipts[u] EXCEPT !.fresh = FALSE]
    BY <1>1, ReceiptTypes
  <2>3. QED
    BY <2>1, <2>2 DEF ReceiptType
<1>3. Retires(receipts, receipts') /\ Lessens(rows, rows')
  BY <1>1, <1>2, SameLessens, BooksFacts DEF Retires
<1>4. QED
  BY <1>1, <1>3, GivenUpStep, QuietStep

LEMMA StoreExecuteBooks ==
  ASSUME Inv, Books, Inv', NEW j \in Rows, StoreExecute(j)
  PROVE  Books'
<1>1. /\ rows[j].ticket = "waiting" /\ UNCHANGED <<receipts, radioVars>>
      /\ \E ticket \in {"committed", "duplicate", "failed"} : rows' = [rows EXCEPT ![j].ticket = ticket]
  BY DEF StoreExecute
<1>2. PICK ticket \in {"committed", "duplicate", "failed"} : rows' = [rows EXCEPT ![j].ticket = ticket]
  BY <1>1
<1>3. \A k \in Rows : /\ rows'[k].phase = rows[k].phase /\ rows'[k].msg = rows[k].msg
                      /\ rows'[k].proofs = rows[k].proofs
                      /\ rows'[k].ticket = IF k = j THEN ticket ELSE rows[k].ticket
  BY <1>2, ReceiptTypes DEF RowType
<1>4. Lessens(rows, rows')
  BY <1>1, <1>3, BooksFacts DEF Lessens, RowsSettled
<1>5. Retires(receipts, receipts')
  BY <1>1 DEF Retires
<1>6. QED
  BY <1>1, <1>4, <1>5, GivenUpStep, QuietStep

\* The answered row is committed, and its receipts are eligible with it: they
\* were reserved, and so without a frame in the queue.
LEMMA CommittedBooks ==
  ASSUME Inv, Books, Inv', NEW j \in Rows, Committed(j),
         rows' = Without([rows EXCEPT ![j].ticket = "none", ![j].phase = "Committed"], {}),
         receipts' = [i \in Slots |-> IF i \in rows[j].proofs THEN [receipts[i] EXCEPT !.state = "Eligible"]
                                      ELSE receipts[i]]
  PROVE  Settled(rows', receipts', Frames)
<1> DEFINE answered == [rows EXCEPT ![j].ticket = "none", ![j].phase = "Committed"]
<1>1. /\ rows[j].phase = "AwaitStore" /\ rows[j] \in RowType
      /\ \A i \in rows[j].proofs : i \in Slots /\ receipts[i].state = "Reserved" /\ receipts[i].row = j
  <2>1. rows[j].phase = "AwaitStore" /\ rows[j] \in RowType
    BY BooksFacts, ReceiptTypes DEF RowsCoherent, Committed
  <2>2. QED
    BY <2>1, BooksFacts, ReceiptTypes DEF Masks, StatesSettled
<1>2. /\ answered = [rows EXCEPT ![j] = [rows[j] EXCEPT !.ticket = "none", !.phase = "Committed"]]
      /\ rows' = Without(answered, {})
  BY ReceiptTypes
<1> HIDE DEF answered
<1>3. /\ answered[j].ticket = "none" /\ answered[j].phase = "Committed" /\ answered[j].msg = rows[j].msg
      /\ answered[j].proofs = rows[j].proofs /\ answered[j] \in RowType
  BY <1>1, <1>2, ReceiptTypes DEF RowType, Phases, Tickets
<1>4. \A k \in Rows \ {j} : answered[k] = rows[k]
  BY <1>2, ReceiptTypes
<1>5. answered \in [Rows -> RowType]
  BY <1>2, <1>3, <1>4, ReceiptTypes
<1>6. \A i \in Slots : /\ receipts'[i].state = IF i \in rows[j].proofs THEN "Eligible" ELSE receipts[i].state
                       /\ receipts'[i].gen = receipts[i].gen /\ receipts'[i].row = receipts[i].row
                       /\ receipts'[i].kind = receipts[i].kind
  <2>1. TAKE i \in Slots
  <2>2. receipts[i] \in ReceiptType
    BY ReceiptTypes
  <2>3. receipts'[i] = IF i \in rows[j].proofs THEN [receipts[i] EXCEPT !.state = "Eligible"] ELSE receipts[i]
    OBVIOUS
  <2>4. QED
    BY <2>2, <2>3 DEF ReceiptType
<1>7. RowsCoherent(answered)
  <2>1. ASSUME NEW k \in Rows
        PROVE  /\ answered[k].phase # "Reserved"
               /\ answered[k].phase = "AwaitStore" => answered[k].ticket # "none"
               /\ answered[k].ticket # "none" => answered[k].phase \in {"AwaitStore", "Invisible"}
               /\ answered[k].phase = "Invisible" => answered[k].proofs = {}
               /\ Delivering(answered[k]) => Delivering(rows[k]) /\ answered[k].msg = rows[k].msg
    <3>1. CASE k = j
      BY <1>1, <1>3, <3>1 DEF Delivering
    <3>2. CASE k # j
      BY <1>4, <3>2, BooksFacts DEF RowsCoherent
    <3>3. QED
      BY <3>1, <3>2
  <2>2. ASSUME NEW k \in Rows, NEW l \in Rows, Delivering(answered[k]), Delivering(answered[l]),
               answered[k].msg = answered[l].msg
        PROVE  k = l
    <3>1. Delivering(rows[k]) /\ Delivering(rows[l]) /\ rows[k].msg = rows[l].msg
      BY <2>1, <2>2
    <3>2. QED
      BY <3>1, BooksFacts DEF RowsCoherent
  <2>3. QED
    BY <2>1, <2>2 DEF RowsCoherent
<1>8. StatesSettled(answered, receipts')
  <2>1. SUFFICES ASSUME NEW i \in Slots, receipts'[i].state # "Free", receipts'[i].row \in Rows
                 PROVE  receipts'[i].state = "Reserved" <=> answered[receipts'[i].row].phase = "AwaitStore"
    BY DEF StatesSettled
  <2>2. CASE i \in rows[j].proofs
    BY <1>1, <1>3, <1>6, <2>2
  <2>3. CASE i \notin rows[j].proofs
    <3>1. receipts[i].state # "Free" /\ receipts'[i].state = receipts[i].state /\ receipts'[i].row = receipts[i].row
      BY <1>6, <2>1, <2>3
    <3>2. receipts[i].row # j
      BY <2>3, <3>1, ReceiptTypes DEF Masks
    <3>3. QED
      BY <1>4, <2>1, <3>1, <3>2, BooksFacts DEF StatesSettled
  <2>4. QED
    BY <2>2, <2>3
<1>9. FramesSettled(receipts', Frames)
  <2>1. ASSUME NEW f \in Frames \ {Foreign}, HeldBy(receipts', f) PROVE receipts'[f.slot].state = "Queued"
    <3>1. f.slot \in Slots
      BY ReceiptTypes DEF Now, Agree, FramesAgree, FrameType
    <3>2. HeldBy(receipts, f)
      BY <1>1, <1>6, <2>1, <3>1 DEF HeldBy
    <3>3. receipts[f.slot].state = "Queued"
      BY <3>2, BooksFacts DEF FramesSettled
    <3>4. QED
      BY <1>1, <1>6, <3>1, <3>3
  <2>2. ASSUME NEW i \in Slots, receipts'[i].state = "Queued"
        PROVE  \E f \in Frames : Carries(f, i, receipts'[i].gen)
    BY <1>6, <2>2, BooksFacts DEF FramesSettled
  <2>3. QED
    BY <2>1, <2>2 DEF FramesSettled
<1>10. CreditsSettled(answered, receipts')
  <2>1. Controls(receipts') = Controls(receipts)
    BY <1>1, <1>6 DEF Controls
  <2>2. \A k \in Rows : answered[k].proofs = rows[k].proofs
    BY <1>3, <1>4
  <2>3. QED
    BY <2>1, <2>2, BooksFacts DEF CreditsSettled
<1>11. Agree(answered, receipts', link, stored, Frames)
  <2>1. Agree(answered, receipts, link, stored, Frames)
    <3>1. rows[j].msg \in stored /\ ~rows[j].revoked
      BY <1>1, ReceiptTypes DEF RowsAgree, Committed
    <3>2. QED
      BY <1>1, <3>1, AnsweredKeeps DEF answered
  <2>2. receipts' \in [Slots -> ReceiptType] /\ \A i \in Slots : receipts'[i].revoked = receipts[i].revoked
    <3>1. ASSUME NEW i \in Slots PROVE receipts'[i] \in ReceiptType /\ receipts'[i].revoked = receipts[i].revoked
      <4>1. receipts[i] \in ReceiptType
        BY ReceiptTypes
      <4>2. receipts'[i] = IF i \in rows[j].proofs THEN [receipts[i] EXCEPT !.state = "Eligible"] ELSE receipts[i]
        OBVIOUS
      <4>3. QED
        BY <4>1, <4>2 DEF ReceiptType, States
    <3>2. QED
      BY <3>1
  <2>3. \A i \in Slots : receipts'[i].state = "Free" <=> receipts[i].state = "Free"
    BY <1>1, <1>6
  <2>4. QED
    BY <1>6, <2>1, <2>2, <2>3, ReceiptsChangeKeeps
<1>12. Lessens(answered, rows') /\ Retires(receipts', receipts') /\ Masks(rows', receipts')
  BY <1>2, <1>5, WithoutLessens DEF Retires, Inv, Agree
<1>13. QED
  BY <1>7, <1>8, <1>9, <1>10, <1>11, <1>12, GivenUp

LEMMA PollRowBooks ==
  ASSUME Inv, Books, Inv', NEW j \in Rows, PollRow(j)
  PROVE  Books'
<1> DEFINE answered(phase) == [rows EXCEPT ![j].ticket = "none", ![j].phase = phase]
<1>1. Settled(rows', receipts', Frames)
  <2>1. CASE /\ Committed(j) /\ rows' = Without(answered("Committed"), {})
             /\ receipts' = [i \in Slots |-> IF i \in rows[j].proofs THEN [receipts[i] EXCEPT !.state = "Eligible"]
                                             ELSE receipts[i]]
    BY <2>1, CommittedBooks
  <2>2. CASE /\ rows' = Without(answered("Invisible"), rows[j].proofs)
             /\ receipts' = RetiredFrom(receipts, rows[j].proofs)
    <3> DEFINE rw == answered("Invisible")
               gone == rows[j].proofs
    <3>1. rw[j].ticket = "none" /\ rw[j].proofs = gone
      BY ReceiptTypes DEF RowType
    <3>2. \A k \in Rows \ {j} : rw[k] = rows[k]
      BY ReceiptTypes
    <3>3. rows' = Without(rw, gone)
      BY <2>2
    <3> HIDE DEF rw, gone
    <3>4. rows'[j] = FreeRow /\ \A k \in Rows \ {j} : rows'[k] = Without(rows, gone)[k]
      BY <3>1, <3>2, <3>3 DEF Without
    <3>5. Lessens(rows, Without(rows, gone))
      BY WithoutLessens, ReceiptTypes
    <3>6. Lessens(rows, rows')
      <4>1. SUFFICES ASSUME NEW k \in Rows
                     PROVE  /\ rows'[k].phase # "Free" => rows'[k].ticket # "none" \/ rows'[k].proofs # {}
                            /\ \/ rows'[k] = FreeRow
                               \/ rows'[k].phase = "Invisible" /\ rows'[k].proofs = {}
                               \/ /\ rows'[k].phase = rows[k].phase /\ rows'[k].msg = rows[k].msg
                                  /\ rows'[k].proofs \subseteq rows[k].proofs
                                  /\ rows'[k].ticket = "none" <=> rows[k].ticket = "none"
        BY DEF Lessens
      <4>2. CASE k = j
        BY <3>4, <4>2, FreshTypes
      <4>3. CASE k # j
        BY <3>4, <3>5, <4>3 DEF Lessens
      <4>4. QED
        BY <4>2, <4>3
    <3>7. Retires(receipts, receipts')
      BY <2>2, RetiredRetires
    <3>8. QED
      BY <3>6, <3>7, GivenUpStep
  <2>3. QED
    BY <2>1, <2>2 DEF PollRow, Committed
<1>2. QED
  BY <1>1, QuietStep DEF PollRow
-----------------------------------------------------------------------------
(* The steps of the radio keep the books.                                   *)

LEMMA KeptSingle ==
  ASSUME QueueType, Single(txQueue), NEW live
  PROVE  Single(Kept(live))
<1>1. /\ \A n \in DOMAIN Kept(live) : /\ Place(live, n) \in DOMAIN txQueue
                                      /\ Kept(live)[n] = txQueue[Place(live, n)]
      /\ \A n, m \in DOMAIN Kept(live) : Place(live, n) = Place(live, m) => n = m
  BY KeptFacts DEF QueueType
<1>2. QED
  BY <1>1 DEF Single

LEMMA TailSingle ==
  ASSUME NEW T, NEW q \in Seq(T), q # <<>>
  PROVE  ToSet(q) = ToSet(Tail(q)) \cup {Head(q)} /\ (Single(q) => Single(Tail(q)))
<1>1. /\ Tail(q) \in Seq(T) /\ Head(q) = q[1] /\ Len(q) \in Nat \ {0}
      /\ Len(Tail(q)) = Len(q) - 1 /\ \A i \in 1 .. Len(Tail(q)) : Tail(q)[i] = q[i + 1]
  BY HeadTailProperties, EmptySeq
<1>2. DOMAIN q = 1 .. Len(q) /\ DOMAIN Tail(q) = 1 .. Len(q) - 1
  BY <1>1
<1>3. \A i \in DOMAIN Tail(q) : i + 1 \in DOMAIN q /\ Tail(q)[i] = q[i + 1]
  BY <1>1, <1>2
<1>4. \A k \in DOMAIN q : k = 1 \/ (k - 1 \in DOMAIN Tail(q) /\ Tail(q)[k - 1] = q[k])
  <2>1. TAKE k \in DOMAIN q
  <2>2. CASE k # 1
    <3>1. k - 1 \in 1 .. Len(q) - 1 /\ (k - 1) + 1 = k
      BY <1>1, <1>2, <2>2
    <3>2. QED
      BY <1>2, <1>3, <3>1
  <2>3. QED
    BY <2>2
<1>5. ToSet(q) = ToSet(Tail(q)) \cup {Head(q)}
  <2>1. ASSUME NEW k \in DOMAIN q PROVE q[k] \in ToSet(Tail(q)) \cup {Head(q)}
    BY <1>1, <1>4 DEF ToSet
  <2>2. ASSUME NEW k \in DOMAIN Tail(q) PROVE Tail(q)[k] \in ToSet(q)
    BY <1>3 DEF ToSet
  <2>3. 1 \in DOMAIN q /\ Head(q) \in ToSet(q)
    BY <1>1, <1>2 DEF ToSet
  <2>4. ToSet(q) \subseteq ToSet(Tail(q)) \cup {Head(q)}
    BY <2>1 DEF ToSet
  <2>5. ToSet(Tail(q)) \subseteq ToSet(q)
    BY <2>2 DEF ToSet
  <2>6. QED
    BY <2>3, <2>4, <2>5
<1>6. ASSUME Single(q) PROVE Single(Tail(q))
  <2>1. SUFFICES ASSUME NEW a \in DOMAIN Tail(q), NEW b \in DOMAIN Tail(q), Tail(q)[a] # Foreign, Tail(q)[b] # Foreign,
                        Tail(q)[a].slot = Tail(q)[b].slot, Tail(q)[a].gen = Tail(q)[b].gen
                 PROVE  a = b
    BY DEF Single
  <2>2. a + 1 = b + 1
    BY <1>3, <1>6, <2>1 DEF Single
  <2>3. QED
    BY <1>1, <1>2, <2>2
<1>7. QED
  BY <1>5, <1>6

LEMMA AppendSingle ==
  ASSUME NEW T, NEW q \in Seq(T), NEW f \in T, Single(q),
         \A g \in ToSet(q) : f # Foreign => ~Carries(g, f.slot, f.gen)
  PROVE  Single(Append(q, f))
<1>1. /\ Append(q, f) \in Seq(T) /\ Len(q) \in Nat /\ Len(Append(q, f)) = Len(q) + 1
      /\ \A i \in 1 .. Len(q) : Append(q, f)[i] = q[i]
      /\ Append(q, f)[Len(q) + 1] = f
  BY AppendProperties
<1>2. DOMAIN q = 1 .. Len(q) /\ DOMAIN Append(q, f) = 1 .. Len(q) + 1
  BY <1>1
<1>3. \A k \in DOMAIN Append(q, f) : \/ k = Len(q) + 1 /\ Append(q, f)[k] = f
                                     \/ k \in DOMAIN q /\ Append(q, f)[k] = q[k] /\ q[k] \in ToSet(q)
  BY <1>1, <1>2 DEF ToSet
<1>4. QED
  BY <1>3 DEF Single, Carries

\* What an offer takes from the queue is dead, and what it adds is one frame.
LEMMA OfferLeaves ==
  ASSUME QueueType, Single(txQueue), NEW f \in FrameType \cup {Foreign}, NEW live, NEW offer, Offer(f, live, offer),
         offer = "Queued" => \A g \in Frames : f # Foreign => ~Carries(g, f.slot, f.gen)
  PROVE  /\ Frames \ Frames' \subseteq Dead(live)
         /\ offer = "Queued" => f \in Frames'
         /\ Single(txQueue')
<1>1. Kept(live) \in Seq(FrameType \cup {Foreign}) /\ ToSet(Kept(live)) = Frames \cap live /\ Single(Kept(live))
  BY KeptFacts, KeptSingle DEF QueueType
<1>2. CASE offer # "Queued" /\ UNCHANGED txQueue
  BY <1>2 DEF Frames
<1>3. CASE offer # "Queued" /\ txQueue' = Kept(live)
  <2>1. Frames' = Frames \cap live
    BY <1>1, <1>3 DEF Frames
  <2>2. QED
    BY <1>1, <1>3, <2>1 DEF Dead
<1>4. CASE offer # "Queued" /\ Kept(live) = <<>> /\ txQueue' = <<>>
  <2>1. txQueue' = Kept(live)
    BY <1>4
  <2>2. QED
    BY <1>3, <1>4, <2>1
<1>5. CASE offer = "Queued" /\ txQueue' = Append(Kept(live), f)
  <2>1. Frames' = (Frames \cap live) \cup {f}
    BY <1>1, <1>5, AppendFrames DEF Frames
  <2>2. Single(Append(Kept(live), f))
    BY <1>1, <1>5, AppendSingle
  <2>3. QED
    BY <1>5, <2>1, <2>2 DEF Dead
<1>6. QED
  BY <1>2, <1>3, <1>4, <1>5 DEF Offer

\* The receipts of what leaves are retired in the same step.
LEMMA LeaveBooks ==
  ASSUME Inv, Books, Settled(rows', receipts', Frames), Single(txQueue'),
         Frames' \subseteq Frames \cup {Foreign},
         \A f \in Frames \ {Foreign} : HeldBy(receipts', f) => f \in Frames'
  PROVE  Books'
<1>1. FramesSettled(receipts', Frames')
  <2>1. \A g \in Frames' \ {Foreign} : \E f \in Frames : Carries(f, g.slot, g.gen)
    BY DEF Carries
  <2>2. \A f \in Frames \ {Foreign} : HeldBy(receipts', f) => \E g \in Frames' : Carries(g, f.slot, f.gen)
    BY DEF Carries
  <2>3. FramesSettled(receipts', Frames)
    BY DEF Settled
  <2>4. QED
    BY <2>1, <2>2, <2>3, FramesLeave
<1>2. Settled(rows', receipts', Frames')
  BY <1>1 DEF Settled
<1>3. QED
  BY <1>2 DEF Books

LEMMA LeavesRetired ==
  ASSUME Inv, NEW D, Frames \ Frames' \subseteq D, NEW gone, ReceiptsOf(D) \subseteq gone,
         receipts' = RetiredFrom(receipts, gone)
  PROVE  \A f \in Frames \ {Foreign} : HeldBy(receipts', f) => f \in Frames'
<1>1. SUFFICES ASSUME NEW f \in Frames \ {Foreign}, HeldBy(receipts', f), f \notin Frames' PROVE FALSE
  OBVIOUS
<1>2. f \in D \ {Foreign} /\ f.slot \in Slots
  BY <1>1, ReceiptTypes DEF Now, Agree, FramesAgree, FrameType
<1>3. f.slot \notin gone /\ receipts'[f.slot] = receipts[f.slot]
  BY <1>1, <1>2 DEF RetiredFrom, FreeReceipt, HeldBy
<1>4. Held(f.slot, f.gen)
  BY <1>1, <1>2, <1>3 DEF Held, HeldBy
<1>5. f.slot \in ReceiptsOf(D)
  BY <1>2, <1>4 DEF ReceiptsOf
<1>6. QED
  BY <1>3, <1>5

LEMMA TransmitBooks == Inv /\ Books /\ Inv' /\ Transmit => Books'
<1> SUFFICES ASSUME Inv, Books, Inv', Transmit PROVE Books'
  OBVIOUS
<1>1. PICK others \in SUBSET {Foreign}, frame \in Frames :
        /\ DrainTx(Live \cup others, frame)
        /\ Retire(ReceiptsOf(Dead(Live \cup others) \cup {frame}))
  BY DEF Transmit
<1> DEFINE live == Live \cup others
           D == Dead(live) \cup {frame}
<1>2. QueueType /\ Single(txQueue) /\ QueueType' /\ Frames' \subseteq Frames
  BY <1>1, DrainFrames, BooksFacts DEF Inv, Types, QueueType
<1>3. /\ Kept(live) \in Seq(FrameType \cup {Foreign}) /\ ToSet(Kept(live)) = Frames \cap live /\ Single(Kept(live))
      /\ Kept(live) # <<>> /\ frame = Head(Kept(live)) /\ txQueue' = Tail(Kept(live))
  BY <1>1, <1>2, KeptFacts, KeptSingle DEF QueueType, DrainTx
<1> HIDE DEF live
<1>4. Single(txQueue') /\ Frames \cap live = Frames' \cup {frame}
  BY <1>3, TailSingle DEF Frames
<1>5. Frames \ Frames' \subseteq D
  BY <1>4 DEF Dead
<1>6. Retire(ReceiptsOf(D))
  BY <1>1 DEF live
<1> HIDE DEF D
<1>7. \A f \in Frames \ {Foreign} : HeldBy(receipts', f) => f \in Frames'
  BY <1>5, <1>6, LeavesRetired DEF Retire
<1>8. Settled(rows', receipts', Frames)
  BY <1>6, RetireBooks
<1>9. QED
  BY <1>2, <1>4, <1>7, <1>8, LeaveBooks

LEMMA DiscardBooks == Inv /\ Books /\ Inv' /\ Discard => Books'
<1> SUFFICES ASSUME Inv, Books, Inv', Discard PROVE Books'
  OBVIOUS
<1>1. PICK others \in SUBSET {Foreign} :
        txQueue' = Kept(Live \cup others) /\ Retire(ReceiptsOf(Dead(Live \cup others)))
  BY DEF Discard, DiscardExpired
<1> DEFINE live == Live \cup others
<1>2. QueueType /\ Single(txQueue)
  BY BooksFacts DEF Inv, Types, QueueType
<1>3. ToSet(Kept(live)) = Frames \cap live /\ Single(Kept(live))
  BY <1>2, KeptFacts, KeptSingle DEF QueueType
<1>4. txQueue' = Kept(live) /\ Retire(ReceiptsOf(Dead(live)))
  BY <1>1
<1> HIDE DEF live
<1>5. Frames' = Frames \cap live /\ Single(txQueue')
  BY <1>3, <1>4 DEF Frames
<1>6. Frames \ Frames' \subseteq Dead(live)
  BY <1>5 DEF Dead
<1>7. \A f \in Frames \ {Foreign} : HeldBy(receipts', f) => f \in Frames'
  BY <1>4, <1>6, LeavesRetired DEF Retire
<1>8. Settled(rows', receipts', Frames)
  BY <1>4, RetireBooks
<1>9. QED
  BY <1>5, <1>7, <1>8, LeaveBooks

LEMMA OfferForeignBooks == Inv /\ Books /\ Inv' /\ OfferForeign => Books'
<1> SUFFICES ASSUME Inv, Books, Inv', OfferForeign PROVE Books'
  OBVIOUS
<1>1. Offer(Foreign, Live, "Queued") /\ Retire(ReceiptsOf(Dead(Live)))
  BY DEF OfferForeign
<1>2. QueueType /\ Single(txQueue) /\ Foreign \in FrameType \cup {Foreign}
  BY BooksFacts DEF Inv, Types, QueueType
<1>3. Frames' \subseteq Frames \cup {Foreign} /\ Frames \ Frames' \subseteq Dead(Live) /\ Single(txQueue')
  BY <1>1, <1>2, OfferFrames, OfferLeaves
<1>4. \A f \in Frames \ {Foreign} : HeldBy(receipts', f) => f \in Frames'
  BY <1>1, <1>3, LeavesRetired DEF Retire
<1>5. Settled(rows', receipts', Frames)
  BY <1>1, RetireBooks
<1>6. QED
  BY <1>3, <1>4, <1>5, LeaveBooks

LEMMA RadioStopBooks == Inv /\ Books /\ Inv' /\ RadioStop => Books'
<1> SUFFICES ASSUME Inv, Books, Inv', RadioStop PROVE Books'
  OBVIOUS
<1> DEFINE gone == ReceiptsOf(Frames)
           kept == RetiredFrom(receipts, gone)
<1>1. /\ txQueue' = <<>> /\ rows' = Without(rows, gone)
      /\ receipts' = [i \in Slots |-> [kept[i] EXCEPT !.fresh = FALSE]]
  BY DEF RadioStop, Stop
<1>2. Frames' = {} /\ Single(txQueue')
  BY <1>1 DEF Frames, ToSet, Single
<1>3. Agree(rows', kept, link, stored, Frames)
  BY <1>1, ReceiptTypes, RetireKeeps DEF Now
<1>4. \A i \in Slots : kept[i] \in ReceiptType
  BY <1>3 DEF Agree, ReceiptsAgree
<1>5. Retires(receipts, kept)
  BY RetiredRetires
<1>gone. \A i \in Slots : IF i \in gone THEN kept[i].state = "Free" ELSE kept[i] = receipts[i]
  BY DEF RetiredFrom, FreeReceipt
<1> HIDE DEF kept
<1>6. \A i \in Slots : /\ receipts'[i].state = kept[i].state /\ receipts'[i].gen = kept[i].gen
                       /\ receipts'[i].row = kept[i].row /\ receipts'[i].kind = kept[i].kind
  BY <1>1, <1>4 DEF ReceiptType
<1>7. Retires(receipts, receipts')
  BY <1>5, <1>6 DEF Retires
<1> HIDE DEF gone
<1>8. Lessens(rows, rows')
  BY <1>1, WithoutLessens, ReceiptTypes
<1>9. Settled(rows', receipts', Frames)
  BY <1>7, <1>8, GivenUpStep
<1>10. ASSUME NEW f \in Frames \ {Foreign} PROVE ~HeldBy(receipts', f)
  <2>1. f.slot \in Slots
    BY ReceiptTypes DEF Now, Agree, FramesAgree, FrameType
  <2>2. CASE f.slot \in gone
    <3>1. receipts'[f.slot].state = "Free"
      BY <1>6, <1>gone, <2>1, <2>2
    <3>2. QED
      BY <3>1 DEF HeldBy
  <2>3. CASE f.slot \notin gone
    <3>1. ~Held(f.slot, f.gen)
      BY <2>3 DEF gone, ReceiptsOf
    <3>2. kept[f.slot] = receipts[f.slot]
      BY <1>gone, <2>1, <2>3
    <3>3. QED
      BY <1>6, <2>1, <3>1, <3>2 DEF HeldBy, Held
  <2>4. QED
    BY <2>2, <2>3
<1>11. QED
  BY <1>2, <1>9, <1>10, LeaveBooks

LEMMA RadioStartBooks == Inv /\ Books /\ RadioStart => Books'
<1> SUFFICES ASSUME Inv, Books, RadioStart PROVE Books'
  OBVIOUS
<1>1. txQueue' = txQueue /\ UNCHANGED <<rows, receipts>>
  BY DEF RadioStart, Start, delivery
<1>2. Frames' = Frames
  BY <1>1 DEF Frames
<1>3. Settled(rows', receipts', Frames') /\ Single(txQueue')
  BY <1>1, <1>2, BooksFacts
<1>4. QED
  BY <1>3 DEF Books

\* The frame of an eligible receipt is not in the queue.
LEMMA EligibleIsNew ==
  ASSUME Inv, Books, NEW i \in Slots, receipts[i].state = "Eligible"
  PROVE  \A g \in Frames : ~Carries(g, i, receipts[i].gen)
  BY BooksFacts DEF FramesSettled, HeldBy, Carries

LEMMA OfferBooks ==
  ASSUME Inv, Books, Inv', NEW i \in Slots, receipts[i].state = "Eligible", ReceiptLive(i, receipts[i].gen),
         NEW live, NEW gone, i \notin gone,
         gone = IF txQueue' # txQueue THEN ReceiptsOf(Dead(live)) ELSE {},
         NEW offer \in {"Blocked", "Rejected", "Started", "Queued"}, Offers(i, offer, live, gone)
  PROVE  Books'
<1> DEFINE f == FrameOf(i)
<1>1. /\ f \in FrameType \cup {Foreign} /\ f.slot = i /\ f.gen = receipts[i].gen
      /\ Offer(f, live, offer)
      /\ \A g \in Frames : ~Carries(g, f.slot, f.gen)
  BY OfferedFrame, EligibleIsNew DEF Offers
<1> HIDE DEF f
<1>2. QueueType /\ Single(txQueue)
  BY BooksFacts DEF Inv, Types, QueueType
<1>3. /\ Frames' \subseteq Frames \cup {f} /\ (offer # "Queued" => Frames' \subseteq Frames)
      /\ Frames \ Frames' \subseteq Dead(live) /\ (offer = "Queued" => f \in Frames') /\ Single(txQueue')
  BY <1>1, <1>2, OfferFrames, OfferLeaves
<1> DEFINE D == IF txQueue' # txQueue THEN Dead(live) ELSE {}
<1>4. Frames \ Frames' \subseteq D /\ ReceiptsOf(D) \subseteq gone
  BY <1>3 DEF Frames, ReceiptsOf
<1> HIDE DEF D
<1>5. CASE offer # "Queued"
  <2>1. PICK more : more \in {gone, gone \cup {i}} /\ Retire(more)
    BY <1>5 DEF Offers, Retire
  <2>2. \A g \in Frames \ {Foreign} : HeldBy(receipts', g) => g \in Frames'
    BY <1>4, <2>1, LeavesRetired DEF Retire
  <2>3. Settled(rows', receipts', Frames)
    BY <2>1, RetireBooks
  <2>4. QED
    BY <1>3, <1>5, <2>2, <2>3, LeaveBooks
<1>6. CASE offer = "Queued"
  <2> DEFINE kept == RetiredFrom(receipts, gone)
  <2>1. rows' = Without(rows, gone) /\ receipts' = [kept EXCEPT ![i].state = "Queued"]
    BY <1>6 DEF Offers
  <2>2. /\ kept[i] = receipts[i] /\ \A u \in Slots : kept[u].state # "Free" => kept[u] = receipts[u]
        /\ Retires(receipts, kept)
    BY RetiredRetires DEF RetiredFrom, FreeReceipt
  <2>3. Agree(rows', kept, link, stored, Frames)
    BY <2>1, ReceiptTypes, RetireKeeps DEF Now
  <2> HIDE DEF kept
  <2>4. Settled(rows', kept, Frames)
    <3>1. Lessens(rows, rows')
      BY <2>1, WithoutLessens, ReceiptTypes
    <3>2. Masks(rows', kept)
      BY <2>3 DEF Agree
    <3>3. QED
      BY <2>2, <3>1, <3>2, BooksFacts, GivenUp DEF Now
  <2>5. \A u \in Slots : /\ receipts'[u].gen = kept[u].gen /\ receipts'[u].row = kept[u].row
                         /\ receipts'[u].kind = kept[u].kind
                         /\ receipts'[u].state = IF u = i THEN "Queued" ELSE kept[u].state
    <3>1. TAKE u \in Slots
    <3>2. kept[u] \in ReceiptType /\ kept \in [Slots -> ReceiptType]
      BY <2>3 DEF Agree, ReceiptsAgree
    <3>3. receipts'[u] = IF u = i THEN [kept[u] EXCEPT !.state = "Queued"] ELSE kept[u]
      BY <2>1, <3>2
    <3>4. QED
      BY <3>2, <3>3 DEF ReceiptType
  <2>6. StatesSettled(rows', receipts')
    BY <2>2, <2>4, <2>5 DEF Settled, StatesSettled
  <2>7. CreditsSettled(rows', receipts')
    <3>1. Controls(receipts') = Controls(kept)
      BY <2>2, <2>5 DEF Controls
    <3>2. QED
      BY <2>4, <3>1 DEF Settled, CreditsSettled
  <2>8. FramesSettled(receipts', Frames')
    <3>1. ASSUME NEW g \in Frames' \ {Foreign}, HeldBy(receipts', g) PROVE receipts'[g.slot].state = "Queued"
      <4>1. g.slot \in Slots
        BY DEF Inv, Agree, FramesAgree, FrameType
      <4>2. CASE g.slot = i
        BY <2>5, <4>1, <4>2
      <4>3. CASE g.slot # i
        <5>1. g \in Frames /\ HeldBy(kept, g)
          BY <1>1, <1>3, <2>5, <3>1, <4>1, <4>3 DEF HeldBy
        <5>2. QED
          BY <2>4, <2>5, <4>1, <4>3, <5>1 DEF Settled, FramesSettled
      <4>4. QED
        BY <4>2, <4>3
    <3>2. ASSUME NEW u \in Slots, receipts'[u].state = "Queued"
          PROVE  \E g \in Frames' : Carries(g, u, receipts'[u].gen)
      <4>1. CASE u = i
        <5>1. f # Foreign
          BY OfferedFrame, ForeignAssumption DEF f, FrameType
        <5>2. QED
          BY <1>1, <1>3, <1>6, <2>2, <2>5, <4>1, <5>1 DEF Carries
      <4>2. CASE u # i
        <5>1. kept[u].state = "Queued" /\ kept[u] = receipts[u] /\ u \notin gone
          BY <2>2, <2>5, <3>2, <4>2 DEF kept, RetiredFrom, FreeReceipt
        <5>2. PICK g \in Frames : Carries(g, u, receipts[u].gen)
          BY <2>4, <5>1 DEF Settled, FramesSettled
        <5>3. ASSUME g \notin Frames' PROVE FALSE
          <6>1. g \in D \ {Foreign} /\ Held(g.slot, g.gen)
            BY <1>4, <5>1, <5>2, <5>3 DEF Carries, Held
          <6>2. u \in ReceiptsOf(D)
            BY <5>2, <6>1 DEF ReceiptsOf, Carries
          <6>3. QED
            BY <1>4, <5>1, <6>2
        <5>4. QED
          BY <2>5, <4>2, <5>1, <5>2, <5>3
      <4>3. QED
        BY <4>1, <4>2
    <3>3. QED
      BY <3>1, <3>2 DEF FramesSettled
  <2>9. Settled(rows', receipts', Frames')
    BY <2>4, <2>6, <2>7, <2>8 DEF Settled
  <2>10. QED
    BY <1>3, <2>9 DEF Books
<1>7. QED
  BY <1>5, <1>6

LEMMA PollReceiptBooks ==
  ASSUME Inv, Books, Inv', NEW i \in Slots, PollReceipt(i)
  PROVE  Books'
<1>1. CASE Retire({i}) /\ UNCHANGED radioVars
  BY <1>1, RetireBooks, QuietStep
<1>2. CASE /\ receipts[i].state = "Eligible" /\ ReceiptLive(i, receipts[i].gen)
           /\ \E offer \in {"Blocked", "Rejected", "Started", "Queued"}, others \in SUBSET {Foreign} :
                Offers(i, offer, Live \cup others,
                       IF txQueue' # txQueue THEN ReceiptsOf(Dead(Live \cup others)) ELSE {})
  <2>1. PICK offer \in {"Blocked", "Rejected", "Started", "Queued"}, others \in SUBSET {Foreign} :
          Offers(i, offer, Live \cup others,
                 IF txQueue' # txQueue THEN ReceiptsOf(Dead(Live \cup others)) ELSE {})
    BY <1>2
  <2> DEFINE live == Live \cup others
             gone == IF txQueue' # txQueue THEN ReceiptsOf(Dead(live)) ELSE {}
  <2>2. i \notin gone /\ Offers(i, offer, live, gone) /\ gone = IF txQueue' # txQueue THEN ReceiptsOf(Dead(live)) ELSE {}
    BY <1>2, <2>1, LiveStays
  <2> HIDE DEF live, gone
  <2>3. QED
    BY <1>2, <2>2, OfferBooks
<1>3. QED
  BY <1>1, <1>2 DEF PollReceipt, Offers
-----------------------------------------------------------------------------
(* The link, deletions and the end keep the books.                          *)

LEMMA OpenLinkBooks ==
  ASSUME Inv, Books, NEW remote, OpenLink(remote)
  PROVE  Books'
<1>1. UNCHANGED <<rows, receipts, radioVars>>
  BY DEF OpenLink, delivery
<1>2. Settled(rows', receipts', Frames)
  BY <1>1, BooksFacts
<1>3. QED
  BY <1>1, <1>2, QuietStep

LEMMA CloseLinkBooks == Inv /\ Books /\ Inv' /\ CloseLink => Books'
<1> SUFFICES ASSUME Inv, Books, Inv', CloseLink PROVE Books'
  OBVIOUS
<1>1. UNCHANGED radioVars /\ \E gone : Retire(gone)
  BY DEF CloseLink
<1>2. QED
  BY <1>1, RetireBooks, QuietStep

\* With no receipt in use the queue may hold anything.
LEMMA AllFree ==
  ASSUME Settled(rows', receipts', Frames), \A i \in Slots : receipts'[i].state = "Free", Single(txQueue'),
         \A f \in Frames' \ {Foreign} : f.slot \in Slots
  PROVE  Books'
<1>1. FramesSettled(receipts', Frames')
  BY DEF FramesSettled, HeldBy
<1>2. QED
  BY <1>1 DEF Settled, Books

LEMMA FrameSlots ==
  Inv => \A f \in Frames \ {Foreign} : f.slot \in Slots
  BY DEF Inv, Agree, FramesAgree, FrameType

LEMMA BeginBooks == Inv /\ Books /\ Inv' /\ Begin => Books'
<1> SUFFICES ASSUME Inv, Books, Inv', Begin PROVE Books'
  OBVIOUS
<1>1. /\ txQueue' = Kept({Foreign}) /\ UNCHANGED <<rows, receipts>> /\ \A i \in Slots : receipts[i].state = "Free"
  BY DEF Begin, Drained
<1>2. QueueType /\ Single(txQueue)
  BY BooksFacts DEF Inv, Types, QueueType
<1>3. Single(txQueue')
  BY <1>1, <1>2, KeptSingle
<1>4. Settled(rows', receipts', Frames) /\ \A i \in Slots : receipts'[i].state = "Free"
  BY <1>1, BooksFacts
<1>5. \A f \in Frames' \ {Foreign} : f.slot \in Slots
  BY DEF Inv, Agree, FramesAgree, FrameType
<1>6. QED
  BY <1>3, <1>4, <1>5, AllFree

\* A revoked frame is of the same receipt.
LEMMA RevokedSame ==
  ASSUME QueueType, Single(txQueue), NEW K, K \subseteq {k \in DOMAIN txQueue : txQueue[k] # Foreign}, RevokedAt(K)
  PROVE  /\ Single(txQueue')
         /\ \A g \in Frames' \ {Foreign} : \E f \in Frames : Carries(f, g.slot, g.gen)
         /\ \A f \in Frames \ {Foreign} : \E g \in Frames' : Carries(g, f.slot, f.gen)
<1>1. DOMAIN txQueue' = DOMAIN txQueue
  BY DEF RevokedAt
<1>2. ASSUME NEW k \in DOMAIN txQueue
      PROVE  IF txQueue[k] = Foreign THEN txQueue'[k] = Foreign
             ELSE /\ txQueue'[k] # Foreign /\ txQueue'[k].slot = txQueue[k].slot
                  /\ txQueue'[k].gen = txQueue[k].gen
  <2>1. txQueue[k] \in FrameType \cup {Foreign}
    BY DEF QueueType
  <2>2. txQueue'[k] = IF k \in K THEN [txQueue[k] EXCEPT !.revoked = TRUE] ELSE txQueue[k]
    BY DEF RevokedAt
  <2>3. CASE k \in K
    <3>1. txQueue[k] # Foreign /\ txQueue[k] \in FrameType
      BY <2>1, <2>3
    <3>2. txQueue'[k] = [txQueue[k] EXCEPT !.revoked = TRUE]
      BY <2>2, <2>3
    <3>3. txQueue'[k] \in FrameType /\ txQueue'[k].slot = txQueue[k].slot /\ txQueue'[k].gen = txQueue[k].gen
      BY <3>1, <3>2 DEF FrameType
    <3>4. txQueue'[k] # Foreign
      BY <3>3, ForeignAssumption DEF FrameType
    <3>5. QED
      BY <3>1, <3>3, <3>4
  <2>4. CASE k \notin K
    BY <2>2, <2>4
  <2>5. QED
    BY <2>3, <2>4
<1>3. Single(txQueue')
  BY <1>1, <1>2 DEF Single
<1>4. ASSUME NEW g \in Frames' \ {Foreign} PROVE \E f \in Frames : Carries(f, g.slot, g.gen)
  <2>1. PICK k \in DOMAIN txQueue : g = txQueue'[k]
    BY <1>1 DEF Frames, ToSet
  <2>2. txQueue[k] \in Frames /\ Carries(txQueue[k], g.slot, g.gen)
    BY <1>2, <2>1 DEF Frames, ToSet, Carries
  <2>3. QED
    BY <2>2
<1>5. ASSUME NEW f \in Frames \ {Foreign} PROVE \E g \in Frames' : Carries(g, f.slot, f.gen)
  <2>1. PICK k \in DOMAIN txQueue : f = txQueue[k]
    BY DEF Frames, ToSet
  <2>2. txQueue'[k] \in Frames' /\ Carries(txQueue'[k], f.slot, f.gen)
    BY <1>1, <1>2, <2>1 DEF Frames, ToSet, Carries
  <2>3. QED
    BY <2>2
<1>6. QED
  BY <1>3, <1>4, <1>5

LEMMA StopBooks ==
  ASSUME Inv, Books, Inv', StopEffects
  PROVE  Settled(rows', receipts', Frames) /\ \A i \in Slots : receipts'[i].state = "Free"
<1>1. \A i \in Slots : receipts'[i].state = "Free"
  BY StopTable
<1>2. Retires(receipts, receipts')
  BY <1>1 DEF Retires
<1>3. Lessens(rows, rows')
  <2>1. SUFFICES ASSUME NEW j \in Rows
                 PROVE  /\ rows'[j].phase # "Free" => rows'[j].ticket # "none" \/ rows'[j].proofs # {}
                        /\ rows'[j] = FreeRow \/ (rows'[j].phase = "Invisible" /\ rows'[j].proofs = {})
    BY DEF Lessens
  <2>2. CASE rows[j].phase = "Free" \/ rows[j].ticket = "none"
    <3>1. rows'[j] = FreeRow
      BY <2>2 DEF StopEffects
    <3>2. QED
      BY <3>1, FreshTypes
  <2>3. CASE ~(rows[j].phase = "Free" \/ rows[j].ticket = "none")
    <3>1. rows'[j] = [rows[j] EXCEPT !.phase = "Invisible", !.proofs = {}, !.revoked = TRUE]
      BY <2>3 DEF StopEffects
    <3>2. rows[j] \in RowType
      BY ReceiptTypes
    <3>3. QED
      BY <2>3, <3>1, <3>2 DEF RowType
  <2>4. QED
    BY <2>2, <2>3
<1>4. QED
  BY <1>1, <1>2, <1>3, GivenUpStep

LEMMA StopAdmissionsBooks == Inv /\ Books /\ Inv' /\ StopAdmissions => Books'
<1> SUFFICES ASSUME Inv, Books, Inv', StopAdmissions PROVE Books'
  OBVIOUS
<1> DEFINE K == {k \in DOMAIN txQueue : txQueue[k] # Foreign}
<1>1. StopEffects /\ RevokedAt(K)
  BY DEF StopAdmissions, AllRevoked, RevokedAt
<1>2. QueueType /\ Single(txQueue)
  BY BooksFacts DEF Inv, Types, QueueType
<1>3. Single(txQueue')
  BY <1>1, <1>2, RevokedSame
<1>4. \A f \in Frames' \ {Foreign} : f.slot \in Slots
  BY DEF Inv, Agree, FramesAgree, FrameType
<1>5. QED
  BY <1>1, <1>3, <1>4, StopBooks, AllFree

LEMMA EnterMaintenanceBooks == Inv /\ Books /\ Inv' /\ EnterMaintenance => Books'
<1> SUFFICES ASSUME Inv, Books, Inv', EnterMaintenance PROVE Books'
  OBVIOUS
<1>1. StopEffects /\ txQueue' = <<>>
  BY DEF EnterMaintenance, BeginMaintenance
<1>2. Single(txQueue')
  BY <1>1 DEF Single
<1>3. \A f \in Frames' \ {Foreign} : f.slot \in Slots
  BY DEF Inv, Agree, FramesAgree, FrameType
<1>4. QED
  BY <1>1, <1>2, <1>3, StopBooks, AllFree

LEMMA DropPeerBooks ==
  ASSUME Inv, Books, Inv', NEW p \in Peers, DropPeer(p)
  PROVE  Books'
<1> DEFINE K == {k \in DOMAIN txQueue : txQueue[k] # Foreign /\ (visibility = MaxVisibility \/ txQueue[k].to = p)}
<1>1. RevokedAt(K) /\ K \subseteq {k \in DOMAIN txQueue : txQueue[k] # Foreign}
  BY DEF DropPeer, RevokedAt
<1> HIDE DEF K
<1>2. QueueType /\ Single(txQueue)
  BY BooksFacts DEF Inv, Types, QueueType
<1>3. /\ Single(txQueue')
      /\ \A g \in Frames' \ {Foreign} : \E f \in Frames : Carries(f, g.slot, g.gen)
      /\ \A f \in Frames \ {Foreign} : \E g \in Frames' : Carries(g, f.slot, f.gen)
  BY <1>1, <1>2, RevokedSame
<1>4. CASE visibility = MaxVisibility
  <2>1. StopEffects
    BY <1>4 DEF DropPeer
  <2>2. \A f \in Frames' \ {Foreign} : f.slot \in Slots
    BY DEF Inv, Agree, FramesAgree, FrameType
  <2>3. QED
    BY <1>3, <2>1, <2>2, StopBooks, AllFree
<1>5. CASE visibility # MaxVisibility
  <2>1. receipts' = RetiredFrom(receipts, Gone(p)) /\ rows' = Without(HiddenRows(p), Gone(p))
    <3>1. receipts' = RetiredFrom(Marked(p), Gone(p)) /\ rows' = Without(HiddenRows(p), Gone(p))
      BY <1>5 DEF DropPeer, Marked, Gone, HiddenRows
    <3>2. QED
      BY <3>1, MarkedAreGone
  <2>2. Lessens(rows, rows')
    <3>1. ASSUME NEW j \in Rows, j \notin Hidden(p) PROVE rows'[j] = Without(rows, Gone(p))[j]
      BY <2>1, <3>1 DEF Without, HiddenRows
    <3>2. ASSUME NEW j \in Rows, j \in Hidden(p)
          PROVE  rows'[j] = FreeRow \/ (rows'[j].phase = "Invisible" /\ rows'[j].proofs = {} /\ rows'[j].ticket # "none")
      <4>1. rows[j] \in RowType /\ HiddenRows(p)[j] = [rows[j] EXCEPT !.phase = "Invisible", !.revoked = TRUE]
        BY <3>2, ReceiptTypes DEF HiddenRows
      <4> DEFINE r == HiddenRows(p)[j]
      <4>2. r.phase = "Invisible" /\ r.proofs = rows[j].proofs /\ r.ticket = rows[j].ticket /\ r \in RowType
        BY <4>1 DEF RowType, Phases
      <4>3. r.proofs \ Gone(p) = {}
        BY <3>2, <4>2 DEF Gone
      <4>4. rows'[j] = IF r.ticket = "none" THEN FreeRow ELSE [r EXCEPT !.proofs = {}]
        BY <2>1, <4>3 DEF Without
      <4> HIDE DEF r
      <4>5. QED
        BY <4>2, <4>4 DEF RowType
    <3>3. Lessens(rows, Without(rows, Gone(p)))
      BY WithoutLessens, ReceiptTypes
    <3>4. SUFFICES ASSUME NEW j \in Rows
                   PROVE  /\ rows'[j].phase # "Free" => rows'[j].ticket # "none" \/ rows'[j].proofs # {}
                          /\ \/ rows'[j] = FreeRow
                             \/ rows'[j].phase = "Invisible" /\ rows'[j].proofs = {}
                             \/ /\ rows'[j].phase = rows[j].phase /\ rows'[j].msg = rows[j].msg
                                /\ rows'[j].proofs \subseteq rows[j].proofs
                                /\ rows'[j].ticket = "none" <=> rows[j].ticket = "none"
      BY DEF Lessens
    <3>5. CASE j \in Hidden(p)
      BY <3>2, <3>5, FreshTypes
    <3>6. CASE j \notin Hidden(p)
      BY <3>1, <3>3, <3>6 DEF Lessens
    <3>7. QED
      BY <3>5, <3>6
  <2>3. Retires(receipts, receipts')
    BY <2>1, RetiredRetires
  <2>4. Settled(rows', receipts', Frames)
    BY <2>2, <2>3, GivenUpStep
  <2>5. FramesSettled(receipts', Frames')
    BY <1>3, <2>4, FramesLeave DEF Settled
  <2>6. Settled(rows', receipts', Frames')
    BY <2>4, <2>5 DEF Settled
  <2>7. QED
    BY <1>3, <2>6 DEF Books
<1>6. QED
  BY <1>4, <1>5

LEMMA InitBooks == Init => Books
<1> SUFFICES ASSUME Init PROVE Books
  OBVIOUS
<1>1. /\ \A j \in Rows : rows[j] = FreeRow /\ rows[j].phase = "Free" /\ rows[j].ticket = "none" /\ rows[j].proofs = {}
      /\ \A i \in Slots : receipts[i].state = "Free"
      /\ txQueue = <<>>
  BY FreshTypes DEF Init, TxQueueInit, FreeReceipt
<1>2. RowsSettled(rows)
  BY <1>1 DEF RowsSettled, RowsCoherent, Delivering
<1>3. StatesSettled(rows, receipts)
  BY <1>1 DEF StatesSettled
<1>4. FramesSettled(receipts, Frames) /\ Single(txQueue)
  BY <1>1 DEF FramesSettled, Frames, ToSet, Single
<1>5. CreditsSettled(rows, receipts)
  <2>1. Controls(receipts) = {}
    BY <1>1 DEF Controls
  <2>2. Cardinality(Controls(receipts)) = 0
    BY <2>1, FS_EmptySet
  <2>3. Cardinality({}) = 0
    BY FS_EmptySet
  <2>4. \A j \in Rows : Cardinality(rows[j].proofs) = 0
    BY <1>1, <2>3
  <2>5. 0 <= MaxControls /\ 0 <= ReceiptsPerRow
    BY DeliveryAssumption
  <2>6. QED
    BY <2>2, <2>4, <2>5 DEF CreditsSettled
<1>6. QED
  BY <1>2, <1>3, <1>4, <1>5 DEF Books, Settled

LEMMA NextBooks == Inv /\ Books /\ Inv' /\ [Next]_vars => Books'
<1> SUFFICES ASSUME Inv, Books, Inv', [Next]_vars PROVE Books'
  OBVIOUS
<1>1. CASE \E m \in Messages : ReceivePacket(m) \/ ReceiveOnLink(m) \/ CompleteResource(m)
  BY <1>1, ReceiveBooks, CompleteResourceBooks
<1>2. CASE ReserveResource \/ RefuseResource \/ ResourceLoop \/ RefuseSecondTransfer
  BY <1>2, ReserveResourceBooks, RefuseResourceBooks, ResourceLoopBooks, RefuseSecondBooks
<1>3. CASE \E j \in Rows : StoreExecute(j) \/ PollRow(j)
  BY <1>3, StoreExecuteBooks, PollRowBooks
<1>4. CASE \E i \in Slots : PollReceipt(i) \/ Expire(i) \/ CancelResource(i)
  BY <1>4, PollReceiptBooks, ExpireBooks, CancelResourceBooks
<1>5. CASE Transmit \/ Discard \/ OfferForeign \/ RadioStop \/ RadioStart
  BY <1>5, TransmitBooks, DiscardBooks, OfferForeignBooks, RadioStopBooks, RadioStartBooks
<1>6. CASE \E remote \in Called \cup {"answered"} : OpenLink(remote)
  BY <1>6, OpenLinkBooks
<1>7. CASE CloseLink \/ StopAdmissions \/ EnterMaintenance \/ Begin
  BY <1>7, CloseLinkBooks, StopAdmissionsBooks, EnterMaintenanceBooks, BeginBooks
<1>8. CASE \E p \in Peers : DropPeer(p)
  BY <1>8, DropPeerBooks
<1>9. CASE UNCHANGED vars
  <2>1. UNCHANGED <<rows, receipts, radioVars>>
    BY <1>9 DEF vars, delivery
  <2>2. Settled(rows', receipts', Frames)
    BY <2>1, BooksFacts
  <2>3. QED
    BY <2>1, <2>2, QuietStep
<1>10. QED
  BY <1>1, <1>2, <1>3, <1>4, <1>5, <1>6, <1>7, <1>8, <1>9 DEF Next

LEMMA BooksAreConsistent == Inv /\ Books => Consistent
<1> SUFFICES ASSUME Inv, Books PROVE Consistent
  OBVIOUS
<1>1. TypeOK
  BY ReceiptTypes DEF Inv, Types, TypeOK, RowType, ReceiptType
<1>2. MasksAgree
  <2>1. \A j \in Rows : rows[j].phase = "Free" => rows[j].ticket = "none" /\ rows[j].proofs = {}
    BY ReceiptTypes DEF RowsAgree
  <2>2. QED
    BY <2>1, BooksFacts, ReceiptTypes DEF MasksAgree, Masks, RowsSettled, RowsCoherent
<1>3. OneRowEach
  <2>1. SUFFICES ASSUME NEW m \in Messages PROVE Cardinality(Existing(m)) <= 1
    BY DEF OneRowEach
  <2>2. \A j, k \in Existing(m) : j = k
    BY BooksFacts DEF Existing, RowsCoherent, Delivering
  <2>3. CASE Existing(m) = {}
    <3>1. Cardinality(Existing(m)) = 0
      BY <2>3, FS_EmptySet
    <3>2. QED
      BY <3>1
  <2>4. ASSUME NEW j \in Existing(m) PROVE Cardinality(Existing(m)) <= 1
    <3>1. Existing(m) = {j}
      BY <2>2
    <3>2. Cardinality({j}) = 1
      BY FS_Singleton
    <3>3. Cardinality(Existing(m)) = 1
      BY <3>1, <3>2
    <3>4. QED
      BY <3>3
  <2>5. QED
    BY <2>3, <2>4
<1>4. NoneStranded
  <2>1. SUFFICES
          ASSUME NEW i \in Slots
          PROVE  LET mine == {k \in DOMAIN txQueue : /\ txQueue[k] # Foreign /\ txQueue[k].slot = i
                                                     /\ txQueue[k].gen = receipts[i].gen}
                 IN /\ receipts[i].state = "Reserved" /\ receipts[i].row # NoRow => rows[receipts[i].row].phase = "AwaitStore"
                    /\ receipts[i].state = "Queued" => Cardinality(mine) = 1
                    /\ receipts[i].state \in {"Reserved", "Eligible"} => mine = {}
    BY DEF NoneStranded
  <2> DEFINE mine == {k \in DOMAIN txQueue : /\ txQueue[k] # Foreign /\ txQueue[k].slot = i
                                             /\ txQueue[k].gen = receipts[i].gen}
  <2>2. ASSUME receipts[i].state = "Reserved", receipts[i].row # NoRow
        PROVE  rows[receipts[i].row].phase = "AwaitStore"
    <3>1. receipts[i].row \in Rows
      BY <2>2, ReceiptTypes DEF ReceiptType
    <3>2. QED
      BY <2>2, <3>1, BooksFacts DEF StatesSettled
  <2>3. \A k \in mine : txQueue[k] \in Frames
    BY DEF Frames, ToSet
  <2>4. ASSUME receipts[i].state = "Queued" PROVE Cardinality(mine) = 1
    <3>1. PICK f \in Frames : Carries(f, i, receipts[i].gen)
      BY <2>4, BooksFacts DEF FramesSettled
    <3>2. PICK k \in DOMAIN txQueue : txQueue[k] = f
      BY DEF Frames, ToSet
    <3>3. mine = {k}
      BY <3>1, <3>2, BooksFacts DEF Single, Carries
    <3>4. QED
      BY <3>3, FS_Singleton
  <2>5. ASSUME receipts[i].state \in {"Reserved", "Eligible"} PROVE mine = {}
    BY <2>3, <2>5, BooksFacts DEF FramesSettled, HeldBy
  <2>6. QED
    BY <2>2, <2>4, <2>5
<1>5. CreditsKept
  BY BooksFacts DEF CreditsKept, CreditsSettled
<1>6. QED
  BY <1>1, <1>2, <1>3, <1>4, <1>5 DEF Consistent

(***************************************************************************)
(* The bookkeeping of RustIncomingDelivery and of the radio's queue agrees *)
(* at any moment: a row holds exactly the receipts that point at it and is *)
(* released neither before its ticket is answered nor under a proof; a     *)
(* message is in delivery once, however many copies of it arrive; a queued *)
(* receipt has exactly one frame, so that it cannot be stranded, and a     *)
(* settled row leaves none behind; the credits are not exceeded.           *)
(***************************************************************************)
THEOREM Consistency == Spec => []Consistent
<1>1. Init => Inv /\ EventOK /\ Books
  BY InitHolds, InitBooks
<1>2. (Inv /\ EventOK /\ Books) /\ [Next]_vars => (Inv /\ EventOK /\ Books)'
  BY NextKeeps, NextBooks
<1>3. Inv /\ EventOK /\ Books => Consistent
  BY BooksAreConsistent
<1>4. QED
  BY <1>1, <1>2, <1>3, PTL DEF Spec

=============================================================================
