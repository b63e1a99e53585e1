-------------------------- MODULE LxmfEngineProofs --------------------------
(***************************************************************************)
(* For every number of rows, records and attempts, every length of the     *)
(* radio's queue and every use: the rows, the workspace, the tickets, the  *)
(* queue and the records agree, each status is true, and nothing withdrawn *)
(* is transmitted.                                                         *)
(*                                                                         *)
(* The invariant is a predicate of one row at a time, of the world around  *)
(* it (the records, the withdrawals, the deletion, the recovery), and a    *)
(* few that relate two rows or count them.  The lemmas say first what each *)
(* step makes of its row, then what it leaves of the others.               *)
(***************************************************************************)
EXTENDS LxmfEngine, FiniteSetTheorems, SequenceTheorems, WellFoundedInduction, TLAPS

-----------------------------------------------------------------------------
(* The invariant.                                                          *)

TicketType == [op : Operations \cup {"none"}, answer : Answers \cup {"none"}, rec : 0 .. MaxRecords, status : Statuses]
RowType == [phase : Phases, rec : 0 .. MaxRecords, flags : SUBSET Flags,
            initial : {"none", "pending", "committed", "failed", "cancelled"}, ticket : TicketType,
            desired : Statuses, durable : Statuses, attempts : Nat, mask : SUBSET Nat,
            queued : Nat, aired : BOOLEAN, proved : BOOLEAN]
FrameType == [row : Rows, variant : Nat, rec : 1 .. MaxRecords]

Suppressed(v) == "Suppressed" \in v.flags
InQueue(t) == t.answer \in {"queued", "cancelQueued"}

\* A free row is fresh; one without a record has done nothing yet; what withdraws a row also
\* suppresses it; a suppressed or delivered row is on its way out; and a status
\* is true, also where it is on its way to the store.
TicketOK(v) ==
  /\ v.ticket.op = "none" <=> v.ticket = NoTicket
  /\ v.ticket.op # "none" => v.ticket.answer # "none"
  /\ v.ticket.answer \in {"cancelQueued", "cancelled"} => Suppressed(v)
  /\ v.ticket.op = "CreateOutgoing" <=> v.phase = "Saving"
  /\ v.ticket.op = "ReadPending" => v.phase = "Query"
  /\ v.phase = "Query" => v.ticket.op \in {"none", "ReadPending"}
  /\ v.ticket.op \in {"UpdateStatus", "ReadRecord"} => v.rec # 0 /\ v.ticket.rec = v.rec
  /\ v.ticket.op = "ReadRecord" => Suppressed(v) \/ v.desired = "DELIVERED" \/ v.phase = "Reading"
  /\ v.ticket.op = "ReadRecord" => v.ticket.answer # "unsendable"
PhaseOK(v) ==
  /\ v.phase = "Free" => /\ v.rec = 0 /\ v.flags = {} /\ v.initial = "none" /\ v.ticket = NoTicket
                         /\ v.desired = "QUEUED" /\ v.durable = "QUEUED"
  /\ v.rec = 0 => /\ v.phase \in {"Free", "Saving", "Query", "Settled"}
                  /\ v.mask = {} /\ v.attempts = 0 /\ ~v.aired /\ ~v.proved
                  /\ v.initial # "committed"
  /\ v.rec # 0 => v.phase \notin {"Free", "Saving", "Query"}
  /\ v.flags \cap {"Deleted", "DeletePending", "Blocked"} # {} => Suppressed(v)
  /\ Suppressed(v) => v.phase \in {"Saving", "Query", "Settled"}
  /\ v.desired = "DELIVERED" => v.phase = "Settled"
  /\ v.proved => v.desired = "DELIVERED"
  /\ v.attempts <= ProofAttempts /\ v.mask \subseteq 0 .. Resource
  /\ v.phase \in {"Ready", "Reading"} => v.attempts < ProofAttempts
StatusOK(v) ==
  /\ Truthful(v, v.desired) /\ Truthful(v, v.durable)
  /\ v.ticket.op = "UpdateStatus" => Truthful(v, v.ticket.status)
RowOK(v) == v \in RowType /\ TicketOK(v) /\ PhaseOK(v) /\ StatusOK(v)

\* The record a row is about, or the one its save has just created.
Claim(v) == IF v.ticket.op = "CreateOutgoing" THEN v.ticket.rec ELSE v.rec

\* The record holds the durable status, or the one whose update was answered.
Recorded(v, recs) ==
  /\ v.rec # 0 => /\ v.rec \in DOMAIN recs
                  /\ recs[v.rec] \in {"gone", IF v.ticket.op = "UpdateStatus" /\ v.ticket.answer = "ok"
                                              THEN v.ticket.status ELSE v.durable}
  /\ v.ticket.op = "CreateOutgoing" =>
       IF v.ticket.answer = "ok"
       THEN v.ticket.rec \in DOMAIN recs /\ v.ticket.status = "QUEUED" /\ recs[v.ticket.rec] \in {"QUEUED", "gone"}
       ELSE v.ticket.rec = 0

\* Once a message was withdrawn its row is suppressed.
Silenced(v, gone, running) ==
  running /\ (Suppressed(v) => v.ticket.op = "CreateOutgoing") => Claim(v) \notin gone

\* A message is sent only after its record was read, and a deletion that
\* follows suppresses its row.
Served(v) ==
  \/ v.mask # {} \/ v.phase = "Resource"
  \/ v.phase = "Reading" /\ (v.ticket.op = "ReadRecord" => v.ticket.answer \in {"ok", "invalid", "foreign"})
Backed(v, recs, running, state) ==
  running /\ ~Suppressed(v) =>
    /\ Served(v) => recs[v.rec] # "gone"
    /\ Served(v) \/ v.ticket.op = "ReadRecord" => state # "queued"

\* While the recovery goes through the records nothing is saved, the rows and
\* the withdrawals are about records it has passed, and what it has found lies
\* ahead and is as it was found, or deleted.
Found(t) == t.op = "ReadPending" /\ t.answer \in {"ok", "invalid", "unsendable", "foreign"} /\ t.rec # 0
Passed(v, recs, running, on, at) ==
  /\ running /\ v.phase = "Query" => on
  /\ on => /\ v.ticket.op # "CreateOutgoing" /\ v.rec <= at
           /\ Found(v.ticket) => /\ at < v.ticket.rec /\ v.ticket.rec \in DOMAIN recs
                                 /\ v.ticket.status \in {"QUEUED", "SENDING"}
                                 /\ recs[v.ticket.rec] \in {v.ticket.status, "gone"}

RowInv(v, recs, gone, state, running, on, at) ==
  /\ RowOK(v) /\ Recorded(v, recs) /\ Silenced(v, gone, running)
  /\ Backed(v, recs, running, state) /\ Passed(v, recs, running, on, at)

RowsInv(rs, recs, gone, state, running, on, at) ==
  \A r \in Rows : RowInv(rs[r], recs, gone, state, running, on, at)

\* No two rows are about one record, and one at a time asks for the next.
Apart(rs) ==
  \A q, r \in Rows : q # r => /\ Claim(rs[q]) # 0 => Claim(rs[q]) # Claim(rs[r])
                              /\ rs[q].phase = "Query" => rs[r].phase # "Query"

\* The workspace and the transfer belong to the rows that use them.
Shared(rs, b, o) ==
  /\ b \in Rows \cup {NoRow} /\ o \in Rows \cup {NoRow}
  /\ \A r \in Rows : (b = r <=> rs[r].phase = "Reading") /\ (o = r <=> rs[r].phase = "Resource")

\* Each ticket that is not answered is with the worker, once.
JobsInv(js, rs, state) ==
  /\ js \in Seq(Rows \cup {NoRow})
  /\ \A a, b \in DOMAIN js : js[a] = js[b] => a = b
  /\ \A r \in Rows : r \in ToSet(js) <=> InQueue(rs[r].ticket)
  /\ NoRow \in ToSet(js) <=> state = "queued"

\* The queue's frames are of the messages their rows are about, and counted.
FramesInv(q, rs) ==
  /\ q \in Seq(FrameType)
  /\ \A f \in ToSet(q) : f.rec = rs[f.row].rec
  /\ \A r \in Rows : rs[r].queued = CountOf(q, r)

\* Room for the records that are being saved.
Saves(rs) == {r \in Rows : rs[r].ticket.op = "CreateOutgoing" /\ InQueue(rs[r].ticket)}
Room(rs, recs) == Len(recs) + Cardinality(Saves(rs)) <= MaxRecords

StoreType ==
  /\ records \in Seq(Statuses \cup {"gone"}) /\ Len(records) <= MaxRecords
  /\ deletion.state \in {"none", "queued", "ok", "failed"} /\ withdrawn \subseteq DOMAIN records
EngineType ==
  /\ load \in Loads /\ accepting \in BOOLEAN /\ recovering \in BOOLEAN /\ cursor \in 0 .. MaxRecords
  /\ recovering => accepting /\ \A c \in withdrawn : c <= cursor

Inv ==
  /\ StoreType /\ EngineType
  /\ rows \in [Rows -> RowType]
  /\ RowsInv(rows, records, withdrawn, deletion.state, accepting, recovering, cursor)
  /\ Apart(rows) /\ Shared(rows, body, out) /\ JobsInv(jobs, rows, deletion.state)
  /\ FramesInv(txQueue, rows) /\ Room(rows, records)
-----------------------------------------------------------------------------
(* The queue.                                                              *)

\* An element's rank is the number of those up to it: no two have the same, and
\* every rank from the first to the last has an element.
Rank(S, k) == Cardinality({l \in S : l <= k})

LEMMA Ranks ==
  ASSUME NEW S \in SUBSET Nat, IsFiniteSet(S)
  PROVE  /\ \A k \in S : Rank(S, k) \in 1 .. Cardinality(S)
         /\ \A k, m \in S : Rank(S, k) = Rank(S, m) => k = m
         /\ \A n \in 1 .. Cardinality(S) : \E k \in S : Rank(S, k) = n
<1> DEFINE Upto(k) == {l \in S : l <= k}
           N == 1 .. Cardinality(S)
           rank == [k \in S |-> Cardinality(Upto(k))]
<1> USE DEF Rank
<1>1. Cardinality(S) \in Nat
  BY FS_CardinalityType
<1>2. ASSUME NEW k \in S PROVE IsFiniteSet(Upto(k)) /\ Cardinality(Upto(k)) \in N
  <2>1. IsFiniteSet(Upto(k)) /\ Cardinality(Upto(k)) <= Cardinality(S)
    BY FS_Subset
  <2>2. Cardinality(Upto(k)) \in Nat /\ Upto(k) # {}
    BY <2>1, FS_CardinalityType
  <2>3. Cardinality(Upto(k)) # 0
    BY <2>1, <2>2, FS_EmptySet
  <2>4. QED
    BY <1>1, <2>1, <2>2, <2>3
<1>3. ASSUME NEW k \in S, NEW m \in S, k < m PROVE Cardinality(Upto(k)) # Cardinality(Upto(m))
  <2>1. Upto(k) \subseteq Upto(m) /\ m \in Upto(m) /\ m \notin Upto(k)
    <3>1. \A l \in S : l \in Nat
      OBVIOUS
    <3>2. k \in Nat /\ m \in Nat /\ m <= m /\ ~ (m <= k) /\ \A l \in Nat : l <= k => l <= m
      BY <1>3, <3>1
    <3>3. QED
      BY <3>1, <3>2
  <2>2. QED
    BY <1>2, <2>1, FS_Subset
<1>4. \A k, m \in S : rank[k] = rank[m] => k = m
  <2>1. \A k, m \in S : k < m \/ m < k \/ k = m
    OBVIOUS
  <2>2. QED
    BY <1>3, <2>1
<1>5. rank \in Injection(S, N)
  BY <1>2, <1>4 DEF Injection, IsInjective
<1>6. IsFiniteSet(N) /\ Cardinality(N) = Cardinality(S)
  <2>0. 1 \in Int /\ Cardinality(S) \in Int
    BY <1>1
  <2>1. Cardinality(1 .. Cardinality(S)) = IF 1 > Cardinality(S) THEN 0 ELSE Cardinality(S) - 1 + 1
    BY <2>0, FS_Interval, Zenon
  <2>2. IsFiniteSet(N)
    BY <1>1, FS_Interval
  <2>3. QED
    BY <1>1, <2>1, <2>2
<1>7. rank \in Surjection(S, N)
  BY <1>5, <1>6, FS_Injection
<1>8. QED
  BY <1>2, <1>4, <1>7 DEF Surjection

\* Closing up keeps only live frames of the queue.
LEMMA KeptFacts ==
  ASSUME NEW T, txQueue \in Seq(T), NEW live
  PROVE  Kept(live) \in Seq(T) /\ ToSet(Kept(live)) \subseteq Frames \cap live
<1> DEFINE at == LivePlaces(live)
           N == 1 .. Cardinality(at)
<1>1. at \subseteq 1 .. Len(txQueue) /\ Len(txQueue) \in Nat /\ DOMAIN txQueue = 1 .. Len(txQueue)
  BY DEF LivePlaces
<1>2. IsFiniteSet(at) /\ at \in SUBSET Nat
  <2>1. IsFiniteSet(1 .. Len(txQueue))
    BY <1>1, FS_Interval
  <2>2. QED
    BY <1>1, <2>1, FS_Subset
<1>3. Cardinality(at) \in Nat
  BY <1>2, FS_CardinalityType
<1>4. ASSUME NEW n \in N PROVE Place(live, n) \in at
  <2>1. \E k \in at : Rank(at, k) = n
    BY <1>2, Ranks
  <2>2. QED
    BY <2>1 DEF Place, Rank
<1>5. \A n \in N : Kept(live)[n] = txQueue[Place(live, n)] /\ txQueue[Place(live, n)] \in T \cap Frames \cap live
  BY <1>1, <1>4 DEF Kept, LivePlaces, Frames, ToSet
<1>6. Kept(live) \in [N -> T]
  BY <1>5 DEF Kept
<1>7. Kept(live) \in Seq(T) /\ DOMAIN Kept(live) = N
  BY <1>3, <1>6
<1>8. QED
  BY <1>5, <1>7 DEF ToSet

LEMMA AppendFacts ==
  ASSUME NEW T, NEW q \in Seq(T), NEW x \in T
  PROVE  /\ Append(q, x) \in Seq(T) /\ ToSet(Append(q, x)) = ToSet(q) \cup {x}
         /\ DOMAIN Append(q, x) = DOMAIN q \cup {Len(q) + 1} /\ Len(q) + 1 \notin DOMAIN q
         /\ \A k \in DOMAIN q : Append(q, x)[k] = q[k]
         /\ Append(q, x)[Len(q) + 1] = x
<1>1. /\ DOMAIN Append(q, x) = DOMAIN q \cup {Len(q) + 1} /\ Len(q) + 1 \notin DOMAIN q
      /\ \A k \in DOMAIN q : Append(q, x)[k] = q[k]
      /\ Append(q, x)[Len(q) + 1] = x /\ Append(q, x) \in Seq(T)
  OBVIOUS
<1>2. QED
  BY <1>1 DEF ToSet

LEMMA TailFacts ==
  ASSUME NEW T, NEW q \in Seq(T), q # <<>>
  PROVE  /\ Tail(q) \in Seq(T) /\ ToSet(Tail(q)) \subseteq ToSet(q) /\ Head(q) \in ToSet(q)
         /\ Head(q) = q[1] /\ 1 \in DOMAIN q
         /\ \A k \in DOMAIN Tail(q) : k + 1 \in DOMAIN q /\ Tail(q)[k] = q[k + 1]
         /\ \A k \in DOMAIN q \ {1} : k - 1 \in DOMAIN Tail(q) /\ Tail(q)[k - 1] = q[k]
<1>1. /\ Tail(q) \in Seq(T) /\ Head(q) = q[1] /\ 1 \in DOMAIN q
      /\ \A k \in DOMAIN Tail(q) : k + 1 \in DOMAIN q /\ Tail(q)[k] = q[k + 1]
      /\ \A k \in DOMAIN q \ {1} : k - 1 \in DOMAIN Tail(q) /\ Tail(q)[k - 1] = q[k]
  OBVIOUS
<1>2. QED
  BY <1>1 DEF ToSet

LEMMA CountIsNat ==
  ASSUME NEW T, NEW q \in Seq(T), NEW r
  PROVE  /\ CountOf(q, r) \in Nat
         /\ CountOf(q, r) = 0 <=> \A f \in ToSet(q) : f.row # r
<1> DEFINE S == {k \in DOMAIN q : q[k].row = r}
<1>1. S \subseteq 1 .. Len(q) /\ Len(q) \in Nat /\ DOMAIN q = 1 .. Len(q)
  OBVIOUS
<1>2. IsFiniteSet(S)
  <2>1. IsFiniteSet(1 .. Len(q))
    BY <1>1, FS_Interval
  <2>2. QED
    BY <1>1, <2>1, FS_Subset
<1>3. Cardinality(S) \in Nat /\ (Cardinality(S) = 0 <=> S = {})
  BY <1>2, FS_CardinalityType, FS_EmptySet
<1>4. S = {} <=> \A f \in ToSet(q) : f.row # r
  BY DEF ToSet
<1>5. QED
  BY <1>3, <1>4 DEF CountOf

\* An offer leaves frames that were there, and the one offered.
LEMMA OfferFacts ==
  ASSUME NEW T, txQueue \in Seq(T), NEW f \in T, NEW live, NEW offer, Offer(f, live, offer)
  PROVE  /\ txQueue' \in Seq(T) /\ Frames' \subseteq Frames \cup {f}
<1>1. Kept(live) \in Seq(T) /\ ToSet(Kept(live)) \subseteq Frames
  BY KeptFacts
<1>2. Append(Kept(live), f) \in Seq(T) /\ ToSet(Append(Kept(live), f)) = ToSet(Kept(live)) \cup {f}
  BY <1>1, AppendFacts
<1>3. txQueue' \in {txQueue, Kept(live), Append(Kept(live), f)}
  BY DEF Offer
<1>4. QED
  BY <1>1, <1>2, <1>3 DEF Frames

-----------------------------------------------------------------------------
(* What a step makes of its row.                                           *)

LEMMA LoadFacts == EngineType => ProofAttempts \in Nat \ {0} /\ Resource = ProofAttempts
BY EngineAssumption DEF EngineType, ProofAttempts, Resource

LEMMA StatusFacts ==
  ASSUME NEW v \in RowType, NEW s \in Statuses
  PROVE  LET w == WithStatus(v, s) IN
         /\ w \in RowType
         /\ w.rec = v.rec /\ w.flags = v.flags /\ w.initial = v.initial /\ w.ticket = v.ticket
         /\ w.durable = v.durable /\ w.attempts = v.attempts /\ w.queued = v.queued
         /\ w.aired = v.aired /\ w.proved = v.proved
         /\ IF "Deleted" \in v.flags \/ v.desired = "DELIVERED"
            THEN w.desired = v.desired /\ w.mask = v.mask /\ w.phase = v.phase
            ELSE /\ w.desired = s
                 /\ w.mask = (IF s = "DELIVERED" THEN {} ELSE v.mask)
                 /\ w.phase = (IF s = "DELIVERED" THEN "Settled" ELSE v.phase)
<1>1. CASE "Deleted" \in v.flags \/ v.desired = "DELIVERED"
  <2>1. WithStatus(v, s) = v
    BY <1>1 DEF WithStatus
  <2>2. QED
    BY <1>1, <2>1
<1>2. CASE ~("Deleted" \in v.flags \/ v.desired = "DELIVERED") /\ s = "DELIVERED"
  <2>1. WithStatus(v, s) = [v EXCEPT !.desired = s, !.mask = {}, !.phase = "Settled"]
    BY <1>2 DEF WithStatus
  <2>2. QED
    BY <1>2, <2>1 DEF RowType, Phases
<1>3. CASE ~("Deleted" \in v.flags \/ v.desired = "DELIVERED") /\ s # "DELIVERED"
  <2>1. WithStatus(v, s) = [v EXCEPT !.desired = s]
    BY <1>3 DEF WithStatus
  <2>2. QED
    BY <1>3, <2>1 DEF RowType
<1>4. QED
  BY <1>1, <1>2, <1>3

LEMMA AirFacts ==
  ASSUME NEW v \in RowType
  PROVE  LET w == OnAir(v) IN
         /\ w \in RowType
         /\ w.phase = v.phase /\ w.rec = v.rec /\ w.flags = v.flags /\ w.initial = v.initial /\ w.ticket = v.ticket
         /\ w.durable = v.durable /\ w.attempts = v.attempts /\ w.queued = v.queued /\ w.mask = v.mask
         /\ w.aired = TRUE /\ w.proved = v.proved
         /\ w.desired = IF "Deleted" \in v.flags \/ v.desired = "DELIVERED" THEN v.desired ELSE "SENT"
<1> DEFINE w == WithStatus(v, "SENT")
<1>1. "SENT" \in Statuses /\ "SENT" # "DELIVERED"
  BY DEF Statuses
<1>2. /\ w \in RowType
      /\ w.rec = v.rec /\ w.flags = v.flags /\ w.initial = v.initial /\ w.ticket = v.ticket
      /\ w.durable = v.durable /\ w.attempts = v.attempts /\ w.queued = v.queued
      /\ w.aired = v.aired /\ w.proved = v.proved /\ w.mask = v.mask /\ w.phase = v.phase
      /\ w.desired = IF "Deleted" \in v.flags \/ v.desired = "DELIVERED" THEN v.desired ELSE "SENT"
  BY <1>1, StatusFacts
<1>3. OnAir(v) = [w EXCEPT !.aired = TRUE]
  BY DEF OnAir
<1> HIDE DEF w
<1>4. QED
  BY <1>2, <1>3 DEF RowType

\* The row stays about the same record, no frame of it was added, and it is as
\* suppressed as before.
Follows(v, w) ==
  /\ w.rec = v.rec /\ w.ticket = v.ticket /\ w.durable = v.durable
  /\ Suppressed(v) => Suppressed(w)
  /\ Served(w) => Served(v) \/ Suppressed(w)
  /\ w.phase = "Query" => v.phase = "Query"

LEMMA FollowsKeeps ==
  ASSUME NEW v, NEW w, NEW recs, NEW gone, NEW state, NEW state2, NEW running, NEW on, NEW at,
         RowInv(v, recs, gone, state, running, on, at), RowOK(w), Follows(v, w),
         state2 = state \/ state2 # "queued"
  PROVE  RowInv(w, recs, gone, state2, running, on, at)
<1>1. Recorded(w, recs)
  BY DEF RowInv, Recorded, Follows
<1>2. Silenced(w, gone, running)
  BY DEF RowInv, Silenced, Follows, Claim
<1>3. Backed(w, recs, running, state2)
  BY DEF RowInv, Backed, Follows
<1>4. Passed(w, recs, running, on, at)
  BY DEF RowInv, Passed, Follows
<1>5. QED
  BY <1>1, <1>2, <1>3, <1>4 DEF RowInv

\* Rows that differ in the count of their frames alone.
Alike(v, w) ==
  /\ w.phase = v.phase /\ w.rec = v.rec /\ w.flags = v.flags /\ w.initial = v.initial /\ w.ticket = v.ticket
  /\ w.desired = v.desired /\ w.durable = v.durable /\ w.attempts = v.attempts /\ w.mask = v.mask
  /\ w.aired = v.aired /\ w.proved = v.proved

LEMMA AlikeKeeps ==
  ASSUME NEW v, NEW w \in RowType, Alike(v, w)
  PROVE  /\ RowOK(v) => RowOK(w)
         /\ Follows(v, w)
<1>1. ASSUME RowOK(v) PROVE TicketOK(w)
  BY <1>1 DEF RowOK, TicketOK, Alike, Suppressed
<1>2. ASSUME RowOK(v) PROVE PhaseOK(w)
  BY <1>2 DEF RowOK, PhaseOK, Alike, Suppressed
<1>3. ASSUME RowOK(v) PROVE StatusOK(w)
  BY <1>3 DEF RowOK, StatusOK, Alike, Truthful
<1>4. Follows(v, w)
  BY DEF Follows, Alike, Suppressed, Served
<1>5. QED
  BY <1>1, <1>2, <1>3, <1>4 DEF RowOK

LEMMA AirRow ==
  ASSUME NEW v, RowOK(v), v.rec # 0
  PROVE  RowOK(OnAir(v)) /\ Follows(v, OnAir(v)) /\ OnAir(v).phase = v.phase
<1> DEFINE w == OnAir(v)
<1>0. v \in RowType
  BY DEF RowOK
<1>1. /\ w \in RowType
      /\ w.phase = v.phase /\ w.rec = v.rec /\ w.flags = v.flags /\ w.initial = v.initial /\ w.ticket = v.ticket
      /\ w.durable = v.durable /\ w.attempts = v.attempts /\ w.queued = v.queued /\ w.mask = v.mask
      /\ w.aired = TRUE /\ w.proved = v.proved
      /\ w.desired = IF "Deleted" \in v.flags \/ v.desired = "DELIVERED" THEN v.desired ELSE "SENT"
  BY <1>0, AirFacts
<1> HIDE DEF w
<1>2. TicketOK(w)
  BY <1>1 DEF RowOK, TicketOK, Suppressed
<1>3. PhaseOK(w)
  BY <1>1 DEF RowOK, PhaseOK, Suppressed
<1>4. StatusOK(w)
  BY <1>1 DEF RowOK, StatusOK, Truthful
<1>5. Follows(v, w)
  BY <1>1 DEF Follows, Suppressed, Served
<1>6. QED
  BY <1>1, <1>2, <1>3, <1>4, <1>5 DEF RowOK, w

\* The row but for its phase and its receipts.
Beside(v, u) ==
  /\ u.rec = v.rec /\ u.flags = v.flags /\ u.initial = v.initial /\ u.ticket = v.ticket
  /\ u.desired = v.desired /\ u.durable = v.durable /\ u.attempts = v.attempts
  /\ u.aired = v.aired /\ u.proved = v.proved

\* A status other than delivered, with what the row's phase becomes, for a row
\* that is being sent.
LEMMA StatusRow ==
  ASSUME NEW v, RowOK(v), NEW u \in RowType, Beside(v, u), u.mask \subseteq v.mask,
         NEW s \in {"QUEUED", "FAILED", "UNCONFIRMED"},
         v.phase \in {"Reading", "AwaitProof", "Resource"}, v.ticket.op # "ReadRecord",
         u.phase \in {"Ready", "Grace", "Settled"}, u.phase = "Ready" => v.attempts < ProofAttempts
  PROVE  /\ RowOK(WithStatus(u, s)) /\ Follows(v, WithStatus(u, s))
         /\ WithStatus(u, s).phase = u.phase /\ WithStatus(u, s).queued = u.queued
<1> DEFINE w == WithStatus(u, s)
<1>1. v \in RowType /\ v.rec # 0 /\ ~Suppressed(v) /\ "Deleted" \notin v.flags /\ v.desired # "DELIVERED"
  BY DEF RowOK, PhaseOK
<1>2. s \in Statuses /\ s # "DELIVERED"
  BY DEF Statuses
<1>3. /\ w \in RowType /\ w.phase = u.phase /\ w.mask = u.mask /\ w.rec = v.rec /\ w.flags = v.flags
      /\ w.initial = v.initial /\ w.ticket = v.ticket /\ w.desired = s /\ w.durable = v.durable
      /\ w.attempts = v.attempts /\ w.queued = u.queued /\ w.aired = v.aired /\ w.proved = v.proved
  BY <1>1, <1>2, StatusFacts DEF Beside
<1> HIDE DEF w
<1>4. TicketOK(w)
  BY <1>1, <1>3 DEF RowOK, TicketOK, Suppressed
<1>5. PhaseOK(w)
  BY <1>1, <1>3 DEF RowOK, PhaseOK, Suppressed
<1>6. StatusOK(w)
  BY <1>2, <1>3 DEF RowOK, StatusOK, Truthful
<1>7. Follows(v, w)
  BY <1>1, <1>3 DEF Follows, Suppressed, Served
<1>8. QED
  BY <1>3, <1>4, <1>5, <1>6, <1>7 DEF RowOK, w

\* Aged is a row that waits no longer, or the row as it was.
LEMMA AgedRow ==
  ASSUME NEW v, RowOK(v), v.ticket = NoTicket, NEW w \in Aged(v), ProofAttempts \in Nat
  PROVE  /\ RowOK(w) /\ Follows(v, w) /\ w.queued = v.queued
         /\ w = v \/ (v.phase \notin {"Reading", "Resource", "Query"} /\ w.phase \notin {"Reading", "Resource", "Query"})
<1>0. v \in RowType /\ v.ticket.op = "none"
  BY DEF RowOK, NoTicket
<1>1. CASE w = v
  BY <1>1 DEF Follows
<1>2. CASE v.phase = "AwaitProof" /\ w = Overdue(v)
  <2>1. PICK phase \in {"Grace", "Ready"}, s \in {"UNCONFIRMED", "QUEUED"} :
          /\ w = WithStatus([v EXCEPT !.phase = phase], s)
          /\ phase = "Ready" => ~(v.attempts >= ProofAttempts)
    BY <1>2 DEF Overdue
  <2> DEFINE u == [v EXCEPT !.phase = phase]
  <2>2. u \in RowType /\ u.phase = phase /\ u.mask = v.mask /\ u.queued = v.queued /\ Beside(v, u)
    BY <1>0 DEF RowType, Phases, Beside
  <2>3. phase = "Ready" => v.attempts < ProofAttempts
    <3>1. v.attempts \in Nat
      BY <1>0 DEF RowType
    <3>2. QED
      BY <2>1, <3>1
  <2>4. w = WithStatus(u, s)
    BY <2>1
  <2> HIDE DEF u
  <2>5. RowOK(w) /\ Follows(v, w) /\ w.phase = phase /\ w.queued = v.queued
    BY <1>0, <1>2, <2>2, <2>3, <2>4, StatusRow
  <2>6. QED
    BY <1>2, <2>5
<1>3. CASE v.phase = "Grace" /\ w = [v EXCEPT !.phase = "Settled"]
  <2>1. /\ w \in RowType /\ w.phase = "Settled" /\ w.mask = v.mask /\ w.rec = v.rec /\ w.flags = v.flags
        /\ w.initial = v.initial /\ w.ticket = v.ticket /\ w.desired = v.desired /\ w.durable = v.durable
        /\ w.attempts = v.attempts /\ w.queued = v.queued /\ w.aired = v.aired /\ w.proved = v.proved
    BY <1>0, <1>3 DEF RowType, Phases
  <2>2. TicketOK(w)
    BY <1>0, <1>3, <2>1 DEF RowOK, TicketOK, Suppressed
  <2>3. PhaseOK(w)
    BY <1>3, <2>1 DEF RowOK, PhaseOK, Suppressed
  <2>4. StatusOK(w)
    BY <2>1 DEF RowOK, StatusOK, Truthful
  <2>5. Follows(v, w)
    BY <1>3, <2>1 DEF Follows, Suppressed, Served
  <2>6. QED
    BY <1>3, <2>1, <2>2, <2>3, <2>4, <2>5 DEF RowOK
<1>4. QED
  BY <1>1, <1>2, <1>3 DEF Aged

LEMMA AckRow ==
  ASSUME NEW v, RowOK(v), v.phase # "Free",
         NEW w, w = [v EXCEPT !.flags = @ \cup {"Acknowledged"}, !.initial = "none"]
  PROVE  RowOK(w) /\ Follows(v, w) /\ w.phase = v.phase /\ w.queued = v.queued
<1>1. v \in RowType
  BY DEF RowOK
<1>2. /\ w \in RowType /\ w.phase = v.phase /\ w.mask = v.mask /\ w.rec = v.rec
      /\ w.flags = v.flags \cup {"Acknowledged"} /\ w.initial = "none" /\ w.ticket = v.ticket
      /\ w.desired = v.desired /\ w.durable = v.durable /\ w.attempts = v.attempts
      /\ w.queued = v.queued /\ w.aired = v.aired /\ w.proved = v.proved
  BY <1>1 DEF RowType, Flags
<1>3. Suppressed(w) <=> Suppressed(v)
  BY <1>2 DEF Suppressed
<1>4. TicketOK(w)
  BY <1>2, <1>3 DEF RowOK, TicketOK
<1>5. PhaseOK(w)
  <2>1. w.flags \cap {"Deleted", "DeletePending", "Blocked"} # {} => v.flags \cap {"Deleted", "DeletePending", "Blocked"} # {}
    BY <1>2
  <2>2. QED
    BY <1>2, <1>3, <2>1 DEF RowOK, PhaseOK
<1>6. StatusOK(w)
  BY <1>2 DEF RowOK, StatusOK, Truthful
<1>7. Follows(v, w)
  BY <1>2, <1>3 DEF Follows, Served
<1>8. QED
  BY <1>2, <1>4, <1>5, <1>6, <1>7 DEF RowOK

LEMMA DeliverRow ==
  ASSUME NEW v, RowOK(v), v.aired, "Deleted" \notin v.flags, v.desired # "DELIVERED",
         NEW u \in RowType, Beside(v, u), u.queued = v.queued,
         NEW w, w = [WithStatus(u, "DELIVERED") EXCEPT !.proved = TRUE]
  PROVE  RowOK(w) /\ Follows(v, w) /\ w.phase = "Settled" /\ w.queued = v.queued
<1> DEFINE x == WithStatus(u, "DELIVERED")
<1>1. v \in RowType /\ v.rec # 0
  BY DEF RowOK, PhaseOK
<1>2. "DELIVERED" \in Statuses
  BY DEF Statuses
<1>3. /\ x \in RowType /\ x.phase = "Settled" /\ x.mask = {} /\ x.rec = v.rec /\ x.flags = v.flags
      /\ x.initial = v.initial /\ x.ticket = v.ticket /\ x.desired = "DELIVERED" /\ x.durable = v.durable
      /\ x.attempts = v.attempts /\ x.queued = v.queued /\ x.aired = v.aired
  BY <1>1, <1>2, StatusFacts DEF Beside
<1> HIDE DEF x
<1>4. /\ w \in RowType /\ w.phase = "Settled" /\ w.mask = {} /\ w.rec = v.rec /\ w.flags = v.flags
      /\ w.initial = v.initial /\ w.ticket = v.ticket /\ w.desired = "DELIVERED" /\ w.durable = v.durable
      /\ w.attempts = v.attempts /\ w.queued = v.queued /\ w.aired = TRUE /\ w.proved = TRUE
  <2>1. w = [x EXCEPT !.proved = TRUE]
    BY DEF x
  <2>2. QED
    BY <1>3, <2>1 DEF RowType
<1>5. TicketOK(w)
  BY <1>1, <1>4 DEF RowOK, TicketOK, PhaseOK, Suppressed
<1>6. PhaseOK(w)
  BY <1>1, <1>4 DEF RowOK, PhaseOK, Suppressed
<1>7. StatusOK(w)
  BY <1>4 DEF RowOK, StatusOK, Truthful
<1>8. Follows(v, w)
  BY <1>4 DEF Follows, Suppressed, Served
<1>9. QED
  BY <1>4, <1>5, <1>6, <1>7, <1>8 DEF RowOK

\* A row that offers a frame, or takes the offer back.
LEMMA SendRow ==
  ASSUME NEW v, RowOK(v), v.phase \in {"Reading", "Resource"}, v.ticket.op # "ReadRecord",
         NEW u \in RowType,
         u.rec = v.rec, u.flags = v.flags, u.initial = v.initial, u.ticket = v.ticket,
         u.desired = v.desired, u.durable = v.durable, u.aired = v.aired, u.proved = v.proved,
         u.phase \in {"Ready", "AwaitProof", "Resource"}, u.mask \subseteq 0 .. Resource,
         u.attempts <= ProofAttempts, u.phase = "Ready" => u.attempts < ProofAttempts
  PROVE  RowOK(u) /\ Follows(v, u)
<1>1. v.rec # 0 /\ ~Suppressed(v) /\ v.desired # "DELIVERED"
  BY DEF RowOK, PhaseOK
<1>2. Suppressed(u) <=> Suppressed(v)
  BY DEF Suppressed
<1>3. TicketOK(u)
  BY <1>1, <1>2 DEF RowOK, TicketOK
<1>4. PhaseOK(u)
  BY <1>1, <1>2 DEF RowOK, PhaseOK
<1>5. StatusOK(u)
  BY DEF RowOK, StatusOK, Truthful
<1>6. Follows(v, u)
  BY <1>2 DEF Follows, Served
<1>7. QED
  BY <1>3, <1>4, <1>5, <1>6 DEF RowOK

LEMMA DeletedRow ==
  ASSUME NEW v, RowOK(v), "DeletePending" \in v.flags
  PROVE  RowOK(MarkDeleted(v)) /\ Follows(v, MarkDeleted(v)) /\ MarkDeleted(v).phase = v.phase
         /\ MarkDeleted(v).queued = v.queued
<1> DEFINE w == MarkDeleted(v)
<1>1. v \in RowType /\ Suppressed(v) /\ v.phase # "Free"
  <2>1. v.flags \cap {"Deleted", "DeletePending", "Blocked"} # {} /\ v.flags # {}
    OBVIOUS
  <2>2. QED
    BY <2>1 DEF RowOK, PhaseOK
<1>2. PICK F \in {(v.flags \ {"DeletePending"}) \cup {"Deleted"}, v.flags \ {"DeletePending"}} : w = [v EXCEPT !.flags = F]
  BY DEF MarkDeleted
<1>3. F \subseteq Flags /\ "Suppressed" \in F
  BY <1>1 DEF RowType, Flags, Suppressed
<1> HIDE DEF w
<1>4. /\ w \in RowType /\ w.phase = v.phase /\ w.mask = v.mask /\ w.rec = v.rec /\ w.flags = F
      /\ w.initial = v.initial /\ w.ticket = v.ticket /\ w.desired = v.desired /\ w.durable = v.durable
      /\ w.attempts = v.attempts /\ w.queued = v.queued /\ w.aired = v.aired /\ w.proved = v.proved
  BY <1>1, <1>2, <1>3 DEF RowType
<1>5. Suppressed(w)
  BY <1>3, <1>4 DEF Suppressed
<1>6. TicketOK(w)
  BY <1>1, <1>4, <1>5 DEF RowOK, TicketOK
<1>7. PhaseOK(w)
  BY <1>1, <1>4, <1>5 DEF RowOK, PhaseOK
<1>8. StatusOK(w)
  BY <1>4 DEF RowOK, StatusOK, Truthful
<1>9. Follows(v, w)
  BY <1>4, <1>5 DEF Follows, Served
<1>10. QED
  BY <1>4, <1>6, <1>7, <1>8, <1>9 DEF RowOK, w

\* A stop puts a started message back, for the next time.
LEMMA RequeuedRow ==
  ASSUME NEW v, RowOK(v), v.phase # "Free"
  PROVE  LET w == WithStatus(v, "QUEUED") IN RowOK(w) /\ Follows(v, w) /\ w.phase = v.phase /\ w.queued = v.queued
<1> DEFINE w == WithStatus(v, "QUEUED")
<1>1. v \in RowType /\ "QUEUED" \in Statuses /\ "QUEUED" # "DELIVERED"
  BY DEF RowOK, Statuses
<1>2. /\ w \in RowType /\ w.phase = v.phase /\ w.mask = v.mask /\ w.rec = v.rec /\ w.flags = v.flags
      /\ w.initial = v.initial /\ w.ticket = v.ticket /\ w.durable = v.durable
      /\ w.attempts = v.attempts /\ w.queued = v.queued /\ w.aired = v.aired /\ w.proved = v.proved
      /\ w.desired = IF "Deleted" \in v.flags \/ v.desired = "DELIVERED" THEN v.desired ELSE "QUEUED"
  BY <1>1, StatusFacts
<1> HIDE DEF w
<1>3. TicketOK(w)
  BY <1>2 DEF RowOK, TicketOK, PhaseOK, Suppressed
<1>4. PhaseOK(w)
  BY <1>2 DEF RowOK, PhaseOK, Suppressed
<1>5. StatusOK(w)
  BY <1>2 DEF RowOK, StatusOK, Truthful
<1>6. Follows(v, w)
  BY <1>2 DEF Follows, Suppressed, Served
<1>7. QED
  BY <1>2, <1>3, <1>4, <1>5, <1>6 DEF RowOK, w

CancelledWith(v, flag) == [Cancelled(v) EXCEPT !.flags = @ \cup flag]

\* A cancelled row stays only to have its save or its query answered.
LEMMA CancelFacts ==
  ASSUME NEW v \in RowType, NEW F \in SUBSET {"DeletePending"},
         NEW w, w = CancelledWith(v, F)
  PROVE  /\ w \in RowType /\ w.flags = v.flags \cup {"Suppressed"} \cup F /\ w.mask = {}
         /\ w.phase = (IF v.ticket = NoTicket \/ v.phase \notin {"Saving", "Query"} THEN "Settled" ELSE v.phase)
         /\ w.rec = v.rec /\ w.initial = v.initial /\ w.desired = v.desired /\ w.durable = v.durable
         /\ w.attempts = v.attempts /\ w.queued = v.queued /\ w.aired = v.aired /\ w.proved = v.proved
         /\ w.ticket.op = v.ticket.op /\ w.ticket.rec = v.ticket.rec /\ w.ticket.status = v.ticket.status
         /\ \/ w.ticket = v.ticket
            \/ /\ v.ticket.op \notin {"none", "UpdateStatus"}
               /\ v.ticket.answer = "queued" /\ w.ticket.answer = "cancelQueued"
<1> DEFINE flags == v.flags \cup {"Suppressed"}
           phase == IF v.ticket = NoTicket \/ v.phase \notin {"Saving", "Query"} THEN "Settled" ELSE v.phase
           answer == IF v.ticket.op \notin {"none", "UpdateStatus"} /\ v.ticket.answer = "queued"
                     THEN "cancelQueued" ELSE v.ticket.answer
           ticket == [v.ticket EXCEPT !.answer = answer]
<1>1. flags \cup F \in SUBSET Flags /\ phase \in Phases
  BY DEF RowType, Flags, Phases
<1>2. v.ticket \in TicketType /\ answer \in Answers \cup {"none"}
  BY DEF RowType, TicketType, Answers
<1>3. /\ ticket \in TicketType /\ ticket.op = v.ticket.op /\ ticket.rec = v.ticket.rec
      /\ ticket.status = v.ticket.status /\ ticket.answer = answer
      /\ answer = v.ticket.answer => ticket = v.ticket
  BY <1>2 DEF TicketType
<1>4. Cancelled(v) = [v EXCEPT !.flags = flags, !.mask = {}, !.phase = phase, !.ticket = ticket]
  BY DEF Cancelled
<1> HIDE DEF flags, phase, ticket
<1>5. w = [v EXCEPT !.flags = flags \cup F, !.mask = {}, !.phase = phase, !.ticket = ticket]
  BY <1>4 DEF RowType, CancelledWith
<1>6. /\ w \in RowType /\ w.flags = flags \cup F /\ w.mask = {} /\ w.phase = phase /\ w.ticket = ticket
      /\ w.rec = v.rec /\ w.initial = v.initial /\ w.desired = v.desired /\ w.durable = v.durable
      /\ w.attempts = v.attempts /\ w.queued = v.queued /\ w.aired = v.aired /\ w.proved = v.proved
  BY <1>1, <1>3, <1>5 DEF RowType
<1>7. QED
  BY <1>3, <1>6 DEF flags, phase

LEMMA CancelRow ==
  ASSUME NEW v, NEW recs, NEW gone, NEW state, NEW running, NEW on, NEW at,
         RowInv(v, recs, gone, state, running, on, at), v.phase # "Free",
         NEW F \in SUBSET {"DeletePending"}, NEW w, w = CancelledWith(v, F),
         NEW gone2, NEW state2, NEW running2, NEW on2,
         running2 => running /\ (v.ticket.op = "CreateOutgoing" => Claim(v) \notin gone2) /\ (on => on2),
         on2 => on
  PROVE  /\ RowInv(w, recs, gone2, state2, running2, on2, at)
         /\ Claim(w) = Claim(v) /\ w.rec = v.rec /\ w.queued = v.queued /\ w.ticket.op = v.ticket.op
         /\ InQueue(w.ticket) <=> InQueue(v.ticket)
         /\ w.phase \notin {"Reading", "Resource"} /\ (w.phase = "Query" => v.phase = "Query")
<1>1. v \in RowType
  BY DEF RowInv, RowOK
<1>2. /\ w \in RowType /\ w.flags = v.flags \cup {"Suppressed"} \cup F /\ w.mask = {}
      /\ w.phase = (IF v.ticket = NoTicket \/ v.phase \notin {"Saving", "Query"} THEN "Settled" ELSE v.phase)
      /\ w.rec = v.rec /\ w.initial = v.initial /\ w.desired = v.desired /\ w.durable = v.durable
      /\ w.attempts = v.attempts /\ w.queued = v.queued /\ w.aired = v.aired /\ w.proved = v.proved
      /\ w.ticket.op = v.ticket.op /\ w.ticket.rec = v.ticket.rec /\ w.ticket.status = v.ticket.status
      /\ \/ w.ticket = v.ticket
         \/ /\ v.ticket.op \notin {"none", "UpdateStatus"}
            /\ v.ticket.answer = "queued" /\ w.ticket.answer = "cancelQueued"
  BY <1>1, CancelFacts
<1>3. Suppressed(w)
  BY <1>2 DEF Suppressed
<1>4. TicketOK(w)
  <2>1. TicketOK(v)
    BY DEF RowInv, RowOK
  <2>2. w.ticket.op = "none" <=> w.ticket = NoTicket
    BY <1>2, <2>1 DEF TicketOK, NoTicket
  <2>3. QED
    BY <1>2, <1>3, <2>1, <2>2 DEF TicketOK, NoTicket
<1>5. PhaseOK(w)
  BY <1>2, <1>3 DEF RowInv, RowOK, PhaseOK, TicketOK
<1>6. StatusOK(w)
  BY <1>2 DEF RowInv, RowOK, StatusOK, Truthful
<1>7. Recorded(w, recs)
  BY <1>2 DEF RowInv, Recorded
<1>8. Claim(w) = Claim(v)
  BY <1>2 DEF Claim
<1>9. Silenced(w, gone2, running2)
  BY <1>2, <1>3, <1>8 DEF Silenced
<1>10. Backed(w, recs, running2, state2)
  BY <1>3 DEF Backed
<1>11. Passed(w, recs, running2, on2, at)
  BY <1>2 DEF RowInv, Passed, Found
<1>12. InQueue(w.ticket) <=> InQueue(v.ticket)
  BY <1>2 DEF InQueue
<1>13. QED
  BY <1>2, <1>4, <1>5, <1>6, <1>7, <1>8, <1>9, <1>10, <1>11, <1>12 DEF RowInv, RowOK

-----------------------------------------------------------------------------
(* What an answer of the store makes of its row.                           *)

Unticketed(v) == [v EXCEPT !.ticket = NoTicket]

LEMMA UnticketedFacts ==
  ASSUME NEW v \in RowType
  PROVE  LET u == Unticketed(v) IN
         /\ u \in RowType /\ u.ticket = NoTicket
         /\ u.phase = v.phase /\ u.rec = v.rec /\ u.flags = v.flags /\ u.initial = v.initial
         /\ u.desired = v.desired /\ u.durable = v.durable /\ u.attempts = v.attempts /\ u.mask = v.mask
         /\ u.queued = v.queued /\ u.aired = v.aired /\ u.proved = v.proved
<1>1. NoTicket \in TicketType
  BY EngineAssumption DEF NoTicket, TicketType, Operations, Answers, Statuses
<1>2. QED
  BY <1>1 DEF RowType, Unticketed

LEMMA NoTicketFacts == NoTicket.op = "none" /\ NoTicket.answer = "none" /\ NoTicket.rec = 0 /\ ~InQueue(NoTicket)
BY DEF NoTicket, InQueue

\* A row that waits for nothing and about which nothing is remembered.
LEMMA EmptyRow ==
  ASSUME ProofAttempts \in Nat, NEW w \in RowType, w.ticket = NoTicket, w.rec = 0, w.mask = {}, w.attempts = 0, ~w.aired, ~w.proved,
         w.initial # "committed", w.desired \notin {"SENT", "DELIVERED"}, w.durable \notin {"SENT", "DELIVERED"},
         w.flags \cap {"Deleted", "DeletePending", "Blocked"} # {} => Suppressed(w),
         NEW recs, NEW gone, NEW state, NEW running, NEW on, NEW at \in Nat, 0 \notin gone,
         \/ w.phase = "Settled"
         \/ w.phase = "Query" /\ ~Suppressed(w) /\ (running => on)
  PROVE  RowInv(w, recs, gone, state, running, on, at) /\ Claim(w) = 0
<1>1. TicketOK(w)
  BY NoTicketFacts DEF TicketOK
<1>2. PhaseOK(w)
  BY DEF PhaseOK
<1>3. StatusOK(w)
  BY NoTicketFacts DEF StatusOK, Truthful
<1>4. Recorded(w, recs) /\ Claim(w) = 0
  BY NoTicketFacts DEF Recorded, Claim
<1>5. Silenced(w, gone, running)
  BY <1>4 DEF Silenced
<1>6. Backed(w, recs, running, state)
  BY NoTicketFacts DEF Backed, Served
<1>7. Passed(w, recs, running, on, at)
  BY NoTicketFacts DEF Passed, Found
<1>8. QED
  BY <1>1, <1>2, <1>3, <1>4, <1>5, <1>6, <1>7 DEF RowInv, RowOK

LEMMA CreateSettled ==
  ASSUME NEW v, NEW recs, NEW gone, NEW state, NEW running, NEW on, NEW at \in Nat,
         RowInv(v, recs, gone, state, running, on, at), ProofAttempts \in Nat \ {0}, 0 \notin DOMAIN recs,
         v.ticket.op = "CreateOutgoing", ~InQueue(v.ticket),
         NEW w, w = SettledCreate(Unticketed(v), v.ticket),
         NEW gone2, gone2 = gone \/ Suppressed(w), 0 \notin gone2
  PROVE  /\ RowInv(w, recs, gone2, state, running, on, at)
         /\ Claim(w) \in {0, Claim(v)} /\ w.queued = v.queued /\ w.ticket = NoTicket
         /\ w.phase \notin {"Reading", "Resource", "Query"}
<1> DEFINE u == Unticketed(v)
           t == v.ticket
<1>1. v \in RowType /\ v.phase = "Saving" /\ v.rec = 0 /\ ~on
  BY DEF RowInv, RowOK, TicketOK, PhaseOK, Passed
<1>2. /\ u \in RowType /\ u.ticket = NoTicket
      /\ u.phase = v.phase /\ u.rec = v.rec /\ u.flags = v.flags /\ u.initial = v.initial
      /\ u.desired = v.desired /\ u.durable = v.durable /\ u.attempts = v.attempts /\ u.mask = v.mask
      /\ u.queued = v.queued /\ u.aired = v.aired /\ u.proved = v.proved
  BY <1>1, UnticketedFacts
<1>3. /\ v.mask = {} /\ v.attempts = 0 /\ ~v.aired /\ ~v.proved /\ v.initial # "committed"
      /\ v.desired \notin {"SENT", "DELIVERED"} /\ v.durable \notin {"SENT", "DELIVERED"}
      /\ v.flags \cap {"Deleted", "DeletePending", "Blocked"} # {} => Suppressed(v)
  BY <1>1 DEF RowInv, RowOK, PhaseOK, StatusOK, Truthful
<1> HIDE DEF u
<1>4. CASE t.answer # "ok"
  <2>1. PICK initial \in {"cancelled", "failed"} : w = [u EXCEPT !.initial = initial, !.phase = "Settled"]
    BY <1>4 DEF SettledCreate, u
  <2>2. /\ w \in RowType /\ w.ticket = NoTicket /\ w.rec = 0 /\ w.mask = {} /\ w.attempts = 0 /\ ~w.aired /\ ~w.proved
        /\ w.initial # "committed" /\ w.desired = v.desired /\ w.durable = v.durable /\ w.flags = v.flags
        /\ w.queued = v.queued /\ w.phase = "Settled"
    BY <1>1, <1>2, <1>3, <2>1 DEF RowType, Phases
  <2>3. Suppressed(w) <=> Suppressed(v)
    BY <2>2 DEF Suppressed
  <2>4. RowInv(w, recs, gone2, state, running, on, at) /\ Claim(w) = 0
    BY <1>3, <2>2, <2>3, EmptyRow
  <2>5. QED
    BY <2>2, <2>4
<1>5. CASE t.answer = "ok"
  <2>1. /\ t.rec \in DOMAIN recs /\ t.status = "QUEUED" /\ recs[t.rec] \in {"QUEUED", "gone"} /\ Claim(v) = t.rec
        /\ t.rec \in 0 .. MaxRecords
    BY <1>1, <1>5 DEF RowInv, Recorded, Claim, RowType, TicketType
  <2> DEFINE phase == IF "Suppressed" \in u.flags THEN "Settled" ELSE "Ready"
  <2>2. w = [u EXCEPT !.initial = "committed", !.rec = t.rec, !.durable = t.status, !.phase = phase]
    BY <1>5 DEF SettledCreate, u
  <2>3. phase \in {"Settled", "Ready"} /\ phase \in Phases /\ (phase = "Settled" <=> Suppressed(v))
    BY <1>2 DEF Phases, Suppressed
  <2> HIDE DEF phase
  <2>found. w = [u EXCEPT !.initial = "committed", !.rec = t.rec, !.durable = "QUEUED", !.phase = phase] /\ "QUEUED" \in Statuses
    BY <2>1, <2>2 DEF Statuses
  <2>4. /\ w \in RowType /\ w.ticket = NoTicket /\ w.rec = t.rec /\ w.mask = {} /\ w.attempts = 0 /\ ~w.aired /\ ~w.proved
        /\ w.initial = "committed" /\ w.desired = v.desired /\ w.durable = "QUEUED" /\ w.flags = v.flags
        /\ w.queued = v.queued /\ w.phase = phase
    BY <1>1, <1>2, <1>3, <2>1, <2>found, <2>3 DEF RowType
  <2>5. Suppressed(w) <=> Suppressed(v)
    BY <2>4 DEF Suppressed
  <2>6. t.rec # 0
    BY <2>1
  <2>7. TicketOK(w)
    BY <2>3, <2>4, NoTicketFacts DEF TicketOK
  <2>8. PhaseOK(w)
    BY <1>3, <2>3, <2>4, <2>5, <2>6 DEF PhaseOK
  <2>9. StatusOK(w)
    BY <1>3, <2>4, NoTicketFacts DEF StatusOK, Truthful
  <2>10. Recorded(w, recs) /\ Claim(w) = t.rec
    BY <2>1, <2>4, NoTicketFacts DEF Recorded, Claim
  <2>11. Silenced(w, gone2, running)
    BY <2>1, <2>4, <2>5, <2>10, NoTicketFacts DEF RowInv, Silenced
  <2>12. Backed(w, recs, running, state)
    BY <2>3, <2>4, NoTicketFacts DEF Backed, Served
  <2>13. Passed(w, recs, running, on, at)
    BY <1>1, <2>3, <2>4 DEF Passed
  <2>14. QED
    BY <2>1, <2>3, <2>4, <2>7, <2>8, <2>9, <2>10, <2>11, <2>12, <2>13 DEF RowInv, RowOK
<1>6. QED
  BY <1>4, <1>5

LEMMA StatusSettled ==
  ASSUME NEW v, NEW recs, NEW gone, NEW state, NEW running, NEW on, NEW at \in Nat,
         RowInv(v, recs, gone, state, running, on, at),
         v.ticket.op = "UpdateStatus", ~InQueue(v.ticket),
         NEW w, w = SettledStatus(Unticketed(v), v.ticket),
         NEW gone2, gone2 = gone \/ Suppressed(w)
  PROVE  /\ RowInv(w, recs, gone2, state, running, on, at)
         /\ Claim(w) = Claim(v) /\ w.rec = v.rec /\ w.queued = v.queued /\ w.ticket = NoTicket /\ w.phase = v.phase
<1> DEFINE u == Unticketed(v)
           t == v.ticket
<1>1. v \in RowType /\ v.rec # 0 /\ t.rec = v.rec /\ TicketOK(v) /\ PhaseOK(v) /\ t \in TicketType
  BY DEF RowInv, RowOK, TicketOK, RowType
<1>2. /\ u \in RowType /\ u.ticket = NoTicket
      /\ u.phase = v.phase /\ u.rec = v.rec /\ u.flags = v.flags /\ u.initial = v.initial
      /\ u.desired = v.desired /\ u.durable = v.durable /\ u.attempts = v.attempts /\ u.mask = v.mask
      /\ u.queued = v.queued /\ u.aired = v.aired /\ u.proved = v.proved
  BY <1>1, UnticketedFacts
<1> HIDE DEF u
<1>3. /\ w \in RowType /\ w.ticket = NoTicket
      /\ w.phase = v.phase /\ w.rec = v.rec /\ w.flags = v.flags /\ w.initial = v.initial
      /\ w.desired = v.desired /\ w.attempts = v.attempts /\ w.mask = v.mask
      /\ w.queued = v.queued /\ w.aired = v.aired /\ w.proved = v.proved
      /\ w.durable = IF t.answer = "ok" THEN t.status ELSE v.durable
  <2>1. CASE t.answer = "ok"
    <3>1. w = [u EXCEPT !.durable = t.status] /\ t.status \in Statuses
      BY <1>1, <2>1 DEF SettledStatus, u, TicketType
    <3>2. QED
      BY <1>2, <2>1, <3>1 DEF RowType
  <2>2. CASE t.answer # "ok"
    <3>1. w = u
      BY <2>2 DEF SettledStatus, u
    <3>2. QED
      BY <1>2, <2>2, <3>1
  <2>3. QED
    BY <2>1, <2>2
<1>4. Suppressed(w) <=> Suppressed(v)
  BY <1>3 DEF Suppressed
<1>5. TicketOK(w)
  BY <1>1, <1>3, NoTicketFacts DEF TicketOK, PhaseOK
<1>6. PhaseOK(w)
  BY <1>1, <1>3, <1>4 DEF PhaseOK
<1>7. StatusOK(w)
  BY <1>3, NoTicketFacts DEF RowInv, RowOK, StatusOK, Truthful
<1>8. Recorded(w, recs) /\ Claim(w) = Claim(v)
  BY <1>3, NoTicketFacts DEF RowInv, Recorded, Claim
<1>9. Silenced(w, gone2, running)
  BY <1>3, <1>4, <1>8, NoTicketFacts DEF RowInv, Silenced
<1>10. Backed(w, recs, running, state)
  BY <1>3, <1>4, NoTicketFacts DEF RowInv, Backed, Served
<1>11. Passed(w, recs, running, on, at)
  BY <1>3, NoTicketFacts DEF RowInv, Passed, Found
<1>12. QED
  BY <1>3, <1>5, <1>6, <1>7, <1>8, <1>9, <1>10, <1>11 DEF RowInv, RowOK

Cleaned(b, status) == [b EXCEPT !.mask = {}, !.attempts = 0, !.desired = status]

LEMMA CleanRow ==
  ASSUME NEW b \in RowType, NEW s \in Statuses
  PROVE  LET w == Cleaned(b, s) IN
         /\ w \in RowType /\ w.mask = {} /\ w.attempts = 0 /\ w.desired = s /\ w.ticket = b.ticket
         /\ w.phase = b.phase /\ w.rec = b.rec /\ w.flags = b.flags /\ w.initial = b.initial
         /\ w.durable = b.durable /\ w.queued = b.queued /\ w.aired = b.aired /\ w.proved = b.proved
<1> DEFINE none == {}
<1>1. none \in SUBSET Nat
  OBVIOUS
<1> HIDE DEF none
<1>2. [b EXCEPT !.mask = none, !.attempts = 0, !.desired = s] \in RowType
  BY <1>1 DEF RowType
<1>3. Cleaned(b, s) \in RowType
  BY <1>2 DEF none, Cleaned
<1>4. QED
  BY <1>3 DEF RowType, Cleaned

LEMMA ReadSettled ==
  ASSUME NEW v, NEW recs, NEW gone, NEW state, NEW running, NEW on, NEW at \in Nat,
         RowInv(v, recs, gone, state, running, on, at), ProofAttempts \in Nat \ {0},
         v.ticket.op = "ReadRecord", ~InQueue(v.ticket),
         NEW w, w = SettledRead(Unticketed(v), v.ticket),
         NEW gone2, gone2 = gone \/ Suppressed(w)
  PROVE  /\ RowInv(w, recs, gone2, state, running, on, at)
         /\ Claim(w) = Claim(v) /\ w.rec = v.rec /\ w.queued = v.queued /\ w.ticket = NoTicket
         /\ v.phase # "Resource" /\ w.phase \notin {"Resource", "Query"}
         /\ w.phase = "Reading" => v.phase = "Reading"
<1> DEFINE u == Unticketed(v)
           t == v.ticket
<1>1. /\ v \in RowType /\ v.rec # 0 /\ TicketOK(v) /\ PhaseOK(v) /\ StatusOK(v)
      /\ t.answer \in {"ok", "failed", "cancelled", "invalid", "foreign"}
  BY DEF RowInv, RowOK, TicketOK, RowType, TicketType, Answers, InQueue
<1>2. /\ u \in RowType /\ u.ticket = NoTicket
      /\ u.phase = v.phase /\ u.rec = v.rec /\ u.flags = v.flags /\ u.initial = v.initial
      /\ u.desired = v.desired /\ u.durable = v.durable /\ u.attempts = v.attempts /\ u.mask = v.mask
      /\ u.queued = v.queued /\ u.aired = v.aired /\ u.proved = v.proved
  BY <1>1, UnticketedFacts
<1> HIDE DEF u
<1>3. v.phase \notin {"Resource", "Query"}
  BY <1>1 DEF TicketOK, PhaseOK
<1> DEFINE flags == v.flags \cup {"Suppressed", "Blocked"}
\* Any outcome is of this form.
<1>4. ASSUME w \in RowType, w.ticket = NoTicket, w.rec = v.rec, w.initial = v.initial, w.durable = v.durable,
             w.aired = v.aired, w.proved = v.proved, w.queued = v.queued,
             w.mask \subseteq v.mask, w.attempts \in {0, v.attempts},
             w.flags = v.flags \/ (w.flags = flags /\ w.phase = "Settled"),
             \/ w.phase = "Settled" /\ (w.flags = flags \/ Suppressed(v) \/ v.desired = "DELIVERED")
             \/ v.phase = "Reading" /\ w.phase \in {"Reading", "Ready"} /\ w.attempts = v.attempts
                /\ (w.phase = "Reading" => t.answer = "ok"),
             \/ w.desired = v.desired
             \/ v.desired # "DELIVERED" /\ w.desired \in {v.durable, "FAILED"}
      PROVE  RowInv(w, recs, gone2, state, running, on, at) /\ Claim(w) = Claim(v)
  <2>1. Suppressed(v) => Suppressed(w)
    BY <1>4 DEF Suppressed
  <2>2. Suppressed(w) => w.phase = "Settled"
    BY <1>4, <1>1, <1>3 DEF Suppressed, PhaseOK
  <2>3. TicketOK(w)
    BY <1>1, <1>3, <1>4, NoTicketFacts DEF TicketOK, PhaseOK
  <2>4. w.flags \cap {"Deleted", "DeletePending", "Blocked"} # {} => Suppressed(w)
    BY <1>1, <1>4 DEF PhaseOK, Suppressed
  <2>5. v.durable # "DELIVERED" \/ v.desired = "DELIVERED"
    BY <1>1 DEF PhaseOK, StatusOK, Truthful
  <2>6. w.desired = "DELIVERED" => w.phase = "Settled"
    BY <1>1, <1>4, <2>5 DEF PhaseOK
  <2>7. w.proved => w.desired = "DELIVERED"
    BY <1>1, <1>4 DEF PhaseOK
  <2>8. w.attempts <= ProofAttempts /\ w.mask \subseteq 0 .. Resource
        /\ (w.phase \in {"Ready", "Reading"} => w.attempts < ProofAttempts)
    BY <1>1, <1>4 DEF PhaseOK
  <2>9. PhaseOK(w)
    BY <1>1, <1>4, <2>2, <2>4, <2>6, <2>7, <2>8 DEF PhaseOK
  <2>10. StatusOK(w)
    BY <1>1, <1>4, NoTicketFacts DEF StatusOK, Truthful
  <2>11. Recorded(w, recs) /\ Claim(w) = Claim(v)
    BY <1>4, NoTicketFacts DEF RowInv, Recorded, Claim
  <2>12. Silenced(w, gone2, running)
    BY <1>4, <2>1, <2>11, NoTicketFacts DEF RowInv, Silenced
  <2>13. Served(w) => Served(v)
    BY <1>1, <1>4, NoTicketFacts DEF Served
  <2>14. Backed(w, recs, running, state)
    BY <1>4, <2>1, <2>13, NoTicketFacts DEF RowInv, Backed
  <2>15. Passed(w, recs, running, on, at)
    BY <1>4, NoTicketFacts DEF RowInv, Passed, Found
  <2>16. QED
    BY <1>4, <2>3, <2>9, <2>10, <2>11, <2>12, <2>14, <2>15 DEF RowInv, RowOK
<1> DEFINE Shape == /\ w \in RowType /\ w.ticket = NoTicket /\ w.rec = v.rec /\ w.initial = v.initial /\ w.durable = v.durable
                    /\ w.aired = v.aired /\ w.proved = v.proved /\ w.queued = v.queued
                    /\ w.mask \subseteq v.mask
<1>5. CASE Suppressed(v) \/ v.desired = "DELIVERED"
  <2>1. w = [u EXCEPT !.phase = "Settled"]
    BY <1>2, <1>5 DEF SettledRead, u, Suppressed
  <2>2. Shape /\ w.attempts = v.attempts /\ w.flags = v.flags /\ w.phase = "Settled" /\ w.desired = v.desired
    BY <1>2, <2>1 DEF RowType, Phases
  <2>3. QED
    BY <1>3, <1>4, <1>5, <2>2
<1>6. CASE ~(Suppressed(v) \/ v.desired = "DELIVERED")
  <2>0. v.phase = "Reading" /\ "Suppressed" \notin u.flags /\ u.desired # "DELIVERED" /\ "Deleted" \notin u.flags
    BY <1>1, <1>2, <1>6 DEF TicketOK, PhaseOK, Suppressed
  <2>1. CASE t.answer \in {"failed", "cancelled", "ok"}
    <3>1. PICK phase \in {"Ready", "Reading"} : w = [u EXCEPT !.phase = phase] /\ (phase = "Reading" => t.answer = "ok")
      BY <2>0, <2>1 DEF SettledRead, u
    <3>2. Shape /\ w.attempts = v.attempts /\ w.flags = v.flags /\ w.phase = phase /\ w.desired = v.desired
      BY <1>2, <3>1 DEF RowType, Phases
    <3>3. QED
      BY <1>3, <1>4, <2>0, <3>1, <3>2
  <2> DEFINE b == Blocked(u)
  <2>2. /\ b \in RowType /\ b.ticket = NoTicket
        /\ b.phase = "Settled" /\ b.rec = v.rec /\ b.flags = flags /\ b.initial = v.initial
        /\ b.desired = v.desired /\ b.durable = v.durable /\ b.attempts = v.attempts /\ b.mask = v.mask
        /\ b.queued = v.queued /\ b.aired = v.aired /\ b.proved = v.proved
    <3>1. u.flags \cup {"Suppressed", "Blocked"} \in SUBSET Flags /\ "Settled" \in Phases
      BY <1>2 DEF RowType, Flags, Phases
    <3>2. b = [u EXCEPT !.flags = u.flags \cup {"Suppressed", "Blocked"}, !.phase = "Settled"]
      BY DEF Blocked
    <3>3. QED
      BY <1>2, <3>1, <3>2 DEF RowType
  <2>3. CASE t.answer = "foreign"
    <3>1. w = [b EXCEPT !.mask = {}, !.attempts = 0, !.desired = u.durable]
      BY <2>0, <2>3 DEF SettledRead, u
    <3> HIDE DEF b
    <3>2. w = Cleaned(b, v.durable) /\ v.durable \in Statuses
      BY <1>1, <1>2, <3>1 DEF RowType, Cleaned
    <3>3. /\ w \in RowType /\ w.mask = {} /\ w.attempts = 0 /\ w.desired = v.durable /\ w.ticket = b.ticket
          /\ w.phase = b.phase /\ w.rec = b.rec /\ w.flags = b.flags /\ w.initial = b.initial
          /\ w.durable = b.durable /\ w.queued = b.queued /\ w.aired = b.aired /\ w.proved = b.proved
      BY <2>2, <3>2, CleanRow
    <3>4. Shape /\ w.attempts = 0 /\ w.flags = flags /\ w.phase = "Settled" /\ w.desired = v.durable
      BY <2>2, <3>3
    <3>5. QED
      BY <1>3, <1>4, <1>6, <3>4
  <2>4. CASE t.answer = "invalid"
    <3>1. w = WithStatus(b, "FAILED")
      BY <2>0, <2>4 DEF SettledRead, u
    <3> HIDE DEF b
    <3>2. "FAILED" \in Statuses /\ "FAILED" # "DELIVERED"
      BY DEF Statuses
    <3>3. "Deleted" \notin b.flags /\ b.desired # "DELIVERED"
      BY <1>2, <2>0, <2>2
    <3>4. Shape /\ w.attempts = v.attempts /\ w.flags = flags /\ w.phase = "Settled" /\ w.desired = "FAILED"
      BY <2>2, <3>1, <3>2, <3>3, StatusFacts
    <3>5. QED
      BY <1>3, <1>4, <1>6, <3>4
  <2>5. QED
    BY <1>1, <2>1, <2>3, <2>4
<1>7. QED
  BY <1>5, <1>6

LEMMA PendingSettled ==
  ASSUME NEW v, NEW recs, NEW gone, NEW state, NEW running, NEW at \in Nat,
         RowInv(v, recs, gone, state, running, recovering, at), ProofAttempts \in Nat \ {0},
         0 \notin DOMAIN recs, gone \subseteq DOMAIN recs, recovering => \A c \in gone : c <= at,
         recovering \in BOOLEAN, gone \subseteq Nat,
         v.ticket.op = "ReadPending", ~InQueue(v.ticket),
         NEW w, w = SettledPending(Unticketed(v), v.ticket),
         NEW gone2, gone2 = gone \/ Suppressed(w), 0 \notin gone2,
         NEW found, found <=> recovering /\ ~Suppressed(v) /\ v.ticket.answer # "failed",
         NEW on2, on2 = (recovering /\ ~(found /\ v.ticket.rec = 0)),
         NEW at2, at2 = IF found /\ v.ticket.rec # 0 THEN v.ticket.rec ELSE at
  PROVE  /\ RowInv(w, recs, gone2, state, running, on2, at2)
         /\ Claim(w) \in {0, v.ticket.rec} /\ (Claim(w) # 0 => found /\ ~InDelivery(v.ticket.rec))
         /\ Claim(w) = w.rec /\ w.queued = v.queued /\ w.ticket = NoTicket
         /\ v.phase = "Query" /\ w.phase \notin {"Reading", "Resource"}
<1> DEFINE u == Unticketed(v)
           t == v.ticket
<1>1. /\ v \in RowType /\ v.phase = "Query" /\ v.rec = 0 /\ TicketOK(v) /\ PhaseOK(v) /\ StatusOK(v)
      /\ t \in TicketType /\ t.rec \in Nat /\ t.rec \in 0 .. MaxRecords
  BY EngineAssumption DEF RowInv, RowOK, TicketOK, PhaseOK, RowType, TicketType
<1>2. /\ u \in RowType /\ u.ticket = NoTicket
      /\ u.phase = v.phase /\ u.rec = v.rec /\ u.flags = v.flags /\ u.initial = v.initial
      /\ u.desired = v.desired /\ u.durable = v.durable /\ u.attempts = v.attempts /\ u.mask = v.mask
      /\ u.queued = v.queued /\ u.aired = v.aired /\ u.proved = v.proved
  BY <1>1, UnticketedFacts
<1>3. /\ v.mask = {} /\ v.attempts = 0 /\ ~v.aired /\ ~v.proved /\ v.initial # "committed"
      /\ v.desired \notin {"SENT", "DELIVERED"} /\ v.durable \notin {"SENT", "DELIVERED"}
      /\ v.flags \cap {"Deleted", "DeletePending", "Blocked"} # {} => Suppressed(v)
  BY <1>1 DEF PhaseOK, StatusOK, Truthful
<1>4. at2 \in Nat
  BY <1>1
<1> HIDE DEF u
\* Nothing to take up.
<1>5. ASSUME w \in {u, [u EXCEPT !.phase = "Settled"]}, w = u => ~Suppressed(v) /\ (running => on2)
      PROVE  RowInv(w, recs, gone2, state, running, on2, at2) /\ Claim(w) = 0 /\ w.rec = 0
             /\ w.queued = v.queued /\ w.ticket = NoTicket /\ w.phase \notin {"Reading", "Resource"}
  <2>1. /\ w \in RowType /\ w.ticket = NoTicket /\ w.rec = 0 /\ w.mask = {} /\ w.attempts = 0 /\ ~w.aired /\ ~w.proved
        /\ w.initial # "committed" /\ w.desired = v.desired /\ w.durable = v.durable /\ w.flags = v.flags
        /\ w.queued = v.queued
        /\ w.phase = "Settled" \/ (w.phase = "Query" /\ ~Suppressed(v) /\ (running => on2))
    BY <1>1, <1>2, <1>3, <1>5 DEF RowType, Phases
  <2>2. Suppressed(w) <=> Suppressed(v)
    BY <2>1 DEF Suppressed
  <2>3. QED
    BY <1>3, <1>4, <2>1, <2>2, EmptyRow
<1>6. CASE ~recovering \/ Suppressed(v)
  <2>1. w = [u EXCEPT !.phase = "Settled"]
    BY <1>2, <1>6 DEF SettledPending, u, Suppressed
  <2>2. w # u
    BY <1>1, <1>2, <2>1 DEF RowType
  <2>3. QED
    BY <1>1, <1>5, <2>1, <2>2
<1>7. CASE recovering /\ ~Suppressed(v) /\ t.answer = "failed"
  <2>1. w = u
    BY <1>2, <1>7 DEF SettledPending, u, Suppressed
  <2>2. on2
    BY <1>7
  <2>3. QED
    BY <1>1, <1>5, <1>7, <2>1, <2>2
<1>8. CASE recovering /\ ~Suppressed(v) /\ t.answer # "failed"
  <2>1. found
    BY <1>8
  <2>2. CASE t.rec = 0 \/ t.answer = "invalid" \/ InDelivery(t.rec)
    <3>1. w = [u EXCEPT !.phase = "Settled"]
      BY <1>2, <1>8, <2>2 DEF SettledPending, u, Suppressed
    <3>2. w # u
      BY <1>1, <1>2, <3>1 DEF RowType
    <3>3. QED
      BY <1>1, <1>5, <3>1, <3>2
  <2>3. CASE t.rec # 0 /\ t.answer # "invalid" /\ ~InDelivery(t.rec)
    <3>1. t.answer \in {"ok", "unsendable", "foreign"} /\ Found(t)
      BY <1>1, <1>8, <2>3 DEF TicketOK, TicketType, Answers, InQueue, Found
    <3>2. /\ on2 = TRUE /\ at2 = t.rec
          /\ at < t.rec /\ t.rec \in DOMAIN recs
          /\ t.status \in {"QUEUED", "SENDING"} /\ t.status \in Statuses /\ recs[t.rec] \in {t.status, "gone"}
      BY <1>8, <2>1, <2>3, <3>1 DEF RowInv, Passed, Statuses
    <3>3. t.rec \notin gone
      <4>1. SUFFICES ASSUME t.rec \in gone PROVE FALSE
        OBVIOUS
      <4>2. t.rec <= at
        BY <1>8, <4>1
      <4>3. QED
        BY <1>1, <3>2, <4>2
    <3> DEFINE f == [u EXCEPT !.rec = t.rec, !.durable = t.status, !.desired = "QUEUED", !.phase = "Ready"]
    <3>4. /\ f \in RowType /\ f.ticket = NoTicket
          /\ f.phase = "Ready" /\ f.rec = t.rec /\ f.flags = v.flags /\ f.initial = v.initial
          /\ f.desired = "QUEUED" /\ f.durable = t.status /\ f.attempts = 0 /\ f.mask = {}
          /\ f.queued = v.queued /\ ~f.aired /\ ~f.proved
      <4>1. "QUEUED" \in Statuses /\ "Ready" \in Phases
        BY DEF Statuses, Phases
      <4>2. QED
        BY <1>1, <1>2, <1>3, <3>2, <4>1 DEF RowType
    <3>5. w = IF t.answer = "ok" THEN f ELSE WithStatus(Blocked(f), "FAILED")
      BY <1>2, <1>8, <2>3 DEF SettledPending, u, Suppressed
    <3> HIDE DEF f
    <3>6. /\ w \in RowType /\ w.ticket = NoTicket /\ w.rec = t.rec /\ w.initial = v.initial
          /\ w.durable = t.status /\ w.attempts = 0 /\ w.mask = {} /\ w.queued = v.queued /\ ~w.aired /\ ~w.proved
          /\ \/ w.phase = "Ready" /\ w.flags = v.flags /\ w.desired = "QUEUED"
             \/ w.phase = "Settled" /\ Suppressed(w) /\ w.desired = "FAILED"
      <4>1. CASE t.answer = "ok"
        BY <3>4, <3>5, <4>1
      <4>2. CASE t.answer # "ok"
        <5> DEFINE b == Blocked(f)
        <5>1. f.flags \cup {"Suppressed", "Blocked"} \in SUBSET Flags /\ "Settled" \in Phases
          BY <3>4 DEF RowType, Flags, Phases
        <5>2. b = [f EXCEPT !.flags = f.flags \cup {"Suppressed", "Blocked"}, !.phase = "Settled"]
          BY DEF Blocked
        <5>3. /\ b \in RowType /\ b.ticket = NoTicket
              /\ b.phase = "Settled" /\ b.rec = t.rec /\ b.flags = v.flags \cup {"Suppressed", "Blocked"} /\ b.initial = v.initial
              /\ b.desired = "QUEUED" /\ b.durable = t.status /\ b.attempts = 0 /\ b.mask = {}
              /\ b.queued = v.queued /\ ~b.aired /\ ~b.proved
          BY <3>4, <5>1, <5>2 DEF RowType
        <5>4. "Deleted" \notin b.flags
          BY <1>3, <1>8, <5>3
        <5>5. "FAILED" \in Statuses /\ "FAILED" # "DELIVERED"
          BY DEF Statuses
        <5>6. w = WithStatus(b, "FAILED")
          BY <3>5, <4>2
        <5> HIDE DEF b
        <5>7. QED
          BY <5>3, <5>4, <5>5, <5>6, StatusFacts DEF Suppressed
      <4>3. QED
        BY <4>1, <4>2
    <3>7. TicketOK(w)
      BY <3>6, NoTicketFacts DEF TicketOK
    <3>8. Suppressed(v) <=> "Suppressed" \in v.flags
      BY DEF Suppressed
    <3>9. w.phase = "Ready" => ~Suppressed(w)
      BY <1>8, <3>6, <3>8 DEF Suppressed
    <3>10. w.flags \cap {"Deleted", "DeletePending", "Blocked"} # {} => Suppressed(w)
      BY <1>3, <3>6 DEF Suppressed
    <3>11. PhaseOK(w)
      BY <2>3, <3>6, <3>9, <3>10 DEF PhaseOK
    <3>12. StatusOK(w)
      BY <3>2, <3>6, NoTicketFacts DEF StatusOK, Truthful
    <3>13. Recorded(w, recs) /\ Claim(w) = t.rec
      BY <3>2, <3>6, NoTicketFacts DEF Recorded, Claim
    <3>14. Silenced(w, gone2, running)
      BY <3>3, <3>6, <3>13, NoTicketFacts DEF Silenced
    <3>15. Backed(w, recs, running, state)
      BY <3>6, NoTicketFacts DEF Backed, Served
    <3>16. Passed(w, recs, running, on2, at2)
      BY <1>1, <3>2, <3>6, NoTicketFacts DEF Passed, Found
    <3>17. QED
      BY <1>1, <2>1, <2>3, <3>6, <3>7, <3>11, <3>12, <3>13, <3>14, <3>15, <3>16 DEF RowInv, RowOK
  <2>4. QED
    BY <2>2, <2>3
<1>9. QED
  BY <1>6, <1>7, <1>8

-----------------------------------------------------------------------------
(* What a step leaves of the others.                                       *)

RowHolds(v) == RowInv(v, records, withdrawn, deletion.state, accepting, recovering, cursor)

LEMMA InvFacts ==
  ASSUME Inv
  PROVE  /\ rows \in [Rows -> RowType] /\ \A r \in Rows : RowHolds(rows[r]) /\ RowOK(rows[r]) /\ rows[r] \in RowType
         /\ ProofAttempts \in Nat \ {0} /\ Resource = ProofAttempts
         /\ records \in Seq(Statuses \cup {"gone"}) /\ DOMAIN records = 1 .. Len(records) /\ Len(records) \in Nat
         /\ Len(records) <= MaxRecords /\ MaxRecords \in Nat
         /\ 0 \notin DOMAIN records /\ DOMAIN records \subseteq Nat
         /\ withdrawn \subseteq DOMAIN records /\ 0 \notin withdrawn
         /\ accepting \in BOOLEAN /\ recovering \in BOOLEAN /\ (recovering => accepting)
         /\ cursor \in 0 .. MaxRecords /\ cursor \in Nat /\ (recovering => \A c \in withdrawn : c <= cursor)
         /\ txQueue \in Seq(FrameType) /\ jobs \in Seq(Rows \cup {NoRow}) /\ NoRow \notin Rows /\ IsFiniteSet(Rows)
<1>1. rows \in [Rows -> RowType] /\ \A r \in Rows : RowHolds(rows[r]) /\ RowOK(rows[r]) /\ rows[r] \in RowType
  BY DEF Inv, RowsInv, RowHolds, RowInv
<1>2. ProofAttempts \in Nat \ {0} /\ Resource = ProofAttempts
  BY LoadFacts DEF Inv
<1>3. /\ records \in Seq(Statuses \cup {"gone"}) /\ DOMAIN records = 1 .. Len(records) /\ Len(records) \in Nat
      /\ Len(records) <= MaxRecords /\ MaxRecords \in Nat
  BY EngineAssumption DEF Inv, StoreType
<1>4. 0 \notin DOMAIN records /\ DOMAIN records \subseteq Nat /\ withdrawn \subseteq DOMAIN records
  BY <1>3 DEF Inv, StoreType
<1>5. /\ accepting \in BOOLEAN /\ recovering \in BOOLEAN /\ (recovering => accepting)
      /\ cursor \in 0 .. MaxRecords /\ cursor \in Nat /\ (recovering => \A c \in withdrawn : c <= cursor)
  BY EngineAssumption DEF Inv, EngineType
<1>6. txQueue \in Seq(FrameType) /\ jobs \in Seq(Rows \cup {NoRow}) /\ NoRow \notin Rows /\ IsFiniteSet(Rows)
  BY EngineAssumption DEF Inv, FramesInv, JobsInv
<1>7. QED
  BY <1>1, <1>2, <1>3, <1>4, <1>5, <1>6

\* Only the number of attempts, which does not change, is not among the
\* arguments of the invariant's parts.
LEMMA Assemble ==
  ASSUME load' = load, StoreType', EngineType', rows' \in [Rows -> RowType],
         RowsInv(rows', records', withdrawn', deletion'.state, accepting', recovering', cursor'),
         Apart(rows'), Shared(rows', body', out'), JobsInv(jobs', rows', deletion'.state),
         FramesInv(txQueue', rows'), Room(rows', records')
  PROVE  Inv'
<1>1. RowsInv(rows, records, withdrawn, deletion.state, accepting, recovering, cursor)'
  <2>1. ASSUME NEW r \in Rows
        PROVE  RowInv(rows[r], records, withdrawn, deletion.state, accepting, recovering, cursor)'
    <3>1. RowInv(rows'[r], records', withdrawn', deletion'.state, accepting', recovering', cursor')
      BY DEF RowsInv
    <3>2. PhaseOK(rows'[r])
      BY <3>1 DEF RowInv, RowOK
    <3>3. PhaseOK(rows[r])'
      BY <3>2 DEF PhaseOK, ProofAttempts, Resource
    <3>4. QED
      BY <3>1, <3>3 DEF RowInv, RowOK
  <2>2. QED
    BY <2>1 DEF RowsInv
<1>2. (deletion.state)' = deletion'.state
  OBVIOUS
<1>3. Apart(rows)' /\ Shared(rows, body, out)' /\ (rows \in [Rows -> RowType])'
  BY DEF Apart, Claim, Shared, RowType
<1>4. JobsInv(jobs, rows, deletion.state)'
  BY DEF JobsInv, InQueue
<1>5. FramesInv(txQueue, rows)'
  BY DEF FramesInv, CountOf
<1>6. Room(rows, records)'
  BY DEF Room, Saves, InQueue
<1>7. QED
  BY <1>1, <1>3, <1>4, <1>5, <1>6 DEF Inv

LEMMA ApartStep ==
  ASSUME rows \in [Rows -> RowType], Apart(rows), NEW r \in Rows, NEW w, rows' = [rows EXCEPT ![r] = w],
         \/ Claim(w) \in {0, Claim(rows[r])}
         \/ \A q \in Rows \ {r} : Claim(rows[q]) # Claim(w),
         w.phase = "Query" => rows[r].phase = "Query" \/ \A q \in Rows : rows[q].phase # "Query"
  PROVE  Apart(rows')
<1>1. SUFFICES ASSUME NEW p \in Rows, NEW q \in Rows, p # q
               PROVE  /\ Claim(rows'[p]) # 0 => Claim(rows'[p]) # Claim(rows'[q])
                      /\ rows'[p].phase = "Query" => rows'[q].phase # "Query"
  BY DEF Apart
<1>2. rows'[r] = w /\ \A x \in Rows \ {r} : rows'[x] = rows[x]
  OBVIOUS
<1>3. CASE p = r
  BY <1>1, <1>2, <1>3 DEF Apart
<1>4. CASE q = r
  BY <1>1, <1>2, <1>4 DEF Apart
<1>5. CASE p # r /\ q # r
  BY <1>1, <1>2, <1>5 DEF Apart
<1>6. QED
  BY <1>3, <1>4, <1>5

\* Tickets stay where they are.
LEMMA JobsSame ==
  ASSUME NEW state, NEW state2, NEW rs, NEW rs2, JobsInv(jobs, rs, state),
         \A r \in Rows : InQueue(rs2[r].ticket) <=> InQueue(rs[r].ticket), state2 = "queued" <=> state = "queued"
  PROVE  JobsInv(jobs, rs2, state2)
BY DEF JobsInv

LEMMA JobsAdded ==
  ASSUME Inv, NEW x \in Rows \cup {NoRow}, jobs' = Append(jobs, x), x \notin ToSet(jobs),
         \A r \in Rows : InQueue(rows'[r].ticket) <=> InQueue(rows[r].ticket) \/ r = x,
         deletion'.state = "queued" <=> deletion.state = "queued" \/ x = NoRow
  PROVE  JobsInv(jobs', rows', deletion'.state)
<1>1. /\ jobs' \in Seq(Rows \cup {NoRow}) /\ ToSet(jobs') = ToSet(jobs) \cup {x}
      /\ DOMAIN jobs' = DOMAIN jobs \cup {Len(jobs) + 1} /\ Len(jobs) + 1 \notin DOMAIN jobs
      /\ \A k \in DOMAIN jobs : jobs'[k] = jobs[k]
      /\ jobs'[Len(jobs) + 1] = x
  <2> DEFINE T == Rows \cup {NoRow}
  <2>1. jobs \in Seq(T) /\ x \in T
    BY InvFacts
  <2>2. HIDE DEF T
  <2>3. /\ jobs' \in Seq(T) /\ ToSet(jobs') = ToSet(jobs) \cup {x}
        /\ DOMAIN jobs' = DOMAIN jobs \cup {Len(jobs) + 1} /\ Len(jobs) + 1 \notin DOMAIN jobs
        /\ \A k \in DOMAIN jobs : jobs'[k] = jobs[k]
        /\ jobs'[Len(jobs) + 1] = x
    BY <2>1, AppendFacts
  <2>4. USE DEF T
  <2>5. QED
    BY <2>3
<1>2. JobsInv(jobs, rows, deletion.state)
  BY DEF Inv
<1>3. \A a, b \in DOMAIN jobs' : jobs'[a] = jobs'[b] => a = b
  <2>1. \A a \in DOMAIN jobs : jobs'[a] # x
    BY <1>1 DEF ToSet
  <2>2. QED
    BY <1>1, <1>2, <2>1 DEF JobsInv
<1>4. (\A r \in Rows : r \in ToSet(jobs') <=> InQueue(rows'[r].ticket)) /\ (NoRow \in ToSet(jobs') <=> deletion'.state = "queued")
  BY <1>1, <1>2 DEF JobsInv
<1>5. QED
  BY <1>1, <1>3, <1>4 DEF JobsInv

LEMMA JobsDone ==
  ASSUME Inv, jobs # <<>>, jobs' = Tail(jobs),
         \A r \in Rows : InQueue(rows'[r].ticket) <=> InQueue(rows[r].ticket) /\ r # Head(jobs),
         deletion'.state = "queued" <=> deletion.state = "queued" /\ Head(jobs) # NoRow
  PROVE  JobsInv(jobs', rows', deletion'.state)
<1> DEFINE x == Head(jobs)
<1>1. /\ jobs' \in Seq(Rows \cup {NoRow}) /\ x \in ToSet(jobs) /\ x = jobs[1] /\ 1 \in DOMAIN jobs
      /\ \A k \in DOMAIN jobs' : k + 1 \in DOMAIN jobs /\ jobs'[k] = jobs[k + 1]
      /\ \A k \in DOMAIN jobs \ {1} : k - 1 \in DOMAIN jobs' /\ jobs'[k - 1] = jobs[k]
  <2> DEFINE T == Rows \cup {NoRow}
  <2>1. jobs \in Seq(T)
    BY InvFacts
  <2>2. HIDE DEF T
  <2>3. /\ jobs' \in Seq(T) /\ x \in ToSet(jobs) /\ x = jobs[1] /\ 1 \in DOMAIN jobs
        /\ \A k \in DOMAIN jobs' : k + 1 \in DOMAIN jobs /\ jobs'[k] = jobs[k + 1]
        /\ \A k \in DOMAIN jobs \ {1} : k - 1 \in DOMAIN jobs' /\ jobs'[k - 1] = jobs[k]
    BY <2>1, TailFacts
  <2>4. USE DEF T
  <2>5. QED
    BY <2>3
<1>2. JobsInv(jobs, rows, deletion.state)
  BY DEF Inv
<1>3. DOMAIN jobs' \subseteq Nat \ {0}
  BY <1>1
<1>4. \A a, b \in DOMAIN jobs' : jobs'[a] = jobs'[b] => a = b
  <2>1. SUFFICES ASSUME NEW a \in DOMAIN jobs', NEW b \in DOMAIN jobs', jobs'[a] = jobs'[b] PROVE a = b
    OBVIOUS
  <2>2. a + 1 = b + 1 /\ a \in Nat /\ b \in Nat
    BY <1>1, <1>2, <1>3, <2>1 DEF JobsInv
  <2>3. QED
    BY <2>2
<1>5. ToSet(jobs') = ToSet(jobs) \ {x}
  <2>1. ASSUME NEW y \in ToSet(jobs') PROVE y \in ToSet(jobs) /\ y # x
    <3>1. PICK k \in DOMAIN jobs' : jobs'[k] = y
      BY <2>1 DEF ToSet
    <3>2. k + 1 \in DOMAIN jobs /\ jobs[k + 1] = y /\ k \in Nat \ {0}
      BY <1>1, <1>3, <3>1
    <3>3. k + 1 # 1
      BY <3>2
    <3>4. y # x
      BY <1>1, <1>2, <3>2, <3>3 DEF JobsInv
    <3>5. QED
      BY <3>2, <3>4 DEF ToSet
  <2>2. ASSUME NEW y \in ToSet(jobs), y # x PROVE y \in ToSet(jobs')
    <3>1. PICK k \in DOMAIN jobs : jobs[k] = y
      BY <2>2 DEF ToSet
    <3>2. k # 1
      BY <1>1, <2>2, <3>1
    <3>3. k - 1 \in DOMAIN jobs' /\ jobs'[k - 1] = y
      BY <1>1, <3>1, <3>2
    <3>4. QED
      BY <3>3 DEF ToSet
  <2>3. QED
    BY <2>1, <2>2
<1>6. (\A r \in Rows : r \in ToSet(jobs') <=> InQueue(rows'[r].ticket)) /\ (NoRow \in ToSet(jobs') <=> deletion'.state = "queued")
  BY <1>2, <1>5 DEF JobsInv
<1>7. QED
  BY <1>1, <1>4, <1>6 DEF JobsInv

LEMMA RoomLess ==
  ASSUME Inv, Len(records') = Len(records), Saves(rows') \subseteq Saves(rows)
  PROVE  Room(rows', records')
<1>1. IsFiniteSet(Saves(rows))
  BY InvFacts, FS_Subset DEF Saves
<1>2. IsFiniteSet(Saves(rows')) /\ Cardinality(Saves(rows')) <= Cardinality(Saves(rows))
  BY <1>1, FS_Subset
<1>3. /\ Cardinality(Saves(rows)) \in Nat /\ Cardinality(Saves(rows')) \in Nat /\ Len(records) \in Nat
      /\ Len(records) + Cardinality(Saves(rows)) <= MaxRecords /\ MaxRecords \in Nat
  BY <1>1, <1>2, FS_CardinalityType, InvFacts DEF Inv, Room
<1>4. QED
  BY <1>2, <1>3 DEF Room

LEMMA NoFrames ==
  ASSUME Inv, NEW r \in Rows, rows[r].rec = 0 \/ rows[r].queued = 0
  PROVE  /\ \A f \in Frames : f.row # r
         /\ rows[r].queued = 0
<1>1. CountOf(txQueue, r) = 0 <=> \A f \in Frames : f.row # r
  BY InvFacts, CountIsNat DEF Frames
<1>2. rows[r].queued = CountOf(txQueue, r) /\ \A f \in Frames : f.rec = rows[f.row].rec
  BY DEF Inv, FramesInv, Frames
<1>3. \A f \in Frames : f.rec # 0
  <2>1. \A f \in Frames : f \in FrameType
    BY InvFacts DEF Frames, ToSet
  <2>2. QED
    BY <2>1, InvFacts DEF FrameType
<1>4. QED
  BY <1>1, <1>2, <1>3

LEMMA FramesSame ==
  ASSUME Inv, UNCHANGED txQueue,
         \A q \in Rows : /\ rows'[q].queued = rows[q].queued
                         /\ rows'[q].rec = rows[q].rec \/ rows[q].rec = 0 \/ rows[q].queued = 0
  PROVE  FramesInv(txQueue', rows')
<1>1. FramesInv(txQueue, rows) /\ \A f \in ToSet(txQueue) : f.row \in Rows
  <2>1. \A f \in ToSet(txQueue) : f \in FrameType
    BY InvFacts DEF ToSet
  <2>2. FramesInv(txQueue, rows)
    BY DEF Inv
  <2>3. QED
    BY <2>1, <2>2 DEF FrameType
<1>2. \A f \in ToSet(txQueue) : f.rec = rows'[f.row].rec
  BY <1>1, NoFrames DEF FramesInv, Frames
<1>3. QED
  BY <1>1, <1>2 DEF FramesInv

\* A step that leaves the tickets, the records and the withdrawals alone.
LEMMA QuietRows ==
  ASSUME Inv, UNCHANGED <<load, records, jobs, accepting, recovering, cursor, withdrawn>>,
         rows' \in [Rows -> RowType], \A q \in Rows : RowOK(rows'[q]) /\ Follows(rows[q], rows'[q]),
         \/ UNCHANGED deletion
         \/ deletion.state # "queued" /\ deletion'.state \in {"none", "ok", "failed"},
         Shared(rows', body', out'), FramesInv(txQueue', rows')
  PROVE  Inv'
<1>1. /\ \A q \in Rows : RowHolds(rows[q])
      /\ deletion'.state = deletion.state \/ deletion'.state # "queued"
      /\ deletion'.state = "queued" <=> deletion.state = "queued"
      /\ deletion'.state \in {"none", "queued", "ok", "failed"}
  BY InvFacts DEF Inv, StoreType
<1>2. RowsInv(rows', records', withdrawn', deletion'.state, accepting', recovering', cursor')
  BY <1>1, FollowsKeeps DEF RowsInv, RowHolds
<1>3. StoreType' /\ EngineType'
  BY <1>1 DEF Inv, StoreType, EngineType
<1>4. \A q \in Rows : Claim(rows'[q]) = Claim(rows[q]) /\ rows'[q].ticket = rows[q].ticket
                      /\ (rows'[q].phase = "Query" => rows[q].phase = "Query")
  BY DEF Follows, Claim
<1>5. Apart(rows')
  BY <1>4 DEF Inv, Apart
<1>6. JobsInv(jobs', rows', deletion'.state)
  BY <1>1, <1>4, JobsSame DEF Inv
<1>7. Room(rows', records')
  BY <1>4, RoomLess DEF Saves
<1>8. QED
  BY <1>2, <1>3, <1>5, <1>6, <1>7, Assemble

\* Of these, one that changes one row and no frame.
LEMMA QuietRow ==
  ASSUME Inv, UNCHANGED <<load, store, accepting, recovering, cursor, withdrawn, txQueue>>,
         NEW r \in Rows, NEW w, rows' = [rows EXCEPT ![r] = w],
         RowOK(w), Follows(rows[r], w), w.queued = rows[r].queued,
         Shared(rows', body', out')
  PROVE  Inv'
<1>1. /\ rows \in [Rows -> RowType] /\ w \in RowType /\ \A q \in Rows : RowOK(rows[q])
  BY InvFacts DEF RowOK
<1>2. rows' \in [Rows -> RowType] /\ rows'[r] = w /\ \A q \in Rows \ {r} : rows'[q] = rows[q]
  BY <1>1
<1>3. \A q \in Rows : RowOK(rows'[q]) /\ Follows(rows[q], rows'[q])
  BY <1>1, <1>2 DEF Follows
<1>4. FramesInv(txQueue', rows')
  BY <1>2, FramesSame DEF Follows
<1>5. UNCHANGED <<records, jobs, deletion>>
  BY DEF store
<1>6. QED
  BY <1>2, <1>3, <1>4, <1>5, QuietRows

\* The workspace and the transfer stay with their rows.
LEMMA SharedSame ==
  ASSUME Inv, UNCHANGED <<body, out>>,
         \A q \in Rows : /\ rows'[q].phase = "Reading" <=> rows[q].phase = "Reading"
                         /\ rows'[q].phase = "Resource" <=> rows[q].phase = "Resource"
  PROVE  Shared(rows', body', out')
BY DEF Inv, Shared

LEMMA AcknowledgeKeeps ==
  ASSUME Inv, NEW r \in Rows, Acknowledge(r)
  PROVE  Inv'
<1> DEFINE w == [rows[r] EXCEPT !.flags = @ \cup {"Acknowledged"}, !.initial = "none"]
<1>1. rows' = [rows EXCEPT ![r] = w]
  <2>1. rows \in [Rows -> RowType] /\ rows[r] \in RowType
    BY InvFacts
  <2>2. QED
    BY <2>1 DEF Acknowledge, RowType
<1>2. RowOK(rows[r]) /\ rows[r].phase # "Free"
  BY InvFacts DEF Acknowledge, RowOK, PhaseOK
<1>3. w = [rows[r] EXCEPT !.flags = @ \cup {"Acknowledged"}, !.initial = "none"]
  OBVIOUS
<1> HIDE DEF w
<1>4. RowOK(w) /\ Follows(rows[r], w) /\ w.phase = rows[r].phase /\ w.queued = rows[r].queued
  BY <1>2, <1>3, AckRow
<1>5. rows \in [Rows -> RowType]
  BY InvFacts
<1>6. UNCHANGED <<load, body, out, accepting, recovering, cursor, store, withdrawn, txQueue>>
  BY DEF Acknowledge, radioVars
<1>7. Shared(rows', body', out')
  BY <1>1, <1>4, <1>5, <1>6, SharedSame
<1>8. QED
  BY <1>1, <1>4, <1>6, <1>7, QuietRow

\* A proof ends the row's use of the workspace and of the transfer.
LEMMA DeliveredKeeps ==
  ASSUME Inv, NEW r \in Rows, rows[r].aired, "Deleted" \notin rows[r].flags, rows[r].desired # "DELIVERED",
         NEW v \in RowType, Beside(rows[r], v), v.queued = rows[r].queued, Delivered(r, v),
         UNCHANGED <<load, store, accepting, recovering, cursor, withdrawn, txQueue>>
  PROVE  Inv'
<1> DEFINE w == [WithStatus(v, "DELIVERED") EXCEPT !.proved = TRUE]
<1>1. rows' = [rows EXCEPT ![r] = w] /\ body' = Released(body, r) /\ out' = Released(out, r)
  BY DEF Delivered
<1>2. w = [WithStatus(v, "DELIVERED") EXCEPT !.proved = TRUE]
  OBVIOUS
<1> HIDE DEF w
<1>3. RowOK(w) /\ Follows(rows[r], w) /\ w.phase = "Settled" /\ w.queued = rows[r].queued
  BY <1>2, InvFacts, DeliverRow
<1>4. Shared(rows', body', out')
  <2>1. rows'[r] = w /\ \A q \in Rows \ {r} : rows'[q] = rows[q]
    BY <1>1, InvFacts
  <2>2. QED
    BY <1>1, <1>3, <2>1, InvFacts DEF Inv, Shared, Released
<1>5. QED
  BY <1>1, <1>3, <1>4, QuietRow

LEMMA OnProofKeeps ==
  ASSUME Inv, NEW r \in Rows, OnProof(r)
  PROVE  Inv'
<1>1. rows[r] \in RowType /\ Beside(rows[r], rows[r])
  BY InvFacts DEF Beside
<1>2. /\ rows[r].aired /\ "Deleted" \notin rows[r].flags /\ rows[r].desired # "DELIVERED" /\ Delivered(r, rows[r])
      /\ UNCHANGED <<load, store, accepting, recovering, cursor, withdrawn, txQueue>>
  BY DEF OnProof, radioVars
<1>3. QED
  BY <1>1, <1>2, DeliveredKeeps

LEMMA ResourceOutcomeKeeps ==
  ASSUME Inv, NEW r \in Rows, ResourceOutcome(r)
  PROVE  Inv'
<1> DEFINE v == [rows[r] EXCEPT !.mask = @ \ {Resource}, !.phase = "Settled"]
<1>1. /\ out = r /\ rows[r].phase = "Resource"
      /\ \/ rows[r].aired /\ Delivered(r, v)
         \/ rows' = [rows EXCEPT ![r] = WithStatus(v, "FAILED")] /\ out' = NoRow /\ UNCHANGED body
      /\ UNCHANGED <<load, store, accepting, recovering, cursor, withdrawn, txQueue>>
  BY DEF ResourceOutcome, radioVars
<1>2. /\ rows[r] \in RowType /\ RowOK(rows[r]) /\ rows \in [Rows -> RowType]
  BY InvFacts
<1>3. /\ v \in RowType /\ Beside(rows[r], v) /\ v.queued = rows[r].queued /\ v.mask \subseteq rows[r].mask
      /\ v.phase = "Settled"
  BY <1>2 DEF RowType, Beside, Phases
<1> HIDE DEF v
<1>4. "Deleted" \notin rows[r].flags /\ rows[r].desired # "DELIVERED" /\ rows[r].ticket.op # "ReadRecord"
  BY <1>1, <1>2 DEF RowOK, PhaseOK, TicketOK, Suppressed
<1>5. CASE rows[r].aired /\ Delivered(r, v)
  BY <1>1, <1>3, <1>4, <1>5, DeliveredKeeps
<1>6. CASE rows' = [rows EXCEPT ![r] = WithStatus(v, "FAILED")] /\ out' = NoRow /\ UNCHANGED body
  <2> DEFINE w == WithStatus(v, "FAILED")
  <2>1. RowOK(w) /\ Follows(rows[r], w) /\ w.phase = "Settled" /\ w.queued = rows[r].queued
    BY <1>1, <1>2, <1>3, <1>4, StatusRow
  <2>2. Shared(rows', body', out')
    <3>1. rows'[r] = w /\ \A q \in Rows \ {r} : rows'[q] = rows[q]
      BY <1>2, <1>6
    <3>2. QED
      BY <1>1, <1>6, <2>1, <3>1, InvFacts DEF Inv, Shared
  <2>3. QED
    BY <1>1, <1>6, <2>1, <2>2, QuietRow
<1>7. QED
  BY <1>1, <1>5, <1>6

-----------------------------------------------------------------------------
(* The frames and the radio.                                               *)

LEMMA FollowsTwice ==
  ASSUME NEW u, NEW v, NEW w, Follows(u, v), Follows(v, w)
  PROVE  Follows(u, w)
BY DEF Follows

LEMMA AirTwice ==
  ASSUME NEW v \in RowType, NEW w \in RowType, Alike(v, w)
  PROVE  Alike(OnAir(v), OnAir(w))
<1> DEFINE a == OnAir(v)
           b == OnAir(w)
<1>1. /\ a.phase = v.phase /\ a.rec = v.rec /\ a.flags = v.flags /\ a.initial = v.initial /\ a.ticket = v.ticket
      /\ a.durable = v.durable /\ a.attempts = v.attempts /\ a.mask = v.mask /\ a.aired = TRUE /\ a.proved = v.proved
      /\ a.desired = IF "Deleted" \in v.flags \/ v.desired = "DELIVERED" THEN v.desired ELSE "SENT"
  BY AirFacts
<1>2. /\ b.phase = w.phase /\ b.rec = w.rec /\ b.flags = w.flags /\ b.initial = w.initial /\ b.ticket = w.ticket
      /\ b.durable = w.durable /\ b.attempts = w.attempts /\ b.mask = w.mask /\ b.aired = TRUE /\ b.proved = w.proved
      /\ b.desired = IF "Deleted" \in w.flags \/ w.desired = "DELIVERED" THEN w.desired ELSE "SENT"
  BY AirFacts
<1> HIDE DEF a, b
<1>3. Alike(a, b)
  BY <1>1, <1>2 DEF Alike
<1>4. QED
  BY <1>3 DEF a, b

LEMMA QueuedType ==
  ASSUME NEW v \in RowType, NEW n \in Nat
  PROVE  LET w == [v EXCEPT !.queued = n] IN w \in RowType /\ Alike(v, w) /\ w.queued = n
BY DEF RowType, Alike

\* What the hook is told brings the count of each row to what is in the queue.
LEMMA LeftFacts ==
  ASSUME Inv, txQueue' \in Seq(FrameType), NEW q \in Rows, NEW new \in {0, 1}
  PROVE  /\ rows[q].queued + new - Left(q, new) = CountOf(txQueue', q)
         /\ rows[q].queued - Left(q, 0) = CountOf(txQueue', q)
         /\ CountOf(txQueue', q) \in Nat
<1>1. CountOf(txQueue, q) \in Nat /\ CountOf(txQueue', q) \in Nat
  BY InvFacts, CountIsNat
<1>2. rows[q].queued = CountOf(txQueue, q)
  BY DEF Inv, FramesInv
<1>3. Left(q, new) = CountOf(txQueue, q) + new - CountOf(txQueue', q) /\ Left(q, 0) = CountOf(txQueue, q) + 0 - CountOf(txQueue', q)
  BY DEF Left
<1>4. QED
  BY <1>1, <1>2, <1>3

LEMMA HookedFacts ==
  ASSUME Inv, txQueue' \in Seq(FrameType), NEW rs \in [Rows -> RowType],
         \A q \in Rows : rs[q].queued = rows[q].queued
  PROVE  /\ Hooked(rs) \in [Rows -> RowType]
         /\ \A q \in Rows : Alike(rs[q], Hooked(rs)[q]) /\ Hooked(rs)[q].queued = CountOf(txQueue', q)
<1>1. ASSUME NEW q \in Rows
      PROVE  /\ Hooked(rs)[q] \in RowType /\ Alike(rs[q], Hooked(rs)[q])
             /\ Hooked(rs)[q].queued = CountOf(txQueue', q)
  <2>1. Hooked(rs)[q] = [rs[q] EXCEPT !.queued = rs[q].queued - Left(q, 0)]
    BY DEF Hooked
  <2>2. Hooked(rs)[q] = [rs[q] EXCEPT !.queued = CountOf(txQueue', q)] /\ CountOf(txQueue', q) \in Nat
    BY <2>1, LeftFacts
  <2>3. QED
    BY <2>2, QueuedType
<1>2. Hooked(rs) = [q \in Rows |-> Hooked(rs)[q]]
  BY DEF Hooked
<1>3. QED
  BY <1>1, <1>2

LEMMA OfferedFacts ==
  ASSUME Inv, txQueue' \in Seq(FrameType), NEW rs \in [Rows -> RowType],
         \A q \in Rows : rs[q].queued = rows[q].queued, NEW r \in Rows, NEW offer,
         NEW rs2, rs2 = Offered(rs, r, offer)
  PROVE  /\ rs2 \in [Rows -> RowType]
         /\ \A q \in Rows : rs2[q].queued = CountOf(txQueue', q)
         /\ \A q \in Rows : q # r \/ offer # "Started" => Alike(rs[q], rs2[q])
         /\ offer = "Started" => Alike(OnAir(rs[r]), rs2[r])
<1>1. ASSUME NEW q \in Rows
      PROVE  /\ rs2[q] \in RowType /\ rs2[q].queued = CountOf(txQueue', q)
             /\ q # r \/ offer # "Started" => Alike(rs[q], rs2[q])
             /\ q = r /\ offer = "Started" => Alike(OnAir(rs[q]), rs2[q])
  <2> DEFINE new == IF q = r /\ offer = "Queued" THEN 1 ELSE 0
             w == [rs[q] EXCEPT !.queued = rs[q].queued + new - Left(q, new)]
             u == [rs[q] EXCEPT !.queued = CountOf(txQueue', q)]
  <2>1. rs2[q] = IF q = r /\ offer = "Started" THEN OnAir(w) ELSE w
    BY DEF Offered
  <2>2. w = u /\ CountOf(txQueue', q) \in Nat
    BY LeftFacts
  <2>3. u \in RowType /\ Alike(rs[q], u) /\ u.queued = CountOf(txQueue', q)
    BY <2>2, QueuedType
  <2> HIDE DEF w, u
  <2>4. OnAir(u) \in RowType /\ OnAir(u).queued = u.queued /\ Alike(OnAir(rs[q]), OnAir(u))
    BY <2>3, AirFacts, AirTwice
  <2>5. QED
    BY <2>1, <2>2, <2>3, <2>4
<1>2. rs2 = [q \in Rows |-> rs2[q]]
  BY DEF Offered
<1>3. QED
  BY <1>1, <1>2

\* The frames that stay are of the same messages.
LEMMA FramesLess ==
  ASSUME Inv, txQueue' \in Seq(FrameType), NEW r \in Rows, NEW variant,
         Frames' \subseteq Frames \cup {FrameOf(r, variant)},
         NEW rs, \A q \in Rows : rs[q].rec = rows[q].rec /\ rs[q].queued = CountOf(txQueue', q)
  PROVE  FramesInv(txQueue', rs)
<1>1. \A f \in ToSet(txQueue') : f \in Frames \/ f = FrameOf(r, variant)
  BY DEF Frames
<1>2. \A f \in ToSet(txQueue') : f.row \in Rows
  <2>1. \A f \in ToSet(txQueue') : f \in FrameType
    BY DEF ToSet
  <2>2. QED
    BY <2>1 DEF FrameType
<1>3. \A f \in Frames : f.rec = rows[f.row].rec
  BY DEF Inv, FramesInv, Frames
<1>4. \A f \in ToSet(txQueue') : f.rec = rs[f.row].rec
  BY <1>1, <1>2, <1>3 DEF FrameOf
<1>5. QED
  BY <1>4 DEF FramesInv

\* Frames leave the queue without an offer.
LEMMA HookedKeeps ==
  ASSUME Inv, txQueue' \in Seq(FrameType), Frames' \subseteq Frames,
         NEW r \in Rows, NEW w, RowOK(w), Follows(rows[r], w), w.phase = rows[r].phase, w.queued = rows[r].queued,
         rows' = Hooked([rows EXCEPT ![r] = w]),
         UNCHANGED <<load, body, out, accepting, recovering, cursor, store, withdrawn>>
  PROVE  Inv'
<1> DEFINE rs == [rows EXCEPT ![r] = w]
<1>1. /\ rows \in [Rows -> RowType] /\ w \in RowType /\ \A q \in Rows : RowOK(rows[q])
  BY InvFacts DEF RowOK
<1>2. /\ rs \in [Rows -> RowType]
      /\ \A q \in Rows : RowOK(rs[q]) /\ Follows(rows[q], rs[q]) /\ rs[q].phase = rows[q].phase
                         /\ rs[q].queued = rows[q].queued
  BY <1>1 DEF Follows
<1> HIDE DEF rs
<1>3. /\ rows' \in [Rows -> RowType]
      /\ \A q \in Rows : Alike(rs[q], rows'[q]) /\ rows'[q].queued = CountOf(txQueue', q)
  <2>1. rows' = Hooked(rs)
    BY DEF rs
  <2>2. QED
    BY <1>2, <2>1, HookedFacts
<1>4. \A q \in Rows : RowOK(rows'[q]) /\ Follows(rows[q], rows'[q]) /\ rows'[q].phase = rows[q].phase
                      /\ rows'[q].rec = rows[q].rec
  <2>1. ASSUME NEW q \in Rows
        PROVE  RowOK(rows'[q]) /\ Follows(rs[q], rows'[q]) /\ rows'[q].phase = rs[q].phase
    BY <1>2, <1>3, AlikeKeeps DEF Alike
  <2>2. ASSUME NEW q \in Rows PROVE Follows(rows[q], rows'[q])
    BY <1>2, <2>1, FollowsTwice
  <2>3. QED
    BY <1>2, <2>1, <2>2 DEF Follows
<1>5. FramesInv(txQueue', rows')
  <2>1. Frames' \subseteq Frames \cup {FrameOf(r, 0)}
    OBVIOUS
  <2>2. QED
    BY <1>3, <1>4, <2>1, FramesLess
<1>6. Shared(rows', body', out')
  BY <1>4, SharedSame
<1>7. UNCHANGED <<records, jobs, deletion>>
  BY DEF store
<1>8. QED
  BY <1>3, <1>4, <1>5, <1>6, <1>7, QuietRows

LEMMA SameRow ==
  ASSUME Inv, NEW r \in Rows
  PROVE  /\ rows = [rows EXCEPT ![r] = rows[r]] /\ RowOK(rows[r]) /\ Follows(rows[r], rows[r])
BY InvFacts DEF Follows

LEMMA FrameRow ==
  ASSUME Inv, NEW f \in Frames
  PROVE  f \in FrameType /\ f.row \in Rows /\ f.rec = rows[f.row].rec /\ f.rec # 0
<1>1. f \in FrameType
  BY InvFacts DEF Frames, ToSet
<1>2. f.rec = rows[f.row].rec
  BY DEF Inv, FramesInv, Frames
<1>3. QED
  BY <1>1, <1>2, InvFacts DEF FrameType

LEMMA TransmitKeeps ==
  ASSUME Inv, Transmit
  PROVE  Inv'
<1>1. PICK live \in Aging, f \in Frames :
        /\ DrainTx(live, f) /\ rows' = Hooked([rows EXCEPT ![f.row] = OnAir(@)])
        /\ UNCHANGED <<load, body, out, accepting, recovering, cursor, store, withdrawn>>
  BY DEF Transmit
<1> DEFINE r == f.row
           w == OnAir(rows[r])
<1>2. r \in Rows /\ rows[r].rec # 0
  BY FrameRow
<1>3. RowOK(w) /\ Follows(rows[r], w) /\ w.phase = rows[r].phase /\ w.queued = rows[r].queued
  BY <1>2, InvFacts, AirRow, AirFacts
<1>4. rows' = Hooked([rows EXCEPT ![r] = w])
  BY <1>1
<1>5. txQueue' \in Seq(FrameType) /\ Frames' \subseteq Frames
  <2>1. Kept(live) \in Seq(FrameType) /\ ToSet(Kept(live)) \subseteq Frames
    BY InvFacts, KeptFacts
  <2>2. Kept(live) # <<>> /\ txQueue' = Tail(Kept(live))
    BY <1>1 DEF DrainTx
  <2>3. QED
    BY <2>1, <2>2, TailFacts DEF Frames
<1> HIDE DEF r, w
<1>6. QED
  BY <1>1, <1>2, <1>3, <1>4, <1>5, HookedKeeps

LEMMA DiscardKeeps ==
  ASSUME Inv, Discard \/ RadioRestart, Rows # {}
  PROVE  Inv'
<1>1. txQueue' \in Seq(FrameType) /\ Frames' \subseteq Frames
  <2>1. CASE Discard
    <3>1. PICK live \in Aging : txQueue' = Kept(live)
      BY <2>1 DEF Discard, DiscardExpired
    <3>2. QED
      BY <3>1, InvFacts, KeptFacts DEF Frames
  <2>2. CASE RadioRestart
    BY <2>2 DEF RadioRestart, Frames, ToSet
  <2>3. QED
    BY <2>1, <2>2
<1>2. PICK r \in Rows : TRUE
  OBVIOUS
<1>3. /\ rows' = Hooked([rows EXCEPT ![r] = rows[r]])
      /\ UNCHANGED <<load, body, out, accepting, recovering, cursor, store, withdrawn>>
  BY SameRow DEF Discard, RadioRestart
<1>4. QED
  BY <1>1, <1>3, SameRow, HookedKeeps

\* Row r, which has become u, offers a frame.
Offering(r, u, offer) == Offered([rows EXCEPT ![r] = u], r, offer)

LEMMA OfferedKeeps ==
  ASSUME Inv, NEW r \in Rows, NEW u, RowOK(u), Follows(rows[r], u), u.queued = rows[r].queued, u.rec # 0,
         NEW variant \in Nat, NEW live, NEW offer, Offer(FrameOf(r, variant), live, offer),
         NEW rs2, rs2 = Offering(r, u, offer)
  PROVE  /\ rs2 \in [Rows -> RowType] /\ FramesInv(txQueue', rs2)
         /\ \A q \in Rows \ {r} : RowOK(rs2[q]) /\ Follows(rows[q], rs2[q]) /\ rs2[q].phase = rows[q].phase
         /\ RowOK(rs2[r]) /\ Follows(rows[r], rs2[r]) /\ rs2[r].phase = u.phase
         /\ offer # "Started" => Alike(u, rs2[r])
<1> DEFINE rs == [rows EXCEPT ![r] = u]
<1>1. /\ rows \in [Rows -> RowType] /\ u \in RowType /\ \A q \in Rows : RowOK(rows[q])
  BY InvFacts DEF RowOK
<1>2. /\ rs \in [Rows -> RowType] /\ rs[r] = u /\ \A q \in Rows \ {r} : rs[q] = rows[q]
      /\ \A q \in Rows : rs[q].queued = rows[q].queued /\ RowOK(rs[q]) /\ Follows(rows[q], rs[q])
  BY <1>1 DEF Follows
<1>3. rs2 = Offered(rs, r, offer)
  BY DEF Offering
<1> HIDE DEF rs
<1>4. FrameOf(r, variant) \in FrameType
  <2>1. u.rec = rows[r].rec /\ rows[r].rec \in 1 .. MaxRecords
    BY <1>1, InvFacts DEF Follows, RowType
  <2>2. QED
    BY <2>1 DEF FrameOf, FrameType
<1>5. txQueue' \in Seq(FrameType) /\ Frames' \subseteq Frames \cup {FrameOf(r, variant)}
  BY <1>4, InvFacts, OfferFacts
<1>6. /\ rs2 \in [Rows -> RowType] /\ (\A q \in Rows : rs2[q].queued = CountOf(txQueue', q))
      /\ (\A q \in Rows : q # r \/ offer # "Started" => Alike(rs[q], rs2[q]))
      /\ (offer = "Started" => Alike(OnAir(rs[r]), rs2[r]))
  <2>1. rs \in [Rows -> RowType] /\ (\A q \in Rows : rs[q].queued = rows[q].queued) /\ txQueue' \in Seq(FrameType)
    BY <1>2, <1>5
  <2>2. QED
    BY ONLY Inv, <1>3, <2>1, OfferedFacts
<1>7. ASSUME NEW q \in Rows, q # r \/ offer # "Started"
      PROVE  RowOK(rs2[q]) /\ Follows(rows[q], rs2[q]) /\ rs2[q].phase = rs[q].phase
  <2>1. RowOK(rs2[q]) /\ Follows(rs[q], rs2[q]) /\ rs2[q].phase = rs[q].phase
    BY <1>2, <1>6, <1>7, AlikeKeeps DEF Alike
  <2>2. QED
    BY <1>2, <2>1, FollowsTwice
<1>8. ASSUME offer = "Started"
      PROVE  RowOK(rs2[r]) /\ Follows(rows[r], rs2[r]) /\ rs2[r].phase = u.phase
  <2> DEFINE a == OnAir(u)
  <2>1. RowOK(a) /\ Follows(u, a) /\ a.phase = u.phase
    BY AirRow
  <2>2. rs2[r] \in RowType /\ Alike(a, rs2[r])
    BY <1>2, <1>6, <1>8
  <2> HIDE DEF a
  <2>3. RowOK(rs2[r]) /\ Follows(a, rs2[r]) /\ rs2[r].phase = a.phase
    BY <2>1, <2>2, AlikeKeeps DEF Alike
  <2>4. Follows(rows[r], a)
    BY <2>1, FollowsTwice
  <2>5. QED
    BY <2>1, <2>3, <2>4, FollowsTwice
<1>9. \A q \in Rows : rs2[q].rec = rows[q].rec
  BY <1>7, <1>8 DEF Follows
<1>10. FramesInv(txQueue', rs2)
  BY <1>5, <1>6, <1>9, FramesLess
<1>11. QED
  BY <1>2, <1>6, <1>7, <1>8, <1>10

\* The workspace and the transfer follow the phase of the one row that moves.
LEMMA SharedOne ==
  ASSUME Inv, NEW r \in Rows, NEW rs, \A q \in Rows \ {r} : rs[q].phase = rows[q].phase,
         NEW b, b = (IF rs[r].phase = "Reading" THEN r ELSE IF body = r THEN NoRow ELSE body),
         NEW o, o = (IF rs[r].phase = "Resource" THEN r ELSE IF out = r THEN NoRow ELSE out),
         rs[r].phase = "Reading" => body \in {r, NoRow}, rs[r].phase = "Resource" => out \in {r, NoRow}
  PROVE  Shared(rs, b, o)
BY InvFacts DEF Inv, Shared

LEMMA HeldBy ==
  ASSUME Inv, NEW r \in Rows
  PROVE  (body = r <=> rows[r].phase = "Reading") /\ (out = r <=> rows[r].phase = "Resource")
BY DEF Inv, Shared

LEMMA SendPartKeeps ==
  ASSUME Inv, NEW r \in Rows, SendPart(r)
  PROVE  Inv'
<1>1. PICK live \in Aging, offer \in {"Blocked", "Started", "Queued"} :
        /\ Offer(FrameOf(r, Resource), live, offer)
        /\ rows' = Offered([rows EXCEPT ![r].mask = @ \cup {Resource}], r, offer)
  BY DEF SendPart
<1>2. /\ rows[r].phase = "Resource"
      /\ UNCHANGED <<load, body, out, accepting, recovering, cursor, store, withdrawn>>
  BY DEF SendPart
<1> DEFINE u == [rows[r] EXCEPT !.mask = @ \cup {Resource}]
<1>3. rows[r] \in RowType /\ RowOK(rows[r]) /\ rows \in [Rows -> RowType] /\ Resource \in Nat /\ Resource = ProofAttempts
  BY InvFacts
<1>4. /\ rows[r].ticket.op # "ReadRecord" /\ rows[r].rec # 0 /\ rows[r].mask \subseteq 0 .. Resource
      /\ rows[r].attempts <= ProofAttempts
  BY <1>2, <1>3 DEF RowOK, PhaseOK, TicketOK, Suppressed
<1>5. /\ u \in RowType
      /\ u.rec = rows[r].rec /\ u.flags = rows[r].flags /\ u.initial = rows[r].initial /\ u.ticket = rows[r].ticket
      /\ u.desired = rows[r].desired /\ u.durable = rows[r].durable /\ u.aired = rows[r].aired /\ u.proved = rows[r].proved
      /\ u.phase = "Resource" /\ u.mask \subseteq 0 .. Resource /\ u.attempts = rows[r].attempts /\ u.queued = rows[r].queued
  BY <1>2, <1>3, <1>4 DEF RowType
<1>6. rows' = Offering(r, u, offer)
  BY <1>1, <1>3 DEF RowType, Offering
<1> HIDE DEF u
<1>7. RowOK(u) /\ Follows(rows[r], u)
  BY <1>2, <1>3, <1>4, <1>5, SendRow
<1>8. /\ rows' \in [Rows -> RowType] /\ FramesInv(txQueue', rows')
      /\ \A q \in Rows \ {r} : RowOK(rows'[q]) /\ Follows(rows[q], rows'[q]) /\ rows'[q].phase = rows[q].phase
      /\ RowOK(rows'[r]) /\ Follows(rows[r], rows'[r]) /\ rows'[r].phase = u.phase
  <2>1. Offer(FrameOf(r, Resource), live, offer) /\ u.rec # 0 /\ u.queued = rows[r].queued /\ Resource \in Nat
    BY <1>1, <1>3, <1>4, <1>5
  <2>2. QED
    BY ONLY Inv, <1>6, <1>7, <2>1, OfferedKeeps
<1>9. Shared(rows', body', out')
  BY <1>2, <1>5, <1>8, SharedSame
<1>10. UNCHANGED <<records, jobs, deletion>>
  BY <1>2 DEF store
<1>11. QED
  BY <1>2, <1>8, <1>9, <1>10, QuietRows

\* A row that gives the workspace back, with what it offered.
LEMMA AttemptRows ==
  ASSUME Inv, NEW r \in Rows, rows[r].phase = "Reading", rows' \in [Rows -> RowType],
         FramesInv(txQueue', rows'),
         \A q \in Rows \ {r} : RowOK(rows'[q]) /\ Follows(rows[q], rows'[q]) /\ rows'[q].phase = rows[q].phase,
         RowOK(rows'[r]), Follows(rows[r], rows'[r]), rows'[r].phase # "Reading", body' = NoRow,
         \/ rows'[r].phase # "Resource" /\ UNCHANGED out
         \/ rows'[r].phase = "Resource" /\ out = NoRow /\ out' = r,
         UNCHANGED <<load, store, accepting, recovering, cursor, withdrawn>>
  PROVE  Inv'
<1>1. body = r /\ out # r /\ NoRow \notin Rows
  BY HeldBy, InvFacts
<1>2. Shared(rows', body', out')
  BY <1>1, SharedOne
<1>3. \A q \in Rows : RowOK(rows'[q]) /\ Follows(rows[q], rows'[q])
  OBVIOUS
<1>4. UNCHANGED <<records, jobs, deletion>>
  BY DEF store
<1>5. QED
  BY <1>2, <1>3, <1>4, QuietRows

\* What a row in the workspace is.
LEMMA ReadingRow ==
  ASSUME Inv, NEW r \in Rows, rows[r].phase = "Reading"
  PROVE  /\ rows[r] \in RowType /\ RowOK(rows[r]) /\ rows[r].rec # 0 /\ rows[r].mask \subseteq 0 .. Resource
         /\ rows[r].attempts \in 0 .. ProofAttempts - 1 /\ ProofAttempts \in Nat /\ Resource = ProofAttempts
<1>1. rows[r] \in RowType /\ RowOK(rows[r]) /\ ProofAttempts \in Nat /\ Resource = ProofAttempts
  BY InvFacts
<1>2. rows[r].rec # 0 /\ rows[r].mask \subseteq 0 .. Resource /\ rows[r].attempts < ProofAttempts
  BY <1>1 DEF RowOK, PhaseOK
<1>3. rows[r].attempts \in Nat
  BY <1>1 DEF RowType
<1>4. QED
  BY <1>1, <1>2, <1>3

LEMMA AttemptFails ==
  ASSUME Inv, NEW r \in Rows, rows[r].phase = "Reading", rows[r].ticket = NoTicket,
         NEW w \in {[rows[r] EXCEPT !.phase = "Ready"], RouteFailed(rows[r]), Impossible(rows[r])},
         rows' = [rows EXCEPT ![r] = w], body' = NoRow,
         UNCHANGED <<load, out, store, accepting, recovering, cursor, withdrawn, txQueue>>
  PROVE  Inv'
<1> DEFINE v == rows[r]
<1>1. /\ v \in RowType /\ RowOK(v) /\ v.rec # 0 /\ v.mask \subseteq 0 .. Resource
      /\ v.attempts \in 0 .. ProofAttempts - 1 /\ ProofAttempts \in Nat /\ v.ticket.op # "ReadRecord"
  BY ReadingRow, NoTicketFacts
<1>2. RowOK(w) /\ Follows(v, w) /\ w.phase \in {"Ready", "Grace", "Settled"} /\ w.queued = v.queued
  <2> DEFINE u0 == [v EXCEPT !.phase = "Ready"]
             u1 == [v EXCEPT !.phase = "Grace"]
             u2 == [v EXCEPT !.phase = "Settled"]
  <2>1. u0 \in RowType /\ u0.phase = "Ready" /\ Beside(v, u0) /\ u0.mask = v.mask /\ u0.queued = v.queued
    BY <1>1 DEF RowType, Phases, Beside
  <2>2. u1 \in RowType /\ u1.phase = "Grace" /\ Beside(v, u1) /\ u1.mask = v.mask /\ u1.queued = v.queued
    BY <1>1 DEF RowType, Phases, Beside
  <2>3. u2 \in RowType /\ u2.phase = "Settled" /\ Beside(v, u2) /\ u2.mask = v.mask /\ u2.queued = v.queued
    BY <1>1 DEF RowType, Phases, Beside
  <2>4. w \in {u0, WithStatus(u1, "UNCONFIRMED"), WithStatus(u2, "FAILED")}
    BY DEF RouteFailed, Impossible
  <2> HIDE DEF u0, u1, u2
  <2>5. v.phase = "Reading"
    OBVIOUS
  <2> HIDE DEF v
  <2>6. CASE w = u0
    <3>1. v.attempts <= ProofAttempts /\ v.attempts < ProofAttempts
      BY <1>1
    <3>2. RowOK(u0) /\ Follows(v, u0)
      BY <1>1, <2>1, <2>5, <3>1, SendRow DEF Beside
    <3>3. QED
      BY <2>1, <2>6, <3>2
  <2>7. CASE w = WithStatus(u1, "UNCONFIRMED")
    BY <1>1, <2>2, <2>5, <2>7, StatusRow
  <2>8. CASE w = WithStatus(u2, "FAILED")
    BY <1>1, <2>3, <2>5, <2>8, StatusRow
  <2>9. QED
    BY <2>4, <2>6, <2>7, <2>8
<1>3. body = r /\ out # r /\ NoRow \notin Rows /\ rows \in [Rows -> RowType]
  BY HeldBy, InvFacts
<1>4. Shared(rows', body', out')
  <2>1. \A q \in Rows \ {r} : rows'[q].phase = rows[q].phase
    BY <1>3
  <2>2. rows'[r] = w
    BY <1>3
  <2>3. QED
    BY <1>2, <1>3, <2>1, <2>2, SharedOne
<1>5. QED
  BY <1>2, <1>4, QuietRow

LEMMA StartResourceKeeps ==
  ASSUME Inv, NEW r \in Rows, rows[r].phase = "Reading", rows[r].ticket = NoTicket, StartResource(r, rows[r]), body' = NoRow,
         UNCHANGED <<load, store, accepting, recovering, cursor, withdrawn>>
  PROVE  Inv'
<1> DEFINE v == rows[r]
<1>1. /\ v \in RowType /\ RowOK(v) /\ v.rec # 0 /\ v.mask \subseteq 0 .. Resource /\ v.phase = "Reading"
      /\ v.attempts \in 0 .. ProofAttempts - 1 /\ ProofAttempts \in Nat /\ Resource = ProofAttempts
      /\ v.ticket.op # "ReadRecord" /\ rows \in [Rows -> RowType]
  BY ReadingRow, NoTicketFacts, InvFacts
<1>2. PICK live \in Aging, offer \in {"Blocked", "Started", "Queued"} :
        LET sent == offer \in {"Started", "Queued"} IN
        /\ Offer(FrameOf(r, Resource), live, offer)
        /\ rows' = Offered([rows EXCEPT ![r] = [v EXCEPT !.phase = IF sent THEN "Resource" ELSE "Ready", !.mask = @ \cup {Resource}]], r, offer)
        /\ out' = IF sent THEN r ELSE NoRow
  BY DEF StartResource
<1> DEFINE sent == offer \in {"Started", "Queued"}
           u == [v EXCEPT !.phase = IF sent THEN "Resource" ELSE "Ready", !.mask = @ \cup {Resource}]
<1>3. rows' = Offering(r, u, offer) /\ Offer(FrameOf(r, Resource), live, offer)
      /\ out = NoRow /\ out' = IF sent THEN r ELSE NoRow
  BY <1>2 DEF StartResource, Offering
<1>4. /\ u \in RowType
      /\ u.rec = v.rec /\ u.flags = v.flags /\ u.initial = v.initial /\ u.ticket = v.ticket
      /\ u.desired = v.desired /\ u.durable = v.durable /\ u.aired = v.aired /\ u.proved = v.proved
      /\ u.phase = (IF sent THEN "Resource" ELSE "Ready") /\ u.mask = v.mask \cup {Resource}
      /\ u.attempts = v.attempts /\ u.queued = v.queued
  BY <1>1 DEF RowType, Phases
<1> HIDE DEF u, v
<1>5. /\ u.phase \in {"Ready", "Resource"} /\ u.mask \subseteq 0 .. Resource /\ v.attempts < ProofAttempts
      /\ v.attempts <= ProofAttempts /\ Resource \in Nat
  BY <1>1, <1>4
<1>6. RowOK(u) /\ Follows(v, u) /\ u.rec # 0
  BY <1>1, <1>4, <1>5, SendRow
<1>7. /\ rows' \in [Rows -> RowType] /\ FramesInv(txQueue', rows')
      /\ \A q \in Rows \ {r} : RowOK(rows'[q]) /\ Follows(rows[q], rows'[q]) /\ rows'[q].phase = rows[q].phase
      /\ RowOK(rows'[r]) /\ Follows(rows[r], rows'[r]) /\ rows'[r].phase = u.phase
  BY <1>3, <1>4, <1>5, <1>6, OfferedKeeps DEF v
<1>8. QED
  BY <1>3, <1>4, <1>7, AttemptRows

LEMMA FramesLike ==
  ASSUME NEW queue, NEW rs, NEW rs2, FramesInv(queue, rs),
         \A q \in Rows : rs2[q].rec = rs[q].rec /\ rs2[q].queued = rs[q].queued
  PROVE  FramesInv(queue, rs2)
<1>1. \A f \in ToSet(queue) : f.row \in Rows
  <2>1. \A f \in ToSet(queue) : f \in FrameType
    BY DEF FramesInv, ToSet
  <2>2. QED
    BY <2>1 DEF FrameType
<1>2. QED
  BY <1>1 DEF FramesInv

LEMMA PreparedRow ==
  ASSUME Inv, NEW r \in Rows, rows[r].phase = "Reading", rows[r].ticket = NoTicket
  PROVE  LET u == Prepared(rows[r]) IN
         /\ RowOK(u) /\ Follows(rows[r], u) /\ u.rec # 0 /\ u.queued = rows[r].queued /\ u.phase = "AwaitProof"
<1> DEFINE v == rows[r]
           u == Prepared(v)
<1>1. /\ v \in RowType /\ RowOK(v) /\ v.rec # 0 /\ v.mask \subseteq 0 .. Resource /\ v.phase = "Reading"
      /\ v.attempts \in 0 .. ProofAttempts - 1 /\ ProofAttempts \in Nat /\ Resource = ProofAttempts
      /\ v.ticket.op # "ReadRecord"
  BY ReadingRow, NoTicketFacts
<1>0. v.attempts \in Nat /\ v.attempts + 1 \in Nat /\ v.mask \cup {v.attempts} \subseteq Nat
  BY <1>1
<1>2. /\ u \in RowType
      /\ u.rec = v.rec /\ u.flags = v.flags /\ u.initial = v.initial /\ u.ticket = v.ticket
      /\ u.desired = v.desired /\ u.durable = v.durable /\ u.aired = v.aired /\ u.proved = v.proved
      /\ u.phase = "AwaitProof" /\ u.mask = v.mask \cup {v.attempts} /\ u.attempts = v.attempts + 1 /\ u.queued = v.queued
  <2> HIDE DEF v
  <2>1. QED
    BY <1>0, <1>1 DEF RowType, Phases, Prepared
<1> HIDE DEF u, v
<1>3. u.mask \subseteq 0 .. Resource /\ u.attempts <= ProofAttempts
  BY <1>1, <1>2
<1>4. RowOK(u) /\ Follows(v, u)
  BY <1>1, <1>2, <1>3, SendRow
<1>5. QED
  BY <1>1, <1>2, <1>4 DEF u, v

LEMMA TakenBackRow ==
  ASSUME Inv, NEW r \in Rows, rows[r].phase = "Reading", rows[r].ticket = NoTicket,
         NEW l \in RowType, Alike(Prepared(rows[r]), l), NEW w, w = TakenBack(l, rows[r].attempts)
  PROVE  RowOK(w) /\ Follows(rows[r], w) /\ w.queued = l.queued /\ w.phase = "Ready"
<1> DEFINE v == rows[r]
           u == Prepared(v)
<1>1. /\ v \in RowType /\ RowOK(v) /\ v.rec # 0 /\ v.mask \subseteq 0 .. Resource /\ v.phase = "Reading"
      /\ v.attempts \in 0 .. ProofAttempts - 1 /\ ProofAttempts \in Nat /\ Resource = ProofAttempts
      /\ v.ticket.op # "ReadRecord"
  BY ReadingRow, NoTicketFacts
<1>2. /\ u.rec = v.rec /\ u.flags = v.flags /\ u.initial = v.initial /\ u.ticket = v.ticket
      /\ u.desired = v.desired /\ u.durable = v.durable /\ u.aired = v.aired /\ u.proved = v.proved
      /\ u.mask = v.mask \cup {v.attempts}
  BY <1>1 DEF RowType, Phases, Prepared
<1>3. v.attempts \in Nat /\ Alike(u, l)
  BY <1>1
<1>4. w = TakenBack(l, v.attempts)
  OBVIOUS
<1> HIDE DEF u, v
<1>5. /\ w \in RowType
      /\ w.rec = l.rec /\ w.flags = l.flags /\ w.initial = l.initial /\ w.ticket = l.ticket
      /\ w.desired = l.desired /\ w.durable = l.durable /\ w.aired = l.aired /\ w.proved = l.proved
      /\ w.phase = "Ready" /\ w.mask = l.mask \ {v.attempts} /\ w.attempts = v.attempts /\ w.queued = l.queued
  BY <1>3, <1>4 DEF RowType, Phases, TakenBack
<1>6. /\ w.rec = v.rec /\ w.flags = v.flags /\ w.initial = v.initial /\ w.ticket = v.ticket
      /\ w.desired = v.desired /\ w.durable = v.durable /\ w.aired = v.aired /\ w.proved = v.proved
      /\ w.mask \subseteq 0 .. Resource /\ w.attempts < ProofAttempts /\ w.attempts <= ProofAttempts
  BY <1>1, <1>2, <1>3, <1>5 DEF Alike
<1>7. RowOK(w) /\ Follows(v, w)
  BY <1>1, <1>5, <1>6, SendRow
<1>8. QED
  BY <1>5, <1>7 DEF v

LEMMA OfferPreparedKeeps ==
  ASSUME Inv, NEW r \in Rows, rows[r].phase = "Reading", rows[r].ticket = NoTicket, OfferPrepared(r, rows[r]), body' = NoRow,
         UNCHANGED <<load, out, store, accepting, recovering, cursor, withdrawn>>
  PROVE  Inv'
<1> DEFINE v == rows[r]
           u == Prepared(v)
           start == [rows EXCEPT ![r] = u]
<1>1. PICK live \in Aging, offer \in {"none", "Blocked", "Started", "Queued"}, net \in {"none", "Started"} :
        LET lora == IF offer = "none" THEN start ELSE Offered(start, r, offer)
            both == IF net = "Started" THEN [lora EXCEPT ![r] = OnAir(@)] ELSE lora
            accepted == offer \in {"Started", "Queued"} \/ net = "Started"
        IN /\ IF offer = "none" THEN UNCHANGED radioVars ELSE Offer(FrameOf(r, v.attempts), live, offer)
           /\ rows' = IF accepted THEN both ELSE [both EXCEPT ![r] = TakenBack(@, v.attempts)]
  BY DEF OfferPrepared
<1> DEFINE lora == IF offer = "none" THEN start ELSE Offered(start, r, offer)
<1>2. /\ v \in RowType /\ v.attempts \in Nat /\ rows \in [Rows -> RowType]
      /\ RowOK(u) /\ u \in RowType /\ Follows(v, u) /\ u.rec # 0 /\ u.queued = v.queued /\ u.phase = "AwaitProof"
      /\ \A q \in Rows : RowOK(rows[q])
  <2>1. RowOK(u) /\ Follows(v, u) /\ u.rec # 0 /\ u.queued = v.queued /\ u.phase = "AwaitProof"
    BY PreparedRow
  <2>2. v \in RowType /\ rows \in [Rows -> RowType] /\ \A q \in Rows : RowOK(rows[q])
    BY InvFacts
  <2> HIDE DEF u, v
  <2>3. u \in RowType /\ v.attempts \in Nat
    BY <2>1, <2>2 DEF RowOK, RowType
  <2>4. QED
    BY <2>1, <2>2, <2>3
<1>3. /\ lora \in [Rows -> RowType] /\ FramesInv(txQueue', lora)
      /\ \A q \in Rows \ {r} : RowOK(lora[q]) /\ Follows(rows[q], lora[q]) /\ lora[q].phase = rows[q].phase
      /\ RowOK(lora[r]) /\ Follows(v, lora[r]) /\ lora[r].phase = "AwaitProof"
      /\ offer # "Started" => Alike(u, lora[r])
  <2> HIDE DEF u
  <2>1. CASE offer = "none"
    <3>1. lora = start /\ txQueue' = txQueue
      BY <1>1, <2>1 DEF radioVars
    <3>2. start[r] = u /\ (\A q \in Rows \ {r} : start[q] = rows[q]) /\ start \in [Rows -> RowType]
      BY <1>2
    <3> HIDE DEF start, lora
    <3>3. FramesInv(txQueue', lora)
      <4>1. \A q \in Rows : lora[q].rec = rows[q].rec /\ lora[q].queued = rows[q].queued
        BY <1>2, <3>1, <3>2 DEF Follows
      <4>2. QED
        BY <3>1, <4>1, FramesLike DEF Inv
    <3>4. QED
      BY <1>2, <3>1, <3>2, <3>3 DEF Follows, Alike
  <2>2. CASE offer # "none"
    <3>1. lora = Offering(r, u, offer)
      BY <2>2 DEF Offering
    <3>2. Offer(FrameOf(r, v.attempts), live, offer)
      BY <1>1, <2>2
    <3> HIDE DEF lora, start
    <3>3. QED
      BY ONLY Inv, <1>2, <3>1, <3>2, OfferedKeeps
  <2>3. QED
    BY <2>1, <2>2
<1>4. /\ rows' \in [Rows -> RowType] /\ FramesInv(txQueue', rows')
      /\ \A q \in Rows \ {r} : RowOK(rows'[q]) /\ Follows(rows[q], rows'[q]) /\ rows'[q].phase = rows[q].phase
      /\ RowOK(rows'[r]) /\ Follows(rows[r], rows'[r]) /\ rows'[r].phase \in {"AwaitProof", "Ready"}
  <2> SUFFICES ASSUME NEW w, rows' = [lora EXCEPT ![r] = w], RowOK(w), Follows(v, w),
                      w.phase \in {"AwaitProof", "Ready"}, w.queued = lora[r].queued
               PROVE  /\ rows' \in [Rows -> RowType] /\ FramesInv(txQueue', rows')
                      /\ \A q \in Rows \ {r} : RowOK(rows'[q]) /\ Follows(rows[q], rows'[q]) /\ rows'[q].phase = rows[q].phase
                      /\ RowOK(rows'[r]) /\ Follows(rows[r], rows'[r]) /\ rows'[r].phase \in {"AwaitProof", "Ready"}
    <3> HIDE DEF u, lora
    <3>1. lora \in [Rows -> RowType] /\ lora[r] \in RowType
      BY <1>3
    <3>2. CASE net = "Started"
      <4> DEFINE w == OnAir(lora[r])
      <4>1. rows' = [lora EXCEPT ![r] = w]
        BY <1>1, <3>2 DEF lora
      <4>2. RowOK(w) /\ Follows(lora[r], w) /\ w.phase = lora[r].phase /\ w.queued = lora[r].queued
        <5>1. lora[r].rec # 0
          BY <1>2, <1>3 DEF Follows
        <5>2. QED
          BY <1>3, <3>1, <5>1, AirRow, AirFacts
      <4>3. Follows(v, w)
        BY <1>3, <4>2, FollowsTwice
      <4>4. QED
        BY <1>3, <4>1, <4>2, <4>3
    <3>3. CASE net # "Started" /\ offer \in {"Started", "Queued"}
      <4>1. rows' = lora
        BY <1>1, <3>3 DEF lora
      <4>2. rows' = [lora EXCEPT ![r] = lora[r]]
        BY <3>1, <4>1
      <4>3. QED
        BY <1>3, <4>2
    <3>4. CASE net # "Started" /\ offer \notin {"Started", "Queued"}
      <4> DEFINE w == TakenBack(lora[r], v.attempts)
      <4>2. rows' = [lora EXCEPT ![r] = w]
        BY <1>1, <3>4 DEF lora
      <4>3. RowOK(w) /\ Follows(v, w) /\ w.queued = lora[r].queued /\ w.phase = "Ready"
        BY <1>3, <3>1, <3>4, TakenBackRow DEF u
      <4>4. QED
        BY <4>2, <4>3
    <3>5. QED
      BY <3>2, <3>3, <3>4
  <2> HIDE DEF lora, u
  <2>1. w \in RowType /\ rows'[r] = w /\ \A q \in Rows \ {r} : rows'[q] = lora[q]
    BY <1>3 DEF RowOK
  <2>2. FramesInv(txQueue', rows')
    <3>1. \A q \in Rows : rows'[q].rec = lora[q].rec /\ rows'[q].queued = lora[q].queued
      BY <1>3, <2>1 DEF Follows
    <3>2. QED
      BY <1>3, <3>1, FramesLike
  <2>3. QED
    BY <1>3, <2>1, <2>2
<1>5. QED
  BY <1>4, AttemptRows

-----------------------------------------------------------------------------
(* Rows taken and given back, and tickets asked for.                       *)

LEMMA FreeRowInv ==
  ASSUME ProofAttempts \in Nat, NEW recs, NEW gone, 0 \notin gone, NEW state, NEW running, NEW on, NEW at \in Nat
  PROVE  /\ RowInv(FreeRow, recs, gone, state, running, on, at)
         /\ FreeRow \in RowType /\ FreeRow.phase = "Free" /\ FreeRow.rec = 0 /\ FreeRow.queued = 0
         /\ FreeRow.ticket = NoTicket /\ Claim(FreeRow) = 0
<1>1. NoTicket \in TicketType
  BY EngineAssumption DEF NoTicket, TicketType, Operations, Answers, Statuses
<1>2. FreeRow \in RowType
  BY <1>1, EngineAssumption DEF FreeRow, RowType, Phases, Flags, Statuses
<1>3. /\ FreeRow.phase = "Free" /\ FreeRow.rec = 0 /\ FreeRow.flags = {} /\ FreeRow.initial = "none"
      /\ FreeRow.ticket = NoTicket /\ FreeRow.desired = "QUEUED" /\ FreeRow.durable = "QUEUED"
      /\ FreeRow.attempts = 0 /\ FreeRow.mask = {} /\ FreeRow.queued = 0 /\ FreeRow.aired = FALSE /\ FreeRow.proved = FALSE
  BY DEF FreeRow
<1>4. TicketOK(FreeRow) /\ StatusOK(FreeRow)
  BY <1>3, NoTicketFacts DEF TicketOK, StatusOK, Truthful
<1>5. PhaseOK(FreeRow)
  BY <1>3 DEF PhaseOK, Suppressed
<1>6. Recorded(FreeRow, recs) /\ Silenced(FreeRow, gone, running) /\ Claim(FreeRow) = 0
  BY <1>3, NoTicketFacts DEF Recorded, Silenced, Claim
<1>7. Backed(FreeRow, recs, running, state)
  BY <1>3, NoTicketFacts DEF Backed, Served
<1>8. Passed(FreeRow, recs, running, on, at)
  BY <1>3, NoTicketFacts DEF Passed, Found
<1>9. QED
  BY <1>2, <1>3, <1>4, <1>5, <1>6, <1>7, <1>8 DEF RowInv, RowOK

\* One row changes, and no ticket.
LEMMA IdleRow ==
  ASSUME Inv, NEW r \in Rows, NEW w, w \in RowType, rows' = [rows EXCEPT ![r] = w],
         UNCHANGED <<load, store, accepting, recovering, cursor, withdrawn, txQueue>>,
         RowHolds(w), w.ticket = NoTicket, rows[r].ticket = NoTicket, w.queued = 0, rows[r].queued = 0,
         Claim(w) = 0, w.phase = "Query" => \A q \in Rows : rows[q].phase # "Query",
         Shared(rows', body', out')
  PROVE  Inv'
<1>1. /\ rows \in [Rows -> RowType] /\ \A q \in Rows : RowHolds(rows[q])
  BY InvFacts
<1>2. rows' \in [Rows -> RowType] /\ rows'[r] = w /\ \A q \in Rows \ {r} : rows'[q] = rows[q]
  BY <1>1
<1>3. UNCHANGED <<records, jobs, deletion>>
  BY DEF store
<1>4. RowsInv(rows', records', withdrawn', deletion'.state, accepting', recovering', cursor')
  BY <1>1, <1>2, <1>3 DEF RowsInv, RowHolds
<1>5. StoreType' /\ EngineType'
  BY <1>3 DEF Inv, StoreType, EngineType
<1>6. Apart(rows')
  BY <1>1, ApartStep DEF Inv
<1>7. \A q \in Rows : rows'[q].ticket = rows[q].ticket
  BY <1>2
<1>8. JobsInv(jobs', rows', deletion'.state)
  BY <1>3, <1>7, JobsSame DEF Inv
<1>9. FramesInv(txQueue', rows')
  BY <1>2, FramesSame
<1>10. Room(rows', records')
  BY <1>3, <1>7, RoomLess DEF Saves
<1>11. QED
  BY <1>2, <1>4, <1>5, <1>6, <1>8, <1>9, <1>10, Assemble

LEMMA AllocableFacts ==
  ASSUME Inv, NEW r \in Rows, Allocable(r)
  PROVE  rows[r].phase \in {"Free", "Grace"} /\ rows[r].ticket = NoTicket /\ rows[r].queued = 0
<1>1. rows[r].phase = "Free" \/ Reclaimable(r)
  BY DEF Allocable, Used
<1>2. CASE rows[r].phase = "Free"
  <2>1. rows[r].rec = 0 /\ rows[r].ticket = NoTicket
    BY <1>2, InvFacts DEF RowOK, PhaseOK
  <2>2. QED
    BY <1>2, <2>1, NoFrames
<1>3. CASE Reclaimable(r)
  BY <1>3 DEF Reclaimable, Idle
<1>4. QED
  BY <1>1, <1>2, <1>3

\* A row without a frame or a ticket is given back.
LEMMA FreedKeeps ==
  ASSUME Inv, NEW r \in Rows, rows[r].phase \in {"Free", "Grace", "Settled"}, rows[r].ticket = NoTicket, rows[r].queued = 0,
         rows' = [rows EXCEPT ![r] = FreeRow], UNCHANGED out, body' = body \/ body' = Released(body, r),
         UNCHANGED <<load, store, accepting, recovering, cursor, withdrawn, txQueue>>
  PROVE  Inv'
<1>1. RowHolds(FreeRow) /\ FreeRow \in RowType /\ FreeRow.phase = "Free" /\ FreeRow.rec = 0 /\ FreeRow.queued = 0
      /\ FreeRow.ticket = NoTicket /\ Claim(FreeRow) = 0
  BY FreeRowInv, InvFacts DEF RowHolds
<1>2. body # r /\ out # r /\ body' = body
  BY HeldBy DEF Released
<1>3. \A q \in Rows : /\ rows'[q].phase = "Reading" <=> rows[q].phase = "Reading"
                      /\ rows'[q].phase = "Resource" <=> rows[q].phase = "Resource"
  <2>1. rows'[r] = FreeRow /\ \A q \in Rows \ {r} : rows'[q] = rows[q]
    BY InvFacts
  <2>2. QED
    BY <1>1, <2>1
<1>4. Shared(rows', body', out')
  BY <1>2, <1>3, SharedSame
<1>5. QED
  BY <1>1, <1>4, IdleRow

LEMMA RecoverKeeps ==
  ASSUME Inv, NEW r \in Rows, Recover(r)
  PROVE  Inv'
<1> DEFINE w == [FreeRow EXCEPT !.phase = "Query", !.flags = {"Acknowledged", "Recovered"}]
<1>1. /\ accepting /\ recovering /\ (\A q \in Rows : rows[q].phase # "Query") /\ Allocable(r)
      /\ rows' = [rows EXCEPT ![r] = w]
      /\ UNCHANGED <<load, body, out, accepting, recovering, cursor, store, withdrawn, txQueue>>
  BY DEF Recover, radioVars
<1>2. /\ w \in RowType /\ w.phase = "Query" /\ w.flags = {"Acknowledged", "Recovered"} /\ w.rec = 0 /\ w.initial = "none"
      /\ w.ticket = NoTicket /\ w.desired = "QUEUED" /\ w.durable = "QUEUED"
      /\ w.attempts = 0 /\ w.mask = {} /\ w.queued = 0 /\ ~w.aired /\ ~w.proved
  <2>1. FreeRow \in RowType
    BY FreeRowInv, InvFacts
  <2>2. QED
    BY <2>1 DEF RowType, Phases, Flags, FreeRow
<1> HIDE DEF w
<1>3. RowHolds(w) /\ Claim(w) = 0
  BY <1>1, <1>2, EmptyRow, InvFacts DEF RowHolds, Suppressed
<1>4. rows[r].phase \in {"Free", "Grace"} /\ rows[r].ticket = NoTicket /\ rows[r].queued = 0
  BY <1>1, AllocableFacts
<1>5. Shared(rows', body', out')
  <2>1. rows'[r] = w /\ \A q \in Rows \ {r} : rows'[q] = rows[q]
    BY <1>1, InvFacts
  <2>2. QED
    BY <1>1, <1>2, <1>4, <2>1, SharedSame
<1>6. QED
  BY <1>1, <1>2, <1>3, <1>4, <1>5, IdleRow

\* A ticket goes to the worker.
LEMMA RequestedKeeps ==
  ASSUME Inv, NEW r \in Rows, NEW w \in RowType, rows' = [rows EXCEPT ![r] = w], jobs' = Append(jobs, r),
         UNCHANGED <<load, records, deletion, accepting, recovering, cursor, withdrawn, txQueue>>,
         RowHolds(w), InQueue(w.ticket), rows[r].ticket = NoTicket, w.queued = rows[r].queued,
         w.rec = rows[r].rec \/ rows[r].queued = 0, Claim(w) \in {0, Claim(rows[r])},
         w.phase = "Query" => rows[r].phase = "Query",
         Shared(rows', body', out'), Room(rows', records')
  PROVE  Inv'
<1>1. /\ rows \in [Rows -> RowType] /\ \A q \in Rows : RowHolds(rows[q])
  BY InvFacts
<1>2. rows' \in [Rows -> RowType] /\ rows'[r] = w /\ \A q \in Rows \ {r} : rows'[q] = rows[q]
  BY <1>1
<1>3. RowsInv(rows', records', withdrawn', deletion'.state, accepting', recovering', cursor')
  BY <1>1, <1>2 DEF RowsInv, RowHolds
<1>4. StoreType' /\ EngineType'
  BY DEF Inv, StoreType, EngineType
<1>5. Apart(rows')
  BY <1>1, ApartStep DEF Inv
<1>6. JobsInv(jobs', rows', deletion'.state)
  <2>1. r \notin ToSet(jobs)
    BY NoTicketFacts DEF Inv, JobsInv
  <2>2. \A q \in Rows : InQueue(rows'[q].ticket) <=> InQueue(rows[q].ticket) \/ q = r
    BY <1>2
  <2>3. r # NoRow
    BY InvFacts
  <2>4. QED
    BY <2>1, <2>2, <2>3, JobsAdded
<1>7. FramesInv(txQueue', rows')
  BY <1>2, FramesSame
<1>8. QED
  BY <1>2, <1>3, <1>4, <1>5, <1>6, <1>7, Assemble

\* One that saves nothing needs no room.
LEMMA RequestRoom ==
  ASSUME Inv, NEW r \in Rows, NEW w, rows' = [rows EXCEPT ![r] = w], UNCHANGED records, w.ticket.op # "CreateOutgoing"
  PROVE  Room(rows', records')
<1>1. Saves(rows') \subseteq Saves(rows)
  BY InvFacts DEF Saves
<1>2. QED
  BY <1>1, RoomLess

LEMMA TicketTypes ==
  ASSUME NEW op \in Operations, NEW rec \in 0 .. MaxRecords, NEW s \in Statuses
  PROVE  LET t == TicketFor(op, rec, s) IN
         /\ t \in TicketType /\ t.op = op /\ t.answer = "queued" /\ t.rec = rec /\ t.status = s
         /\ InQueue(t) /\ t # NoTicket /\ t.op # "none" /\ ~Found(t)
BY DEF TicketFor, TicketType, InQueue, NoTicket, Operations, Answers, Found

\* v with a ticket that has just gone out, in phase p.
With(v, t, p) == [v EXCEPT !.ticket = t, !.phase = p]
LEMMA WithFacts ==
  ASSUME NEW v \in RowType, NEW t \in TicketType, NEW p \in Phases
  PROVE  LET w == With(v, t, p) IN
         /\ w \in RowType /\ w.ticket = t /\ w.phase = p
         /\ w.rec = v.rec /\ w.flags = v.flags /\ w.initial = v.initial
         /\ w.desired = v.desired /\ w.durable = v.durable /\ w.attempts = v.attempts /\ w.mask = v.mask
         /\ w.queued = v.queued /\ w.aired = v.aired /\ w.proved = v.proved
BY DEF With, RowType

LEMMA UpdateRow ==
  ASSUME Inv, NEW r \in Rows, NEW v, RowHolds(v), v.ticket = NoTicket, v.rec # 0,
         NEW w, w = With(v, TicketFor("UpdateStatus", v.rec, v.desired), v.phase)
  PROVE  RowHolds(w) /\ w \in RowType /\ w.ticket.op = "UpdateStatus" /\ InQueue(w.ticket) /\ w.rec = v.rec
         /\ w.queued = v.queued /\ w.phase = v.phase /\ Claim(w) = v.rec
<1> DEFINE t == TicketFor("UpdateStatus", v.rec, v.desired)
<1>1. /\ v \in RowType /\ TicketOK(v) /\ PhaseOK(v) /\ StatusOK(v) /\ Recorded(v, records)
      /\ Silenced(v, withdrawn, accepting) /\ Backed(v, records, accepting, deletion.state)
      /\ Passed(v, records, accepting, recovering, cursor)
  BY DEF RowHolds, RowInv, RowOK
<1>2. v.rec \in 0 .. MaxRecords /\ v.desired \in Statuses /\ v.phase \in Phases /\ "UpdateStatus" \in Operations
  BY <1>1 DEF RowType, Operations
<1>3. /\ t \in TicketType /\ t.op = "UpdateStatus" /\ t.answer = "queued" /\ t.rec = v.rec /\ t.status = v.desired
      /\ InQueue(t) /\ t # NoTicket /\ ~Found(t)
  BY <1>2, TicketTypes
<1>4. w = With(v, t, v.phase)
  OBVIOUS
<1> HIDE DEF t
<1>5. /\ w \in RowType /\ w.ticket = t /\ w.phase = v.phase
      /\ w.rec = v.rec /\ w.flags = v.flags /\ w.initial = v.initial
      /\ w.desired = v.desired /\ w.durable = v.durable /\ w.attempts = v.attempts /\ w.mask = v.mask
      /\ w.queued = v.queued /\ w.aired = v.aired /\ w.proved = v.proved
  BY <1>1, <1>2, <1>3, <1>4, WithFacts
<1>6. v.phase \notin {"Saving", "Query", "Free"}
  BY <1>1, NoTicketFacts DEF PhaseOK
<1>7. TicketOK(w)
  BY <1>1, <1>3, <1>5, <1>6 DEF TicketOK, Suppressed
<1>8. PhaseOK(w)
  BY <1>1, <1>5, <1>6 DEF PhaseOK, Suppressed
<1>9. StatusOK(w)
  BY <1>1, <1>3, <1>5 DEF StatusOK, Truthful
<1>10. Claim(w) = v.rec /\ Claim(v) = v.rec
  BY <1>3, <1>5, NoTicketFacts DEF Claim
<1>11. Recorded(w, records)
  BY <1>1, <1>3, <1>5, NoTicketFacts DEF Recorded
<1>12. Silenced(w, withdrawn, accepting)
  BY <1>1, <1>3, <1>5, <1>10, NoTicketFacts DEF Silenced, Suppressed
<1>13. Backed(w, records, accepting, deletion.state)
  BY <1>1, <1>3, <1>5, NoTicketFacts DEF Backed, Served, Suppressed
<1>14. Passed(w, records, accepting, recovering, cursor)
  BY <1>1, <1>3, <1>5, <1>6 DEF Passed
<1>15. QED
  BY <1>3, <1>5, <1>7, <1>8, <1>9, <1>10, <1>11, <1>12, <1>13, <1>14 DEF RowHolds, RowInv, RowOK

LEMMA ReadRow ==
  ASSUME Inv, NEW r \in Rows, NEW v, RowHolds(v), v.ticket = NoTicket, v.phase = "Ready", ~Suppressed(v),
         deletion.state # "queued",
         NEW w, w = With(v, TicketFor("ReadRecord", v.rec, "QUEUED"), "Reading")
  PROVE  RowHolds(w) /\ w \in RowType /\ w.ticket.op = "ReadRecord" /\ InQueue(w.ticket) /\ w.rec = v.rec
         /\ w.queued = v.queued /\ w.phase = "Reading" /\ Claim(w) = v.rec
<1> DEFINE t == TicketFor("ReadRecord", v.rec, "QUEUED")
<1>1. /\ v \in RowType /\ TicketOK(v) /\ PhaseOK(v) /\ StatusOK(v) /\ Recorded(v, records)
      /\ Silenced(v, withdrawn, accepting) /\ Backed(v, records, accepting, deletion.state)
      /\ Passed(v, records, accepting, recovering, cursor)
  BY DEF RowHolds, RowInv, RowOK
<1>2. v.rec \in 0 .. MaxRecords /\ "QUEUED" \in Statuses /\ "Reading" \in Phases /\ "ReadRecord" \in Operations
  BY <1>1 DEF RowType, Operations, Statuses, Phases
<1>3. /\ t \in TicketType /\ t.op = "ReadRecord" /\ t.answer = "queued" /\ t.rec = v.rec
      /\ InQueue(t) /\ t # NoTicket /\ ~Found(t)
  BY <1>2, TicketTypes
<1>4. w = With(v, t, "Reading")
  OBVIOUS
<1> HIDE DEF t
<1>5. /\ w \in RowType /\ w.ticket = t /\ w.phase = "Reading"
      /\ w.rec = v.rec /\ w.flags = v.flags /\ w.initial = v.initial
      /\ w.desired = v.desired /\ w.durable = v.durable /\ w.attempts = v.attempts /\ w.mask = v.mask
      /\ w.queued = v.queued /\ w.aired = v.aired /\ w.proved = v.proved
  BY <1>1, <1>2, <1>3, <1>4, WithFacts
<1>6. v.rec # 0 /\ v.desired # "DELIVERED" /\ v.attempts < ProofAttempts
  BY <1>1 DEF PhaseOK
<1>7. TicketOK(w)
  BY <1>1, <1>3, <1>5, <1>6 DEF TicketOK, Suppressed
<1>8. PhaseOK(w)
  BY <1>1, <1>5, <1>6 DEF PhaseOK, Suppressed
<1>9. StatusOK(w)
  BY <1>1, <1>3, <1>5 DEF StatusOK, Truthful
<1>10. Claim(w) = v.rec /\ Claim(v) = v.rec
  BY <1>3, <1>5, NoTicketFacts DEF Claim
<1>11. Recorded(w, records)
  BY <1>1, <1>3, <1>5, NoTicketFacts DEF Recorded
<1>12. Silenced(w, withdrawn, accepting)
  BY <1>1, <1>3, <1>5, <1>10, NoTicketFacts DEF Silenced, Suppressed
<1>13. Backed(w, records, accepting, deletion.state)
  BY <1>1, <1>3, <1>5, NoTicketFacts DEF Backed, Served, Suppressed
<1>14. Passed(w, records, accepting, recovering, cursor)
  BY <1>1, <1>3, <1>5, <1>6 DEF Passed
<1>15. QED
  BY <1>3, <1>5, <1>7, <1>8, <1>9, <1>10, <1>11, <1>12, <1>13, <1>14 DEF RowHolds, RowInv, RowOK

LEMMA QueryRow ==
  ASSUME Inv, NEW r \in Rows, NEW v, RowHolds(v), v.ticket = NoTicket, v.phase = "Query",
         NEW w, w = With(v, TicketFor("ReadPending", cursor, "QUEUED"), "Query")
  PROVE  RowHolds(w) /\ w \in RowType /\ w.ticket.op = "ReadPending" /\ InQueue(w.ticket) /\ w.rec = v.rec
         /\ w.queued = v.queued /\ w.phase = "Query" /\ Claim(w) = v.rec
<1> DEFINE t == TicketFor("ReadPending", cursor, "QUEUED")
<1>1. /\ v \in RowType /\ TicketOK(v) /\ PhaseOK(v) /\ StatusOK(v) /\ Recorded(v, records)
      /\ Silenced(v, withdrawn, accepting) /\ Backed(v, records, accepting, deletion.state)
      /\ Passed(v, records, accepting, recovering, cursor)
  BY DEF RowHolds, RowInv, RowOK
<1>2. cursor \in 0 .. MaxRecords /\ "QUEUED" \in Statuses /\ "Query" \in Phases /\ "ReadPending" \in Operations
  BY InvFacts DEF Operations, Statuses, Phases
<1>3. /\ t \in TicketType /\ t.op = "ReadPending" /\ t.answer = "queued"
      /\ InQueue(t) /\ t # NoTicket /\ ~Found(t)
  BY <1>2, TicketTypes
<1>4. w = With(v, t, "Query")
  OBVIOUS
<1> HIDE DEF t
<1>5. /\ w \in RowType /\ w.ticket = t /\ w.phase = "Query"
      /\ w.rec = v.rec /\ w.flags = v.flags /\ w.initial = v.initial
      /\ w.desired = v.desired /\ w.durable = v.durable /\ w.attempts = v.attempts /\ w.mask = v.mask
      /\ w.queued = v.queued /\ w.aired = v.aired /\ w.proved = v.proved
  BY <1>1, <1>2, <1>3, <1>4, WithFacts
<1>7. TicketOK(w)
  BY <1>1, <1>3, <1>5 DEF TicketOK, Suppressed
<1>8. PhaseOK(w)
  BY <1>1, <1>5 DEF PhaseOK, Suppressed
<1>9. StatusOK(w)
  BY <1>1, <1>3, <1>5 DEF StatusOK, Truthful
<1>10. Claim(w) = v.rec /\ Claim(v) = v.rec
  BY <1>3, <1>5, NoTicketFacts DEF Claim
<1>11. Recorded(w, records)
  BY <1>1, <1>3, <1>5, NoTicketFacts DEF Recorded
<1>12. Silenced(w, withdrawn, accepting)
  BY <1>1, <1>3, <1>5, <1>10, NoTicketFacts DEF Silenced, Suppressed
<1>13. Backed(w, records, accepting, deletion.state)
  BY <1>1, <1>3, <1>5, NoTicketFacts DEF Backed, Served, Suppressed
<1>14. Passed(w, records, accepting, recovering, cursor)
  BY <1>1, <1>3, <1>5 DEF Passed
<1>15. QED
  BY <1>3, <1>5, <1>7, <1>8, <1>9, <1>10, <1>11, <1>12, <1>13, <1>14 DEF RowHolds, RowInv, RowOK

LEMMA SaveRow ==
  ASSUME Inv, ~recovering, NEW w, w = [FreeRow EXCEPT !.phase = "Saving", !.initial = "pending",
                                                      !.ticket = TicketFor("CreateOutgoing", 0, "QUEUED")]
  PROVE  RowHolds(w) /\ w \in RowType /\ w.ticket.op = "CreateOutgoing" /\ InQueue(w.ticket) /\ w.rec = 0
         /\ w.queued = 0 /\ w.phase = "Saving" /\ Claim(w) = 0
<1> DEFINE t == TicketFor("CreateOutgoing", 0, "QUEUED")
<1>1. 0 \in 0 .. MaxRecords /\ "QUEUED" \in Statuses /\ "CreateOutgoing" \in Operations
  BY EngineAssumption DEF Operations, Statuses
<1>2. /\ t \in TicketType /\ t.op = "CreateOutgoing" /\ t.answer = "queued" /\ t.rec = 0
      /\ InQueue(t) /\ t # NoTicket /\ ~Found(t)
  BY <1>1, TicketTypes
<1>3. w = [FreeRow EXCEPT !.phase = "Saving", !.initial = "pending", !.ticket = t]
  OBVIOUS
<1> HIDE DEF t
<1>4. FreeRow \in RowType
  BY FreeRowInv, InvFacts
<1>5. /\ w \in RowType /\ w.ticket = t /\ w.phase = "Saving" /\ w.initial = "pending"
      /\ w.rec = 0 /\ w.flags = {} /\ w.desired = "QUEUED" /\ w.durable = "QUEUED" /\ w.attempts = 0 /\ w.mask = {}
      /\ w.queued = 0 /\ w.aired = FALSE /\ w.proved = FALSE
  <2>1. /\ FreeRow.rec = 0 /\ FreeRow.flags = {} /\ FreeRow.desired = "QUEUED" /\ FreeRow.durable = "QUEUED"
        /\ FreeRow.attempts = 0 /\ FreeRow.mask = {} /\ FreeRow.queued = 0 /\ FreeRow.aired = FALSE
        /\ FreeRow.proved = FALSE
    BY DEF FreeRow
  <2>2. QED
    BY ONLY <1>2, <1>3, <1>4, <2>1 DEF RowType, Phases
<1>6. TicketOK(w)
  BY <1>2, <1>5 DEF TicketOK
<1>7. PhaseOK(w)
  BY <1>5, InvFacts DEF PhaseOK, Suppressed
<1>8. StatusOK(w) /\ Recorded(w, records) /\ Claim(w) = 0
  BY <1>2, <1>5 DEF StatusOK, Truthful, Recorded, Claim
<1>9. Silenced(w, withdrawn, accepting) /\ Backed(w, records, accepting, deletion.state)
  BY <1>2, <1>5, <1>8, InvFacts DEF Silenced, Backed, Served
<1>10. Passed(w, records, accepting, recovering, cursor)
  BY <1>2, <1>5 DEF Passed
<1>11. QED
  BY <1>2, <1>5, <1>6, <1>7, <1>8, <1>9, <1>10 DEF RowHolds, RowInv, RowOK

LEMMA SubmitKeeps ==
  ASSUME Inv, NEW r \in Rows, Submit(r)
  PROVE  Inv'
<1> DEFINE w == [FreeRow EXCEPT !.phase = "Saving", !.initial = "pending",
                                !.ticket = TicketFor("CreateOutgoing", 0, "QUEUED")]
<1>1. /\ ~recovering /\ RecordsLeft /\ Allocable(r)
      /\ \/ rows' = [rows EXCEPT ![r] = w] /\ Request(r, r)
         \/ rows' = [rows EXCEPT ![r] = FreeRow] /\ UNCHANGED store
      /\ UNCHANGED <<load, body, out, accepting, recovering, cursor, withdrawn, txQueue>>
  BY DEF Submit, radioVars
<1>2. rows[r].phase \in {"Free", "Grace"} /\ rows[r].ticket = NoTicket /\ rows[r].queued = 0
  BY <1>1, AllocableFacts
<1>3. CASE rows' = [rows EXCEPT ![r] = FreeRow] /\ UNCHANGED store
  BY <1>1, <1>2, <1>3, FreedKeeps
<1>4. CASE rows' = [rows EXCEPT ![r] = w] /\ Request(r, r)
  <2>1. RowHolds(w) /\ w \in RowType /\ w.ticket.op = "CreateOutgoing" /\ InQueue(w.ticket) /\ w.rec = 0
         /\ w.queued = 0 /\ w.phase = "Saving" /\ Claim(w) = 0
    BY <1>1, SaveRow
  <2> HIDE DEF w
  <2>2. rows'[r] = w /\ \A q \in Rows \ {r} : rows'[q] = rows[q]
    BY <1>4, InvFacts
  <2>3. Shared(rows', body', out')
    BY <1>1, <1>2, <2>1, <2>2, SharedSame
  <2>4. jobs' = Append(jobs, r) /\ UNCHANGED <<records, deletion>>
    BY <1>4 DEF Request
  <2>5. Room(rows', records')
    <3>1. IsFiniteSet(Creating) /\ Saves(rows) \subseteq Creating
      BY InvFacts, FS_Subset DEF Creating, Saves
    <3>2. IsFiniteSet(Saves(rows)) /\ Cardinality(Saves(rows)) <= Cardinality(Creating)
      BY <3>1, FS_Subset
    <3>3. Saves(rows') = Saves(rows) \cup {r} /\ r \notin Saves(rows)
      BY <1>2, <2>1, <2>2, NoTicketFacts DEF Saves
    <3>4. Cardinality(Saves(rows) \cup {r}) = Cardinality(Saves(rows)) + 1
      BY <3>2, <3>3, FS_AddElement
    <3>5. Cardinality(Saves(rows)) \in Nat /\ Cardinality(Creating) \in Nat
      BY <3>1, <3>2, FS_CardinalityType
    <3>6. Len(records) + Cardinality(Creating) < MaxRecords
      BY <1>1 DEF RecordsLeft
    <3>7. Cardinality(Saves(rows')) = Cardinality(Saves(rows)) + 1
      BY <3>3, <3>4
    <3>8. QED
      BY <2>4, <3>2, <3>5, <3>6, <3>7, InvFacts DEF Room
  <2>6. QED
    BY <1>1, <1>2, <1>4, <2>1, <2>3, <2>4, <2>5, RequestedKeeps
<1>5. QED
  BY <1>1, <1>3, <1>4

LEMMA AdvanceKeeps ==
  ASSUME Inv, NEW r \in Rows, Advance(r)
  PROVE  Inv'
<1>1. /\ rows[r].phase # "Free" /\ rows[r].ticket = NoTicket
      /\ UNCHANGED <<load, accepting, withdrawn>>
  BY DEF Advance, Used, Idle
<1>2. /\ rows \in [Rows -> RowType] /\ RowOK(rows[r]) /\ RowHolds(rows[r]) /\ ProofAttempts \in Nat
      /\ rows[r] \in RowType
  BY InvFacts
<1>3. CASE MayRetire(r)
  <2>1. /\ rows' = [rows EXCEPT ![r] = FreeRow] /\ body' = Released(body, r)
        /\ UNCHANGED <<out, recovering, cursor, store, txQueue>>
    BY <1>3 DEF Advance, radioVars
  <2>2. rows[r].phase = "Settled" /\ rows[r].queued = 0
    BY <1>3 DEF MayRetire
  <2>3. QED
    BY <1>1, <2>1, <2>2, FreedKeeps
<1>4. CASE ~MayRetire(r)
  <2>1. PICK v \in Aged(rows[r]) :
          \/ StatusUpdate(r, v)
          \/ /\ v # rows[r] /\ rows' = [rows EXCEPT ![r] = v]
             /\ UNCHANGED <<body, out, recovering, cursor, store, radioVars>> /\ NothingSent
          \/ "Suppressed" \notin v.flags /\ Query(r, v)
          \/ "Suppressed" \notin v.flags /\ accepting /\ (Read(r, v) \/ Attempt(r, v))
    BY <1>4 DEF Advance
  <2>2. /\ RowOK(v) /\ Follows(rows[r], v) /\ v.queued = rows[r].queued /\ v \in RowType
        /\ v = rows[r] \/ (/\ rows[r].phase \notin {"Reading", "Resource", "Query"}
                           /\ v.phase \notin {"Reading", "Resource", "Query"})
    BY <1>1, <1>2, AgedRow DEF RowOK
  <2>3. v.ticket = NoTicket /\ v.rec = rows[r].rec /\ Claim(rows[r]) = v.rec /\ v.phase \in Phases
    BY <1>1, <2>2, NoTicketFacts DEF Follows, Claim, RowType
  <2>4. RowHolds(v)
    BY <1>2, <2>2, FollowsKeeps DEF RowHolds
  <2>5. CASE StatusUpdate(r, v)
    <3> DEFINE w == With(v, TicketFor("UpdateStatus", v.rec, v.desired), v.phase)
    <3>1. rows' = [rows EXCEPT ![r] = w]
      BY <2>2, <2>5 DEF StatusUpdate, With, RowType
    <3>2. v.rec # 0 /\ jobs' = Append(jobs, r) /\ UNCHANGED <<records, deletion, body, out, recovering, cursor, txQueue>>
      BY <2>5 DEF StatusUpdate, Request, radioVars
    <3>3. RowHolds(w) /\ w \in RowType /\ w.ticket.op = "UpdateStatus" /\ InQueue(w.ticket) /\ w.rec = v.rec
           /\ w.queued = v.queued /\ w.phase = v.phase /\ Claim(w) = v.rec
      BY <2>3, <2>4, <3>2, UpdateRow
    <3> HIDE DEF w
    <3>4. rows'[r] = w /\ \A q \in Rows \ {r} : rows'[q] = rows[q]
      BY <1>2, <3>1
    <3>5. Shared(rows', body', out')
      BY <2>2, <3>2, <3>3, <3>4, SharedSame
    <3>6. Room(rows', records')
      BY <3>1, <3>2, <3>3, RequestRoom
    <3>7. QED
      BY <1>1, <2>2, <2>3, <3>1, <3>2, <3>3, <3>5, <3>6, RequestedKeeps
  <2>6. CASE /\ rows' = [rows EXCEPT ![r] = v]
             /\ UNCHANGED <<body, out, recovering, cursor, store, radioVars>>
    <3>1. UNCHANGED txQueue
      BY <2>6 DEF radioVars
    <3>2. rows'[r] = v /\ \A q \in Rows \ {r} : rows'[q] = rows[q]
      BY <1>2, <2>6
    <3>3. Shared(rows', body', out')
      BY <2>2, <2>6, <3>2, SharedSame
    <3>4. QED
      BY <1>1, <2>2, <2>6, <3>1, <3>3, QuietRow
  <2>7. CASE Query(r, v)
    <3> DEFINE w == With(v, TicketFor("ReadPending", cursor, "QUEUED"), "Query")
    <3>1. v.phase = "Query" /\ v = rows[r]
      BY <2>2, <2>7 DEF Query
    <3>2. rows' = [rows EXCEPT ![r] = w]
      BY <1>2, <2>7, <3>1 DEF Query, With, RowType
    <3>3. jobs' = Append(jobs, r) /\ UNCHANGED <<records, deletion, body, out, recovering, cursor, txQueue>>
      BY <2>7 DEF Query, Request, radioVars
    <3>4. RowHolds(w) /\ w \in RowType /\ w.ticket.op = "ReadPending" /\ InQueue(w.ticket) /\ w.rec = v.rec
         /\ w.queued = v.queued /\ w.phase = "Query" /\ Claim(w) = v.rec
      BY <2>3, <2>4, <3>1, QueryRow
    <3> HIDE DEF w
    <3>5. rows'[r] = w /\ \A q \in Rows \ {r} : rows'[q] = rows[q]
      BY <1>2, <3>2
    <3>6. Shared(rows', body', out')
      BY <3>1, <3>3, <3>4, <3>5, SharedSame
    <3>7. Room(rows', records')
      BY <3>2, <3>3, <3>4, RequestRoom
    <3>8. QED
      BY <1>1, <2>2, <2>3, <3>1, <3>2, <3>3, <3>4, <3>6, <3>7, RequestedKeeps
  <2>8. CASE "Suppressed" \notin v.flags /\ Read(r, v)
    <3> DEFINE w == With(v, TicketFor("ReadRecord", v.rec, "QUEUED"), "Reading")
    <3>1. /\ v.phase = "Ready" /\ body = NoRow /\ deletion.state # "queued" /\ body' = r
          /\ ~Suppressed(v)
      BY <2>8 DEF Read, Fenced, Suppressed
    <3>2. rows' = [rows EXCEPT ![r] = w]
      BY <2>2, <2>8 DEF Read, With, RowType
    <3>3. jobs' = Append(jobs, r) /\ UNCHANGED <<records, deletion, out, recovering, cursor, txQueue>>
      BY <2>8 DEF Read, Request, radioVars
    <3>4. RowHolds(w) /\ w \in RowType /\ w.ticket.op = "ReadRecord" /\ InQueue(w.ticket) /\ w.rec = v.rec
         /\ w.queued = v.queued /\ w.phase = "Reading" /\ Claim(w) = v.rec
      BY <2>3, <2>4, <3>1, ReadRow
    <3> HIDE DEF w
    <3>5. rows'[r] = w /\ \A q \in Rows \ {r} : rows'[q] = rows[q]
      BY <1>2, <3>2
    <3>6. Shared(rows', body', out')
      <4>1. out # r
        BY <2>2, <3>1, HeldBy
      <4>2. \A q \in Rows \ {r} : rows'[q].phase = rows[q].phase
        BY <3>5
      <4>3. QED
        BY <3>1, <3>3, <3>4, <3>5, <4>1, <4>2, SharedOne
    <3>7. Room(rows', records')
      BY <3>2, <3>3, <3>4, RequestRoom
    <3>8. QED
      BY <1>1, <2>2, <2>3, <3>1, <3>2, <3>3, <3>4, <3>6, <3>7, RequestedKeeps
  <2>9. CASE Attempt(r, v)
    <3>1. v = rows[r] /\ rows[r].phase = "Reading" /\ body' = NoRow /\ UNCHANGED <<recovering, cursor, store>>
      BY <2>2, <2>9 DEF Attempt
    <3>2. \/ /\ UNCHANGED <<out, radioVars>>
             /\ \E w \in {[v EXCEPT !.phase = "Ready"], RouteFailed(v), Impossible(v)} : rows' = [rows EXCEPT ![r] = w]
          \/ StartResource(r, v)
          \/ OfferPrepared(r, v) /\ UNCHANGED out
      BY <2>9 DEF Attempt
    <3>3. CASE /\ UNCHANGED <<out, radioVars>>
               /\ \E w \in {[v EXCEPT !.phase = "Ready"], RouteFailed(v), Impossible(v)} : rows' = [rows EXCEPT ![r] = w]
      BY <1>1, <3>1, <3>3, AttemptFails DEF radioVars
    <3>4. CASE StartResource(r, v)
      BY <1>1, <3>1, <3>4, StartResourceKeeps
    <3>5. CASE OfferPrepared(r, v) /\ UNCHANGED out
      BY <1>1, <3>1, <3>5, OfferPreparedKeeps
    <3>6. QED
      BY <3>2, <3>3, <3>4, <3>5
  <2>10. QED
    BY <2>1, <2>5, <2>6, <2>7, <2>8, <2>9
<1>5. QED
  BY <1>3, <1>4

-----------------------------------------------------------------------------
(* An answer reaches its row.                                              *)

\* The recovery learns something from the answer row r has.
Finds(r) == /\ rows[r].ticket.op = "ReadPending" /\ recovering /\ ~Suppressed(rows[r])
            /\ rows[r].ticket.answer # "failed"

LEMMA SettledRow ==
  ASSUME Inv, NEW r \in Rows, rows[r].ticket.op # "none", ~InQueue(rows[r].ticket),
         NEW w, w = Settled(Unticketed(rows[r]), rows[r].ticket),
         recovering' \in BOOLEAN, recovering' <=> recovering /\ ~(Finds(r) /\ rows[r].ticket.rec = 0),
         Finds(r) /\ rows[r].ticket.rec # 0 => cursor' = rows[r].ticket.rec,
         ~(Finds(r) /\ rows[r].ticket.rec # 0) => cursor' = cursor,
         withdrawn' = withdrawn \/ Suppressed(w), 0 \notin withdrawn'
  PROVE  /\ RowInv(w, records, withdrawn', deletion.state, accepting, recovering', cursor')
         /\ Claim(w) \in {0, Claim(rows[r])} \/ \A q \in Rows \ {r} : Claim(rows[q]) # Claim(w)
         /\ w.rec = rows[r].rec \/ rows[r].rec = 0
         /\ w.queued = rows[r].queued /\ w.ticket = NoTicket
         /\ w.phase = "Query" => rows[r].phase = "Query"
         /\ w.phase = "Resource" <=> rows[r].phase = "Resource"
         /\ w.phase = "Reading" => rows[r].phase = "Reading"
         /\ rows[r].ticket.op # "ReadRecord" /\ rows[r].phase = "Reading" => w.phase = "Reading"
         /\ Finds(r) => rows[r].phase = "Query"
<1> DEFINE v == rows[r]
           t == v.ticket
           found == Finds(r)
<1>1. /\ RowInv(v, records, withdrawn, deletion.state, accepting, recovering, cursor) /\ v \in RowType
      /\ ProofAttempts \in Nat \ {0} /\ 0 \notin DOMAIN records /\ withdrawn \subseteq DOMAIN records
      /\ withdrawn \subseteq Nat /\ (recovering => \A c \in withdrawn : c <= cursor)
      /\ recovering \in BOOLEAN /\ cursor \in Nat
  BY InvFacts DEF RowHolds
<1>2. TicketOK(v) /\ PhaseOK(v)
  BY <1>1 DEF RowInv, RowOK
<1>3. t.op \in {"CreateOutgoing", "UpdateStatus", "ReadPending", "ReadRecord"} /\ t.op # "none" /\ ~InQueue(t)
  BY <1>1 DEF RowType, TicketType, Operations
<1>4. t.op # "ReadPending" => recovering' = recovering /\ cursor' = cursor /\ ~found
  BY <1>1 DEF Finds
<1>5. w = Settled(Unticketed(v), t)
  OBVIOUS
<1>6. /\ found <=> t.op = "ReadPending" /\ recovering /\ ~Suppressed(v) /\ t.answer # "failed"
      /\ recovering' = (recovering /\ ~(found /\ t.rec = 0))
      /\ cursor' = (IF found /\ t.rec # 0 THEN t.rec ELSE cursor)
      /\ found \in BOOLEAN
  BY <1>1 DEF Finds
<1>7. CASE t.op = "CreateOutgoing"
  <2>1. w = SettledCreate(Unticketed(v), t)
    BY <1>5, <1>7 DEF Settled
  <2>2. /\ RowInv(w, records, withdrawn', deletion.state, accepting, recovering, cursor)
        /\ Claim(w) \in {0, Claim(v)} /\ w.queued = v.queued /\ w.ticket = NoTicket
        /\ w.phase \notin {"Reading", "Resource", "Query"}
    BY <1>1, <1>3, <1>7, <2>1, CreateSettled
  <2>3. v.phase = "Saving" /\ v.rec = 0
    BY <1>2, <1>7 DEF TicketOK, PhaseOK
  <2>4. QED
    BY <1>4, <1>7, <2>2, <2>3
<1>8. CASE t.op = "UpdateStatus"
  <2>1. w = SettledStatus(Unticketed(v), t)
    BY <1>5, <1>8 DEF Settled
  <2>2. /\ RowInv(w, records, withdrawn', deletion.state, accepting, recovering, cursor)
        /\ Claim(w) = Claim(v) /\ w.rec = v.rec /\ w.queued = v.queued /\ w.ticket = NoTicket /\ w.phase = v.phase
    BY <1>1, <1>3, <1>8, <2>1, StatusSettled
  <2>3. QED
    BY <1>4, <1>8, <2>2
<1>9. CASE t.op = "ReadRecord"
  <2>1. w = SettledRead(Unticketed(v), t)
    BY <1>5, <1>9 DEF Settled
  <2>2. /\ RowInv(w, records, withdrawn', deletion.state, accepting, recovering, cursor)
        /\ Claim(w) = Claim(v) /\ w.rec = v.rec /\ w.queued = v.queued /\ w.ticket = NoTicket
        /\ v.phase # "Resource" /\ w.phase \notin {"Resource", "Query"}
        /\ w.phase = "Reading" => v.phase = "Reading"
    BY <1>1, <1>3, <1>9, <2>1, ReadSettled
  <2>3. QED
    BY <1>4, <1>9, <2>2
<1>10. CASE t.op = "ReadPending"
  <2>1. w = SettledPending(Unticketed(v), t)
    BY <1>5, <1>10 DEF Settled
  <2>2. found <=> recovering /\ ~Suppressed(v) /\ t.answer # "failed"
    BY <1>6, <1>10
  <2> HIDE DEF found
  <2>3. /\ RowInv(w, records, withdrawn', deletion.state, accepting, recovering', cursor')
        /\ Claim(w) \in {0, t.rec} /\ (Claim(w) # 0 => found /\ ~InDelivery(t.rec))
        /\ Claim(w) = w.rec /\ w.queued = v.queued /\ w.ticket = NoTicket
        /\ v.phase = "Query" /\ w.phase \notin {"Reading", "Resource"}
    BY <1>1, <1>3, <1>6, <1>10, <2>1, <2>2, PendingSettled
  <2>4. v.rec = 0
    BY <1>2, <2>3 DEF PhaseOK
  <2>5. ASSUME Claim(w) # 0, NEW q \in Rows \ {r} PROVE Claim(rows[q]) # Claim(w)
    <3>1. Claim(w) = t.rec /\ t.rec # 0 /\ recovering /\ ~InDelivery(t.rec)
      BY <2>2, <2>3, <2>5
    <3>2. rows[q].ticket.op # "CreateOutgoing" /\ (rows[q].rec # 0 => rows[q].phase # "Free")
      BY <3>1, InvFacts DEF RowHolds, RowInv, Passed, RowOK, PhaseOK
    <3>3. Claim(rows[q]) = rows[q].rec
      BY <3>2 DEF Claim
    <3>4. QED
      BY <3>1, <3>2, <3>3 DEF InDelivery, Used
  <2>6. QED
    BY <1>10, <2>3, <2>4, <2>5
<1>11. QED
  BY <1>3, <1>7, <1>8, <1>9, <1>10

LEMMA SettleStorageKeeps ==
  ASSUME Inv, NEW r \in Rows, SettleStorage(r)
  PROVE  Inv'
<1> DEFINE v == rows[r]
           t == rows[r].ticket
           w == Settled(Unticketed(rows[r]), t)
           found == Finds(r)
<1>1. /\ t.op # "none" /\ ~InQueue(t)
      /\ rows' = [rows EXCEPT ![r] = w]
      /\ body' = IF t.op = "ReadRecord" /\ w.phase # "Reading" THEN Released(body, r) ELSE body
      /\ cursor' = IF found /\ t.rec # 0 THEN t.rec ELSE cursor
      /\ recovering' = (recovering /\ ~(found /\ t.rec = 0))
      /\ withdrawn' = IF Suppressed(w) /\ w.rec # 0 THEN withdrawn \cup {w.rec} ELSE withdrawn
      /\ UNCHANGED <<load, out, accepting, store, txQueue>>
  BY DEF SettleStorage, Finds, Unticketed, InQueue, Has, Suppressed, radioVars
<1>2. UNCHANGED <<records, jobs, deletion>>
  BY <1>1 DEF store
<1> HIDE DEF w, found, Finds
<1>3. /\ rows \in [Rows -> RowType] /\ (\A q \in Rows : RowHolds(rows[q])) /\ TicketOK(v) /\ PhaseOK(v) /\ v \in RowType
      /\ recovering \in BOOLEAN /\ cursor \in Nat /\ (recovering => accepting)
      /\ withdrawn \subseteq DOMAIN records /\ (recovering => \A c \in withdrawn : c <= cursor)
      /\ 0 \notin withdrawn
  BY InvFacts DEF RowOK
<1>4. withdrawn' = withdrawn \/ Suppressed(w)
  BY <1>1
<1>5. 0 \notin withdrawn'
  BY <1>1, <1>3
<1>6. /\ RowInv(w, records, withdrawn', deletion.state, accepting, recovering', cursor')
      /\ Claim(w) \in {0, Claim(rows[r])} \/ \A q \in Rows \ {r} : Claim(rows[q]) # Claim(w)
      /\ w.rec = rows[r].rec \/ rows[r].rec = 0
      /\ w.queued = rows[r].queued /\ w.ticket = NoTicket
      /\ w.phase = "Query" => rows[r].phase = "Query"
      /\ w.phase = "Resource" <=> rows[r].phase = "Resource"
      /\ w.phase = "Reading" => rows[r].phase = "Reading"
      /\ t.op # "ReadRecord" /\ rows[r].phase = "Reading" => w.phase = "Reading"
      /\ found => rows[r].phase = "Query"
  <2>2. w = Settled(Unticketed(rows[r]), rows[r].ticket)
    BY DEF w
  <2>3. /\ recovering' \in BOOLEAN /\ (recovering' <=> recovering /\ ~(Finds(r) /\ rows[r].ticket.rec = 0))
        /\ (Finds(r) /\ rows[r].ticket.rec # 0 => cursor' = rows[r].ticket.rec)
        /\ (~(Finds(r) /\ rows[r].ticket.rec # 0) => cursor' = cursor)
        /\ rows[r].ticket.op # "none" /\ ~InQueue(rows[r].ticket)
    BY <1>1, <1>3 DEF found
  <2>4. QED
    BY ONLY Inv, <1>4, <1>5, <2>2, <2>3, SettledRow DEF found
<1>7. rows'[r] = w /\ (\A q \in Rows \ {r} : rows'[q] = rows[q]) /\ w \in RowType /\ rows' \in [Rows -> RowType]
  BY <1>1, <1>3, <1>6 DEF RowInv, RowOK
<1>8. Apart(rows')
  BY <1>1, <1>3, <1>6, ApartStep DEF Inv
<1>9. Claim(w) = w.rec
  BY <1>6, NoTicketFacts DEF Claim
<1>10. (recovering' => recovering) /\ cursor <= cursor' /\ cursor' \in 0 .. MaxRecords /\ recovering' \in BOOLEAN
  <2>1. t.rec \in 0 .. MaxRecords /\ cursor \in 0 .. MaxRecords /\ MaxRecords \in Nat
    BY <1>3, InvFacts DEF RowType, TicketType
  <2>2. ASSUME found, t.rec # 0 PROVE cursor < t.rec
    <3>1. t.answer \in Answers \cup {"none"} /\ t.answer # "none" /\ t.answer # "cancelled"
      BY <1>3, <2>2 DEF RowType, TicketType, TicketOK, found, Finds
    <3>2. Found(t)
      BY <1>1, <2>2, <3>1 DEF Found, found, Finds, Answers, InQueue
    <3>3. QED
      BY <1>3, <2>2, <3>2 DEF RowHolds, RowInv, Passed, found, Finds
  <2>3. QED
    BY <1>1, <1>3, <2>1, <2>2
<1>11. ASSUME NEW q \in Rows \ {r}
       PROVE  RowInv(rows[q], records, withdrawn', deletion.state, accepting, recovering', cursor')
  <2>1. /\ RowOK(rows[q]) /\ Recorded(rows[q], records) /\ Silenced(rows[q], withdrawn, accepting)
        /\ Backed(rows[q], records, accepting, deletion.state) /\ Passed(rows[q], records, accepting, recovering, cursor)
    BY <1>3 DEF RowHolds, RowInv
  <2>2. Silenced(rows[q], withdrawn', accepting)
    <3>1. w.rec # 0 => Claim(rows[q]) # w.rec
      BY <1>7, <1>8, <1>9 DEF Apart
    <3>2. QED
      BY <1>1, <2>1, <3>1 DEF Silenced
  <2>3. Passed(rows[q], records, accepting, recovering', cursor')
    <3>1. CASE found
      <4>1. rows[q].phase # "Query"
        BY <1>3, <1>6, <3>1 DEF Inv, Apart
      <4>2. rows[q].ticket.op # "ReadPending"
        BY <2>1, <4>1 DEF RowOK, TicketOK
      <4>3. rows[q].rec \in Nat
        BY <1>3 DEF RowType
      <4>4. cursor' \in Nat
        BY <1>10
      <4>5. QED
        BY <1>3, <1>10, <2>1, <4>1, <4>2, <4>3, <4>4 DEF Passed, Found
    <3>2. CASE ~found
      <4>1. recovering' = recovering /\ cursor' = cursor
        BY <1>1, <1>3, <3>2
      <4>2. QED
        BY <2>1, <4>1
    <3>3. QED
      BY <3>1, <3>2
  <2>4. QED
    BY <2>1, <2>2, <2>3 DEF RowInv
<1>12. RowsInv(rows', records', withdrawn', deletion'.state, accepting', recovering', cursor')
  BY <1>1, <1>2, <1>6, <1>7, <1>11 DEF RowsInv
<1>13. StoreType' /\ EngineType'
  <2>1. w.rec # 0 => w.rec \in DOMAIN records
    BY <1>6 DEF RowInv, Recorded
  <2>2. withdrawn' \subseteq DOMAIN records
    BY <1>1, <1>3, <2>1
  <2>3. recovering' => \A c \in withdrawn' : c <= cursor'
    <3>1. recovering' => w.rec <= cursor'
      BY <1>6 DEF RowInv, Passed
    <3>2. ASSUME recovering', NEW c \in withdrawn PROVE c <= cursor'
      <4>1. c \in Nat /\ cursor' \in Nat /\ c <= cursor
        BY <1>3, <1>10, <3>2, InvFacts
      <4>2. QED
        BY <1>3, <1>10, <4>1
    <3>3. QED
      BY <1>1, <3>1, <3>2
  <2>4. QED
    BY <1>1, <1>2, <1>3, <1>10, <2>2, <2>3 DEF Inv, StoreType, EngineType
<1>14. Shared(rows', body', out')
  BY <1>1, <1>6, <1>7, InvFacts DEF Inv, Shared, Released
<1>15. \A q \in Rows : InQueue(rows'[q].ticket) <=> InQueue(rows[q].ticket)
  BY <1>1, <1>6, <1>7, NoTicketFacts
<1>16. JobsInv(jobs', rows', deletion'.state)
  BY <1>2, <1>15, JobsSame DEF Inv
<1>17. FramesInv(txQueue', rows')
  BY <1>1, <1>6, <1>7, FramesSame
<1>18. Room(rows', records')
  <2>1. Saves(rows') \subseteq Saves(rows)
    BY <1>6, <1>7, NoTicketFacts DEF Saves
  <2>2. QED
    BY <1>2, <2>1, RoomLess
<1>19. QED
  BY <1>1, <1>7, <1>8, <1>12, <1>13, <1>14, <1>16, <1>17, <1>18, Assemble

-----------------------------------------------------------------------------
(* The worker executes the oldest ticket.                                  *)

Answered(v, answer, rec, status) == [v EXCEPT !.ticket = [@ EXCEPT !.answer = answer, !.rec = rec, !.status = status]]

LEMMA AnsweredFacts ==
  ASSUME NEW v \in RowType, NEW answer \in Answers, NEW rec \in 0 .. MaxRecords, NEW status \in Statuses,
         NEW w, w = Answered(v, answer, rec, status)
  PROVE  /\ w \in RowType /\ w.ticket.op = v.ticket.op /\ w.ticket.answer = answer
         /\ w.ticket.rec = rec /\ w.ticket.status = status
         /\ w.phase = v.phase /\ w.rec = v.rec /\ w.flags = v.flags /\ w.initial = v.initial
         /\ w.desired = v.desired /\ w.durable = v.durable /\ w.attempts = v.attempts /\ w.mask = v.mask
         /\ w.queued = v.queued /\ w.aired = v.aired /\ w.proved = v.proved
<1> DEFINE t == [v.ticket EXCEPT !.answer = answer, !.rec = rec, !.status = status]
<1>1. t \in TicketType /\ t.op = v.ticket.op /\ t.answer = answer /\ t.rec = rec /\ t.status = status
  BY DEF RowType, TicketType
<1>2. w = [v EXCEPT !.ticket = t]
  BY DEF Answered
<1> HIDE DEF t
<1>3. QED
  BY <1>1, <1>2 DEF RowType

\* What an answer leaves of the row: all but what is known of the ticket.
SameOpen(v, w) ==
  /\ w.ticket.op = v.ticket.op
  /\ w.phase = v.phase /\ w.rec = v.rec /\ w.flags = v.flags /\ w.initial = v.initial
  /\ w.desired = v.desired /\ w.durable = v.durable /\ w.attempts = v.attempts /\ w.mask = v.mask
  /\ w.queued = v.queued /\ w.aired = v.aired /\ w.proved = v.proved

\* The row stays a good row, if the answer is one the operation can have.
LEMMA AnsweredOK ==
  ASSUME NEW v, NEW w \in RowType, RowOK(v), SameOpen(v, w), v.ticket.op # "none", w.ticket.answer # "none",
         w.ticket.answer \in {"cancelQueued", "cancelled"} => Suppressed(v),
         v.ticket.op \in {"UpdateStatus", "ReadRecord"} => w.ticket.rec = v.ticket.rec,
         v.ticket.op = "ReadRecord" => w.ticket.answer # "unsendable",
         v.ticket.op = "UpdateStatus" => w.ticket.status = v.ticket.status
  PROVE  RowOK(w)
<1>1. TicketOK(v) /\ PhaseOK(v) /\ StatusOK(v)
  BY DEF RowOK
<1>2. w.ticket # NoTicket /\ v.ticket # NoTicket
  BY NoTicketFacts DEF SameOpen
<1>3. TicketOK(w)
  BY <1>1, <1>2 DEF TicketOK, SameOpen, Suppressed
<1>4. PhaseOK(w)
  BY <1>1, <1>2 DEF PhaseOK, SameOpen, Suppressed
<1>5. StatusOK(w)
  BY <1>1 DEF StatusOK, SameOpen, Truthful
<1>6. QED
  BY <1>3, <1>4, <1>5 DEF RowOK

\* The oldest ticket is answered.
LEMMA AnsweredKeeps ==
  ASSUME Inv, NEW r \in Rows, jobs # <<>>, r = Head(jobs), jobs' = Tail(jobs),
         NEW w \in RowType, rows' = [rows EXCEPT ![r] = w], SameOpen(rows[r], w), ~InQueue(w.ticket),
         UNCHANGED <<load, body, out, accepting, recovering, cursor, withdrawn, deletion, txQueue>>,
         records' \in Seq(Statuses \cup {"gone"}), DOMAIN records \subseteq DOMAIN records',
         RowInv(w, records', withdrawn, deletion.state, accepting, recovering, cursor),
         \A q \in Rows \ {r} : RowInv(rows[q], records', withdrawn, deletion.state, accepting, recovering, cursor),
         Claim(w) \in {0, Claim(rows[r])} \/ \A q \in Rows \ {r} : Claim(rows[q]) # Claim(w),
         Room(rows', records')
  PROVE  Inv'
<1>1. rows \in [Rows -> RowType]
  BY InvFacts
<1>2. rows' \in [Rows -> RowType] /\ rows'[r] = w /\ \A q \in Rows \ {r} : rows'[q] = rows[q]
  BY <1>1
<1>3. RowsInv(rows', records', withdrawn', deletion'.state, accepting', recovering', cursor')
  BY <1>2 DEF RowsInv
<1>4. StoreType' /\ EngineType'
  <2>1. IsFiniteSet(Saves(rows'))
    BY InvFacts, FS_Subset DEF Saves
  <2>2. Cardinality(Saves(rows')) \in Nat /\ Len(records') \in Nat /\ MaxRecords \in Nat
    BY <2>1, FS_CardinalityType, InvFacts
  <2>3. Len(records') <= MaxRecords
    BY <2>2 DEF Room
  <2>4. QED
    BY <2>3 DEF Inv, StoreType, EngineType
<1>5. Apart(rows')
  BY <1>1, ApartStep DEF Inv, SameOpen
<1>6. JobsInv(jobs', rows', deletion'.state)
  <2>1. \A q \in Rows : InQueue(rows'[q].ticket) <=> InQueue(rows[q].ticket) /\ q # Head(jobs)
    BY <1>2
  <2>2. deletion'.state = "queued" <=> deletion.state = "queued" /\ Head(jobs) # NoRow
    BY InvFacts
  <2>3. QED
    BY <2>1, <2>2, JobsDone
<1>7. FramesInv(txQueue', rows')
  BY <1>2, FramesSame DEF SameOpen
<1>8. Shared(rows', body', out')
  BY <1>2, SharedSame DEF SameOpen
<1>9. QED
  BY <1>2, <1>3, <1>4, <1>5, <1>6, <1>7, <1>8, Assemble

\* The row of the oldest ticket.
LEMMA OldestFacts ==
  ASSUME Inv, jobs # <<>>
  PROVE  /\ Head(jobs) \in Rows \cup {NoRow} /\ Head(jobs) \in ToSet(jobs)
         /\ Head(jobs) = NoRow => deletion.state = "queued"
         /\ Head(jobs) # NoRow => Head(jobs) \in Rows /\ InQueue(rows[Head(jobs)].ticket)
<1> DEFINE T == Rows \cup {NoRow}
<1>1. jobs \in Seq(T)
  BY InvFacts
<1>2. Head(jobs) \in ToSet(jobs)
  <2> HIDE DEF T
  <2>1. QED
    BY <1>1, TailFacts
<1>3. Head(jobs) \in T
  BY <1>1
<1>4. QED
  BY <1>2, <1>3 DEF Inv, JobsInv

\* The store gave no new record, and the answer nothing the row could use.
LEMMA FailedKeeps ==
  ASSUME Inv, NEW r \in Rows, jobs # <<>>, r = Head(jobs), jobs' = Tail(jobs),
         NEW answer, \/ answer = "failed" /\ rows[r].ticket.answer = "queued"
                     \/ answer = "cancelled" /\ rows[r].ticket.answer = "cancelQueued",
         rows' = [rows EXCEPT ![r] = Answered(rows[r], answer, rows[r].ticket.rec, rows[r].ticket.status)],
         UNCHANGED <<load, body, out, accepting, recovering, cursor, withdrawn, records, deletion, txQueue>>
  PROVE  Inv'
<1> DEFINE v == rows[r]
           w == Answered(v, answer, v.ticket.rec, v.ticket.status)
<1>1. v \in RowType /\ RowHolds(v) /\ RowOK(v) /\ records \in Seq(Statuses \cup {"gone"}) /\ \A q \in Rows : RowHolds(rows[q])
  BY InvFacts
<1>2. v.ticket.rec \in 0 .. MaxRecords /\ v.ticket.status \in Statuses /\ answer \in Answers
  BY <1>1 DEF RowType, TicketType, Answers
<1>3. w \in RowType /\ SameOpen(v, w) /\ w.ticket.answer = answer /\ w.ticket.rec = v.ticket.rec
      /\ w.ticket.status = v.ticket.status
  BY <1>1, <1>2, AnsweredFacts DEF SameOpen
<1>4. rows' = [rows EXCEPT ![r] = w] /\ v.ticket.answer \in {"queued", "cancelQueued"} /\ answer \in {"failed", "cancelled"}
      /\ (answer = "cancelled" => v.ticket.answer = "cancelQueued")
  OBVIOUS
<1> HIDE DEF w, v
<1>5. v.ticket.op # "none" /\ (answer = "cancelled" => Suppressed(v))
  BY <1>1, <1>4, NoTicketFacts DEF RowOK, TicketOK
<1>6. RowOK(w)
  BY <1>1, <1>3, <1>4, <1>5, AnsweredOK
<1>7. RowInv(w, records, withdrawn, deletion.state, accepting, recovering, cursor) /\ Claim(w) = Claim(v)
  <2>1. /\ Recorded(v, records) /\ Silenced(v, withdrawn, accepting) /\ Backed(v, records, accepting, deletion.state)
        /\ Passed(v, records, accepting, recovering, cursor)
    BY <1>1 DEF RowHolds, RowInv
  <2>2. Claim(w) = Claim(v)
    BY <1>3 DEF Claim, SameOpen
  <2>3. Recorded(w, records)
    BY <1>3, <1>4, <2>1 DEF Recorded, SameOpen
  <2>4. Silenced(w, withdrawn, accepting)
    BY <1>3, <2>1, <2>2 DEF Silenced, SameOpen, Suppressed
  <2>5. Backed(w, records, accepting, deletion.state)
    BY <1>3, <1>4, <2>1 DEF Backed, SameOpen, Suppressed, Served
  <2>6. Passed(w, records, accepting, recovering, cursor)
    BY <1>3, <1>4, <2>1 DEF Passed, SameOpen, Found
  <2>7. QED
    BY <1>6, <2>2, <2>3, <2>4, <2>5, <2>6 DEF RowInv
<1>8. ~InQueue(w.ticket)
  BY <1>3, <1>4 DEF InQueue
<1>9. Room(rows', records')
  <2>1. Saves(rows') \subseteq Saves(rows)
    BY <1>4, <1>8, InvFacts DEF Saves
  <2>2. QED
    BY <2>1, RoomLess
<1>10. QED
  BY <1>1, <1>3, <1>4, <1>7, <1>8, <1>9, AnsweredKeeps DEF RowHolds, v

LEMMA Least ==
  ASSUME NEW S \in SUBSET Nat, S # {}
  PROVE  LET c == CHOOSE c \in S : \A d \in S : c <= d IN c \in S /\ \A d \in S : c <= d
<1>1. PICK c \in S : \A d \in S : ~(<<d, c>> \in OpToRel(<, Nat))
  BY NatLessThanWellFounded, WFMin
<1>2. \A d \in S : ~(d < c)
  BY <1>1 DEF OpToRel
<1>3. \A d \in S : c <= d
  BY <1>2
<1>4. QED
  BY <1>3

\* An answer that changes no record.
LEMMA ReadKeeps ==
  ASSUME Inv, NEW r \in Rows, jobs # <<>>, r = Head(jobs), jobs' = Tail(jobs),
         NEW answer \in {"ok", "invalid", "unsendable", "foreign"}, NEW rec \in 0 .. MaxRecords, NEW status \in Statuses,
         rows[r].ticket.answer = "queued",
         \/ /\ rows[r].ticket.op = "ReadPending"
            /\ rec # 0 => rec \in DOMAIN records /\ rec > cursor /\ records[rec] = status /\ status \in {"QUEUED", "SENDING"}
         \/ /\ rows[r].ticket.op = "ReadRecord" /\ answer # "unsendable"
            /\ rec = rows[r].ticket.rec /\ records[rec] # "gone",
         rows' = [rows EXCEPT ![r] = Answered(rows[r], answer, rec, status)],
         UNCHANGED <<load, body, out, accepting, recovering, cursor, withdrawn, records, deletion, txQueue>>
  PROVE  Inv'
<1> DEFINE v == rows[r]
           w == Answered(v, answer, rec, status)
<1>1. v \in RowType /\ RowHolds(v) /\ RowOK(v) /\ records \in Seq(Statuses \cup {"gone"}) /\ \A q \in Rows : RowHolds(rows[q])
  BY InvFacts
<1>2. answer \in Answers
  BY DEF Answers
<1>3. w \in RowType /\ SameOpen(v, w) /\ w.ticket.answer = answer /\ w.ticket.rec = rec /\ w.ticket.status = status
  BY <1>1, <1>2, AnsweredFacts DEF SameOpen
<1>4. /\ rows' = [rows EXCEPT ![r] = w] /\ v.ticket.answer = "queued"
      /\ v.ticket.op \in {"ReadPending", "ReadRecord"}
      /\ v.ticket.op = "ReadPending" /\ rec # 0 =>
           rec \in DOMAIN records /\ rec > cursor /\ records[rec] = status /\ status \in {"QUEUED", "SENDING"}
      /\ v.ticket.op = "ReadRecord" => answer # "unsendable" /\ rec = v.ticket.rec /\ records[rec] # "gone"
  OBVIOUS
<1> HIDE DEF w, v
<1>5. RowOK(w)
  BY <1>1, <1>3, <1>4, AnsweredOK
<1>6. RowInv(w, records, withdrawn, deletion.state, accepting, recovering, cursor) /\ Claim(w) = Claim(v)
  <2>1. /\ Recorded(v, records) /\ Silenced(v, withdrawn, accepting) /\ Backed(v, records, accepting, deletion.state)
        /\ Passed(v, records, accepting, recovering, cursor) /\ TicketOK(v) /\ PhaseOK(v)
    BY <1>1 DEF RowHolds, RowInv, RowOK
  <2>2. Claim(w) = Claim(v)
    BY <1>3, <1>4 DEF Claim, SameOpen
  <2>3. Recorded(w, records)
    BY <1>3, <1>4, <2>1 DEF Recorded, SameOpen
  <2>4. Silenced(w, withdrawn, accepting)
    BY <1>3, <2>1, <2>2 DEF Silenced, SameOpen, Suppressed
  <2>5. Backed(w, records, accepting, deletion.state)
    <3>1. CASE v.ticket.op = "ReadRecord"
      <4>1. v.rec = rec /\ records[v.rec] # "gone"
        BY <1>4, <2>1, <3>1 DEF TicketOK
      <4>2. QED
        BY <1>3, <2>1, <3>1, <4>1 DEF Backed, SameOpen, Suppressed
    <3>2. CASE v.ticket.op = "ReadPending"
      BY <1>3, <2>1, <3>2 DEF Backed, SameOpen, Suppressed, Served
    <3>3. QED
      BY <1>4, <3>1, <3>2
  <2>6. Passed(w, records, accepting, recovering, cursor)
    BY <1>3, <1>4, <2>1, InvFacts DEF Passed, SameOpen, Found
  <2>7. QED
    BY <1>5, <2>2, <2>3, <2>4, <2>5, <2>6 DEF RowInv
<1>7. ~InQueue(w.ticket)
  BY <1>3 DEF InQueue
<1>8. Room(rows', records')
  <2>1. Saves(rows') \subseteq Saves(rows)
    BY <1>4, <1>7, InvFacts DEF Saves
  <2>2. QED
    BY <2>1, RoomLess
<1>9. QED
  BY <1>1, <1>3, <1>4, <1>6, <1>7, <1>8, AnsweredKeeps DEF RowHolds, v

\* A record that the invariant says is there.
LEMMA Claimed ==
  ASSUME Inv, NEW q \in Rows
  PROVE  /\ rows[q].rec # 0 => rows[q].rec \in DOMAIN records /\ Claim(rows[q]) = rows[q].rec
         /\ Claim(rows[q]) \in DOMAIN records \cup {0}
         /\ Served(rows[q]) => rows[q].rec # 0
<1>1. Recorded(rows[q], records) /\ TicketOK(rows[q]) /\ PhaseOK(rows[q])
  BY InvFacts DEF RowHolds, RowInv, RowOK
<1>2. QED
  BY <1>1 DEF Recorded, TicketOK, PhaseOK, Claim, Served

LEMMA SavedKeeps ==
  ASSUME Inv, NEW r \in Rows, jobs # <<>>, r = Head(jobs), jobs' = Tail(jobs),
         rows[r].ticket.answer = "queued", rows[r].ticket.op = "CreateOutgoing",
         records' = Append(records, "QUEUED"),
         rows' = [rows EXCEPT ![r] = Answered(rows[r], "ok", Len(records) + 1, "QUEUED")],
         UNCHANGED <<load, body, out, accepting, recovering, cursor, withdrawn, deletion, txQueue>>
  PROVE  Inv'
<1> DEFINE v == rows[r]
           c == Len(records) + 1
           w == Answered(v, "ok", c, "QUEUED")
           T == Statuses \cup {"gone"}
<1>1. /\ v \in RowType /\ RowHolds(v) /\ RowOK(v) /\ records \in Seq(T) /\ \A q \in Rows : RowHolds(rows[q]) /\ RowOK(rows[q])
      /\ withdrawn \subseteq DOMAIN records /\ Len(records) \in Nat /\ MaxRecords \in Nat /\ "QUEUED" \in T
  BY InvFacts DEF Statuses
<1>2. /\ records' \in Seq(T) /\ DOMAIN records' = DOMAIN records \cup {c} /\ c \notin DOMAIN records
      /\ (\A k \in DOMAIN records : records'[k] = records[k]) /\ records'[c] = "QUEUED"
  <2> HIDE DEF T
  <2>1. QED
    BY <1>1, AppendFacts
<1>3. IsFiniteSet(Saves(rows)) /\ r \in Saves(rows) /\ Cardinality(Saves(rows)) \in Nat
      /\ Cardinality(Saves(rows) \ {r}) = Cardinality(Saves(rows)) - 1
  <2>1. IsFiniteSet(Saves(rows)) /\ r \in Saves(rows)
    BY InvFacts, FS_Subset DEF Saves, InQueue
  <2>2. QED
    BY <2>1, FS_CardinalityType, FS_RemoveElement
<1>4. Len(records) + Cardinality(Saves(rows)) <= MaxRecords /\ Cardinality(Saves(rows)) # 0
  BY <1>3, FS_EmptySet DEF Inv, Room
<1>5. c \in 0 .. MaxRecords /\ "ok" \in Answers /\ "QUEUED" \in Statuses
  BY <1>1, <1>3, <1>4 DEF Answers, Statuses
<1>6. w \in RowType /\ SameOpen(v, w) /\ w.ticket.answer = "ok" /\ w.ticket.rec = c /\ w.ticket.status = "QUEUED"
  <2> HIDE DEF c
  <2>1. QED
    BY <1>1, <1>5, AnsweredFacts DEF SameOpen
<1>7. rows' = [rows EXCEPT ![r] = w] /\ v.ticket.answer = "queued" /\ v.ticket.op = "CreateOutgoing"
  OBVIOUS
<1> HIDE DEF w, v
<1>8. RowOK(w) /\ ~InQueue(w.ticket)
  BY <1>1, <1>6, <1>7, AnsweredOK DEF InQueue
<1>9. Len(records') = Len(records) + 1
  BY <1>1
<1> HIDE DEF c, T
<1>10. RowInv(w, records', withdrawn, deletion.state, accepting, recovering, cursor)
  <2>1. /\ Recorded(v, records) /\ Silenced(v, withdrawn, accepting) /\ Backed(v, records, accepting, deletion.state)
        /\ Passed(v, records, accepting, recovering, cursor) /\ TicketOK(v) /\ PhaseOK(v)
    BY <1>1 DEF RowHolds, RowInv, RowOK
  <2>2. v.phase = "Saving" /\ v.rec = 0 /\ v.mask = {}
    BY <1>7, <2>1 DEF TicketOK, PhaseOK
  <2>3. w.phase = "Saving" /\ w.rec = 0 /\ w.mask = {} /\ w.ticket.op = "CreateOutgoing"
    BY <1>6, <1>7, <2>2 DEF SameOpen
  <2>4. Recorded(w, records')
    BY <1>2, <1>6, <2>3 DEF Recorded
  <2>5. Silenced(w, withdrawn, accepting)
    BY <1>1, <1>2, <1>6, <2>3 DEF Silenced, Claim
  <2>6. Backed(w, records', accepting, deletion.state)
    BY <2>3 DEF Backed, Served
  <2>7. Passed(w, records', accepting, recovering, cursor)
    BY <1>7, <2>1, <2>3 DEF Passed
  <2>8. QED
    BY <1>8, <2>4, <2>5, <2>6, <2>7 DEF RowInv
<1>11. ASSUME NEW q \in Rows \ {r}
       PROVE  RowInv(rows[q], records', withdrawn, deletion.state, accepting, recovering, cursor)
  <2>1. /\ Recorded(rows[q], records) /\ Silenced(rows[q], withdrawn, accepting)
        /\ Backed(rows[q], records, accepting, deletion.state)
        /\ Passed(rows[q], records, accepting, recovering, cursor) /\ RowOK(rows[q])
    BY <1>1 DEF RowHolds, RowInv
  <2>2. Recorded(rows[q], records')
    BY <1>2, <2>1 DEF Recorded
  <2>3. Backed(rows[q], records', accepting, deletion.state)
    BY <1>2, <2>1, Claimed DEF Backed
  <2>4. Passed(rows[q], records', accepting, recovering, cursor)
    BY <1>2, <2>1 DEF Passed
  <2>5. QED
    BY <2>1, <2>2, <2>3, <2>4 DEF RowInv
<1>12. Claim(w) = c /\ \A q \in Rows \ {r} : Claim(rows[q]) # Claim(w)
  <2>1. Claim(w) = c
    BY <1>6, <1>7 DEF Claim, SameOpen
  <2>2. c # 0
    BY <1>1 DEF c
  <2>3. QED
    BY <1>2, <2>1, <2>2, Claimed
<1>13. Room(rows', records')
  <2>1. Saves(rows') = Saves(rows) \ {r}
    BY <1>7, <1>8, InvFacts DEF Saves
  <2>2. Cardinality(Saves(rows')) = Cardinality(Saves(rows)) - 1
    BY <1>3, <2>1
  <2>3. QED
    BY <1>1, <1>3, <1>4, <1>9, <2>2 DEF Room
<1>14. records' \in Seq(Statuses \cup {"gone"}) /\ DOMAIN records \subseteq DOMAIN records'
  BY <1>2 DEF T
<1>15. QED
  BY <1>6, <1>7, <1>8, <1>10, <1>11, <1>12, <1>13, <1>14, AnsweredKeeps DEF v

Rewritten(r) == [records EXCEPT ![rows[r].ticket.rec] = rows[r].ticket.status]

LEMMA UpdatedKeeps ==
  ASSUME Inv, NEW r \in Rows, jobs # <<>>, r = Head(jobs), jobs' = Tail(jobs),
         rows[r].ticket.answer = "queued", rows[r].ticket.op = "UpdateStatus",
         records' = Rewritten(r),
         rows' = [rows EXCEPT ![r] = Answered(rows[r], "ok", rows[r].ticket.rec, rows[r].ticket.status)],
         UNCHANGED <<load, body, out, accepting, recovering, cursor, withdrawn, deletion, txQueue>>
  PROVE  Inv'
<1> DEFINE v == rows[r]
           c == v.ticket.rec
           s == v.ticket.status
           w == Answered(v, "ok", c, s)
<1>1. /\ v \in RowType /\ RowHolds(v) /\ RowOK(v) /\ records \in Seq(Statuses \cup {"gone"})
      /\ \A q \in Rows : RowHolds(rows[q]) /\ RowOK(rows[q])
  BY InvFacts
<1>2. /\ Recorded(v, records) /\ Silenced(v, withdrawn, accepting) /\ Backed(v, records, accepting, deletion.state)
      /\ Passed(v, records, accepting, recovering, cursor) /\ TicketOK(v) /\ PhaseOK(v)
  BY <1>1 DEF RowHolds, RowInv, RowOK
<1>3. c \in 0 .. MaxRecords /\ s \in Statuses /\ "ok" \in Answers /\ s # "gone"
  BY <1>1 DEF RowType, TicketType, Answers, Statuses
<1>4. w \in RowType /\ SameOpen(v, w) /\ w.ticket.answer = "ok" /\ w.ticket.rec = c /\ w.ticket.status = s
  <2> HIDE DEF v
  <2>1. QED
    BY <1>1, <1>3, AnsweredFacts DEF SameOpen
<1>5. rows' = [rows EXCEPT ![r] = w] /\ v.ticket.answer = "queued" /\ v.ticket.op = "UpdateStatus"
      /\ records' = [records EXCEPT ![c] = s]
  BY DEF Rewritten
<1>6. c = v.rec /\ c # 0 /\ c \in DOMAIN records /\ Claim(v) = c
  BY <1>2, <1>5 DEF TicketOK, Recorded, Claim
<1> HIDE DEF w, v, c, s
<1>7. RowOK(w) /\ ~InQueue(w.ticket)
  BY <1>1, <1>4, <1>5, AnsweredOK DEF InQueue, c, s
<1>8. /\ records' \in Seq(Statuses \cup {"gone"}) /\ DOMAIN records = DOMAIN records' /\ Len(records') = Len(records)
      /\ records'[c] = s /\ \A k \in DOMAIN records \ {c} : records'[k] = records[k]
  <2> DEFINE T == Statuses \cup {"gone"}
             n == Len(records)
  <2>1. records \in [1 .. n -> T] /\ n \in Nat /\ DOMAIN records = 1 .. n /\ s \in T /\ records \in Seq(T)
    BY <1>1, <1>3
  <2> HIDE DEF T, n
  <2>2. /\ records' \in [1 .. n -> T] /\ DOMAIN records' = 1 .. n /\ records'[c] = s
        /\ \A k \in DOMAIN records \ {c} : records'[k] = records[k]
    BY ONLY <1>5, <1>6, <2>1
  <2>3. records' \in Seq(T) /\ Len(records') = n
    BY ONLY <2>1, <2>2
  <2>4. QED
    BY <2>1, <2>2, <2>3 DEF T, n
<1>9. Claim(w) = c
  BY <1>4, <1>5, <1>6 DEF Claim, SameOpen
<1>10. RowInv(w, records', withdrawn, deletion.state, accepting, recovering, cursor)
  <2>1. w.rec = c /\ w.ticket.op = "UpdateStatus"
    BY <1>4, <1>5, <1>6 DEF SameOpen
  <2>2. Recorded(w, records')
    BY <1>4, <1>6, <1>8, <2>1 DEF Recorded
  <2>3. Silenced(w, withdrawn, accepting)
    BY <1>2, <1>4, <1>6, <1>9 DEF Silenced, SameOpen, Suppressed
  <2>4. Backed(w, records', accepting, deletion.state)
    BY <1>2, <1>3, <1>4, <1>5, <1>8, <2>1 DEF Backed, Served, SameOpen, Suppressed
  <2>5. Passed(w, records', accepting, recovering, cursor)
    BY <1>2, <1>4, <1>5, <2>1 DEF Passed, SameOpen, Found
  <2>6. QED
    BY <1>7, <2>2, <2>3, <2>4, <2>5 DEF RowInv
<1>11. ASSUME NEW q \in Rows \ {r}
       PROVE  RowInv(rows[q], records', withdrawn, deletion.state, accepting, recovering, cursor)
  <2>1. /\ Recorded(rows[q], records) /\ Silenced(rows[q], withdrawn, accepting)
        /\ Backed(rows[q], records, accepting, deletion.state)
        /\ Passed(rows[q], records, accepting, recovering, cursor) /\ RowOK(rows[q])
    BY <1>1 DEF RowHolds, RowInv
  <2>2. Claim(rows[q]) # c
    BY <1>6 DEF Inv, Apart, v
  <2>3. rows[q].rec # 0 => rows[q].rec # c /\ rows[q].rec \in DOMAIN records
    BY <2>2, Claimed
  <2>4. rows[q].ticket.op = "CreateOutgoing" => rows[q].ticket.rec # c
    BY <2>2 DEF Claim
  <2>5. Recorded(rows[q], records')
    BY <1>8, <2>1, <2>3, <2>4 DEF Recorded
  <2>6. Backed(rows[q], records', accepting, deletion.state)
    BY <1>8, <2>1, <2>3, Claimed DEF Backed
  <2>7. Passed(rows[q], records', accepting, recovering, cursor)
    <3>1. recovering => c <= cursor
      BY <1>2, <1>6 DEF Passed
    <3>2. recovering /\ Found(rows[q].ticket) => rows[q].ticket.rec # c
      <4>1. c \in Nat /\ cursor \in Nat
        BY <1>3, InvFacts
      <4>2. QED
        BY <2>1, <3>1, <4>1 DEF Passed
    <3>3. QED
      BY <1>8, <2>1, <3>2 DEF Passed
  <2>8. QED
    BY <2>1, <2>5, <2>6, <2>7 DEF RowInv
<1>12. Room(rows', records')
  <2>1. Saves(rows') \subseteq Saves(rows)
    BY <1>5, <1>7, InvFacts DEF Saves
  <2>2. QED
    BY <1>8, <2>1, RoomLess
<1>13. Claim(w) = Claim(rows[r])
  BY <1>6, <1>9 DEF v
<1>14. QED
  BY <1>4, <1>5, <1>7, <1>8, <1>10, <1>11, <1>12, <1>13, AnsweredKeeps DEF v

LEMMA AnswerIs ==
  ASSUME Inv, NEW r \in Rows, NEW answer, NEW rec, NEW status, Answer(r, answer, rec, status)
  PROVE  rows' = [rows EXCEPT ![r] = Answered(rows[r], answer, rec, status)]
<1>1. rows \in [Rows -> RowType] /\ rows[r] \in RowType
  BY InvFacts
<1>2. QED
  BY <1>1 DEF Answer, Answered, RowType

LEMMA ExecuteForKeeps ==
  ASSUME Inv, NEW r \in Rows, jobs # <<>>, r = Head(jobs), jobs' = Tail(jobs), ExecuteFor(r),
         UNCHANGED <<load, body, out, accepting, recovering, cursor, withdrawn, txQueue>>
  PROVE  Inv'
<1> DEFINE t == rows[r].ticket
<1>1. UNCHANGED deletion
  BY DEF ExecuteFor
<1>2. /\ rows[r] \in RowType /\ t \in TicketType /\ TicketOK(rows[r])
      /\ DOMAIN records = 1 .. Len(records) /\ Len(records) \in Nat /\ Len(records) <= MaxRecords /\ MaxRecords \in Nat
      /\ records \in Seq(Statuses \cup {"gone"}) /\ cursor \in Nat
  BY InvFacts DEF RowType, RowOK
<1>3. CASE t.answer = "cancelQueued" /\ Answer(r, "cancelled", t.rec, t.status) /\ UNCHANGED records
  BY <1>1, <1>3, AnswerIs, FailedKeeps
<1>4. CASE t.answer = "queued" /\ Answer(r, "failed", t.rec, t.status) /\ UNCHANGED records
  BY <1>1, <1>4, AnswerIs, FailedKeeps
<1>5. CASE /\ t.answer = "queued" /\ t.op = "CreateOutgoing"
           /\ records' = Append(records, "QUEUED")
           /\ Answer(r, "ok", Len(records) + 1, "QUEUED")
  BY <1>1, <1>5, AnswerIs, SavedKeeps
<1>6. CASE /\ t.answer = "queued" /\ t.op = "UpdateStatus" /\ Present(t.rec)
           /\ records[t.rec] \in {t.status} \cup (Statuses \ {"DELIVERED"})
           /\ records' = [records EXCEPT ![t.rec] = t.status]
           /\ Answer(r, "ok", t.rec, t.status)
  <2>1. rows' = [rows EXCEPT ![r] = Answered(rows[r], "ok", rows[r].ticket.rec, rows[r].ticket.status)]
    BY <1>6, AnswerIs
  <2>2. records' = Rewritten(r)
    BY <1>6 DEF Rewritten
  <2>3. rows[r].ticket.answer = "queued" /\ rows[r].ticket.op = "UpdateStatus"
    BY <1>6
  <2>4. QED
    BY <1>1, <2>1, <2>2, <2>3, UpdatedKeeps
<1>7. CASE /\ t.answer = "queued" /\ t.op = "ReadPending"
           /\ IF NextPending = {} THEN Answer(r, "ok", 0, "QUEUED")
              ELSE \E answer \in {"ok", "invalid", "unsendable"} :
                     LET c == CHOOSE c \in NextPending : \A d \in NextPending : c <= d
                     IN Answer(r, answer, c, records[c])
           /\ UNCHANGED records
  <2>1. CASE NextPending = {}
    <3>1. 0 \in 0 .. MaxRecords /\ "QUEUED" \in Statuses
      BY <1>2 DEF Statuses
    <3>2. QED
      BY <1>1, <1>7, <2>1, <3>1, AnswerIs, ReadKeeps
  <2>2. CASE NextPending # {}
    <3> DEFINE c == CHOOSE c \in NextPending : \A d \in NextPending : c <= d
    <3>1. NextPending \in SUBSET Nat
      BY <1>2 DEF NextPending
    <3>2. c \in NextPending
      BY <2>2, <3>1, Least
    <3>3. PICK answer \in {"ok", "invalid", "unsendable"} : Answer(r, answer, c, records[c])
      BY <1>7, <2>2
    <3> HIDE DEF c
    <3>4. c \in DOMAIN records /\ c > cursor /\ records[c] \in {"QUEUED", "SENDING"}
      BY <3>2 DEF NextPending
    <3>5. c \in 0 .. MaxRecords /\ records[c] \in Statuses
      BY <1>2, <3>4 DEF Statuses
    <3>6. QED
      BY <1>1, <1>7, <3>3, <3>4, <3>5, AnswerIs, ReadKeeps
  <2>3. QED
    BY <2>1, <2>2
<1>8. CASE /\ t.answer = "queued" /\ t.op = "ReadRecord" /\ Present(t.rec)
           /\ \E answer \in {"ok", "invalid", "foreign"} : Answer(r, answer, t.rec, t.status)
           /\ UNCHANGED records
  <2>1. PICK answer \in {"ok", "invalid", "foreign"} : Answer(r, answer, t.rec, t.status)
    BY <1>8
  <2>2. t.rec \in 0 .. MaxRecords /\ t.status \in Statuses /\ records[t.rec] # "gone"
    BY <1>2, <1>8 DEF TicketType, Present
  <2>3. QED
    BY <1>1, <1>8, <2>1, <2>2, AnswerIs, ReadKeeps
<1>9. QED
  BY <1>3, <1>4, <1>5, <1>6, <1>7, <1>8 DEF ExecuteFor

LEMMA ExecuteDeletionKeeps ==
  ASSUME Inv, jobs # <<>>, Head(jobs) = NoRow, jobs' = Tail(jobs), ExecuteDeletion,
         UNCHANGED <<load, body, out, accepting, recovering, cursor, withdrawn, txQueue>>
  PROVE  Inv'
<1>1. /\ UNCHANGED rows /\ deletion'.state \in {"ok", "failed"}
      /\ \/ deletion'.state = "ok" /\ records' = [c \in DOMAIN records |-> "gone"]
         \/ UNCHANGED records
  BY DEF ExecuteDeletion
<1>2. /\ rows \in [Rows -> RowType] /\ (\A q \in Rows : RowHolds(rows[q]))
      /\ records \in Seq(Statuses \cup {"gone"}) /\ DOMAIN records = 1 .. Len(records) /\ Len(records) \in Nat
      /\ deletion.state = "queued"
  BY InvFacts, OldestFacts
<1>3. /\ records' \in Seq(Statuses \cup {"gone"}) /\ DOMAIN records' = DOMAIN records /\ Len(records') = Len(records)
      /\ \A c \in DOMAIN records : records'[c] \in {records[c], "gone"}
  <2>1. CASE records' = [c \in DOMAIN records |-> "gone"]
    <3>1. records' \in [1 .. Len(records) -> Statuses \cup {"gone"}] /\ DOMAIN records' = 1 .. Len(records)
      BY <1>2, <2>1
    <3>2. QED
      BY <1>2, <2>1, <3>1
  <2>2. QED
    BY <1>1, <1>2, <2>1
<1>4. ASSUME NEW q \in Rows
      PROVE  RowInv(rows[q], records', withdrawn, deletion'.state, accepting, recovering, cursor)
  <2>1. /\ Recorded(rows[q], records) /\ Silenced(rows[q], withdrawn, accepting)
        /\ Backed(rows[q], records, accepting, deletion.state)
        /\ Passed(rows[q], records, accepting, recovering, cursor) /\ RowOK(rows[q])
    BY <1>2 DEF RowHolds, RowInv
  <2>2. Recorded(rows[q], records')
    BY <1>3, <2>1 DEF Recorded
  <2>3. Backed(rows[q], records', accepting, deletion'.state)
    BY <1>1, <1>2, <2>1 DEF Backed
  <2>4. Passed(rows[q], records', accepting, recovering, cursor)
    BY <1>3, <2>1 DEF Passed
  <2>5. QED
    BY <2>1, <2>2, <2>3, <2>4 DEF RowInv
<1>5. RowsInv(rows', records', withdrawn', deletion'.state, accepting', recovering', cursor')
  BY <1>1, <1>4 DEF RowsInv
<1>6. StoreType' /\ EngineType'
  BY <1>1, <1>3 DEF Inv, StoreType, EngineType
<1>7. JobsInv(jobs', rows', deletion'.state)
  <2>1. \A q \in Rows : InQueue(rows'[q].ticket) <=> InQueue(rows[q].ticket) /\ q # Head(jobs)
    BY <1>1, InvFacts
  <2>2. deletion'.state = "queued" <=> deletion.state = "queued" /\ Head(jobs) # NoRow
    BY <1>1
  <2>3. QED
    BY <2>1, <2>2, JobsDone
<1>8. Apart(rows') /\ Shared(rows', body', out') /\ FramesInv(txQueue', rows') /\ rows' \in [Rows -> RowType]
  BY <1>1, <1>2 DEF Inv
<1>9. Room(rows', records')
  BY <1>1, <1>3, RoomLess DEF Saves
<1>10. QED
  BY <1>5, <1>6, <1>7, <1>8, <1>9, Assemble

LEMMA StoreExecuteKeeps ==
  ASSUME Inv, StoreExecute
  PROVE  Inv'
<1>1. /\ jobs # <<>> /\ jobs' = Tail(jobs)
      /\ UNCHANGED <<load, body, out, accepting, recovering, cursor, withdrawn, txQueue>>
  BY DEF StoreExecute, radioVars
<1>2. CASE Head(jobs) = NoRow
  BY <1>1, <1>2, ExecuteDeletionKeeps DEF StoreExecute
<1>3. CASE Head(jobs) # NoRow
  <2>1. Head(jobs) \in Rows /\ ExecuteFor(Head(jobs))
    BY <1>1, <1>3, OldestFacts DEF StoreExecute
  <2>2. QED
    BY <1>1, <2>1, ExecuteForKeeps
<1>4. QED
  BY <1>2, <1>3


\* The records of rows are other than those a row not among them is about.
LEMMA RecordsApart ==
  ASSUME Inv, NEW S \in SUBSET Rows, NEW q \in Rows, q \notin S \/ rows[q].rec = 0
  PROVE  Claim(rows[q]) \notin RecordsOf(S)
<1>1. ASSUME NEW p \in S, rows[p].rec # 0, Claim(rows[q]) = rows[p].rec
      PROVE  FALSE
  <2>1. p \in Rows /\ p # q /\ Claim(rows[p]) = rows[p].rec
    BY <1>1, Claimed
  <2>2. QED
    BY <1>1, <2>1 DEF Inv, Apart
<1>2. QED
  BY <1>1 DEF RecordsOf

\* What the rows are about can be withdrawn.
LEMMA RecordsWithdrawn ==
  ASSUME Inv, NEW S \in SUBSET Rows
  PROVE  /\ RecordsOf(S) \subseteq DOMAIN records /\ 0 \notin RecordsOf(S)
         /\ recovering => \A c \in RecordsOf(S) : c <= cursor
<1>1. \A p \in S : rows[p].rec # 0 => rows[p].rec \in DOMAIN records
  BY Claimed
<1>2. \A p \in S : recovering => rows[p].rec <= cursor
  BY InvFacts DEF RowHolds, RowInv, Passed
<1>3. QED
  BY <1>1, <1>2 DEF RecordsOf

\* What cancel makes of the rows.
CancelledRows(S, F) == [r \in Rows |-> IF r \in S THEN CancelledWith(rows[r], F) ELSE rows[r]]

\* Rows may be cancelled together, and a deletion requested with them if they
\* are all that have a record.
LEMMA CancelledKeeps ==
  ASSUME Inv, NEW S \in SUBSET Rows, \A r \in S : rows[r].phase # "Free",
         NEW F \in SUBSET {"DeletePending"}, rows' = CancelledRows(S, F),
         body' = IF body \in S THEN NoRow ELSE body, out' = IF out \in S THEN NoRow ELSE out,
         withdrawn' = withdrawn \cup RecordsOf(S),
         UNCHANGED <<load, records, accepting, recovering, cursor, txQueue>>,
         deletion'.state \in {"none", "queued", "ok", "failed"},
         JobsInv(jobs, rows, deletion.state) /\ (\A r \in Rows : InQueue(rows'[r].ticket) <=> InQueue(rows[r].ticket))
           => JobsInv(jobs', rows', deletion'.state),
         deletion'.state = deletion.state \/ (\A r \in Rows \ S : rows[r].rec = 0)
  PROVE  Inv'
<1>1. \A r \in Rows : rows[r] \in RowType /\ RowHolds(rows[r]) /\ RowOK(rows[r])
  BY InvFacts
<1>2. \A r \in Rows : rows'[r] = IF r \in S THEN CancelledWith(rows[r], F) ELSE rows[r]
  BY DEF CancelledRows
<1>3. ASSUME NEW r \in S
      PROVE  /\ RowInv(rows'[r], records, withdrawn', deletion'.state, accepting, recovering, cursor)
             /\ rows'[r] \in RowType
             /\ Claim(rows'[r]) = Claim(rows[r]) /\ rows'[r].rec = rows[r].rec /\ rows'[r].queued = rows[r].queued
             /\ rows'[r].ticket.op = rows[r].ticket.op
             /\ InQueue(rows'[r].ticket) <=> InQueue(rows[r].ticket)
             /\ rows'[r].phase \notin {"Reading", "Resource"}
             /\ rows'[r].phase = "Query" => rows[r].phase = "Query"
  <2> DEFINE v == rows[r]
             w == rows'[r]
             state2 == deletion'.state
             gone2 == withdrawn'
  <2>1. w = CancelledWith(v, F) /\ v.phase # "Free" /\ RowHolds(v) /\ RowOK(v)
    BY <1>1, <1>2
  <2>2. accepting /\ v.ticket.op = "CreateOutgoing" => Claim(v) \notin gone2
    <3>1. v.ticket.op = "CreateOutgoing" => v.rec = 0
      BY <2>1 DEF RowOK, TicketOK, PhaseOK
    <3>2. v.ticket.op = "CreateOutgoing" => Claim(v) \notin RecordsOf(S)
      BY <3>1, RecordsApart
    <3>3. accepting /\ v.ticket.op = "CreateOutgoing" => Claim(v) \notin withdrawn
      BY <2>1 DEF RowHolds, RowInv, Silenced
    <3>4. QED
      BY <3>2, <3>3
  <2>3. RowInv(v, records, withdrawn, deletion.state, accepting, recovering, cursor)
    BY <2>1 DEF RowHolds
  <2>4. /\ RowInv(w, records, gone2, state2, accepting, recovering, cursor)
        /\ Claim(w) = Claim(v) /\ w.rec = v.rec /\ w.queued = v.queued /\ w.ticket.op = v.ticket.op
        /\ InQueue(w.ticket) <=> InQueue(v.ticket)
        /\ w.phase \notin {"Reading", "Resource"} /\ (w.phase = "Query" => v.phase = "Query")
    <3>1. /\ accepting => accepting /\ (v.ticket.op = "CreateOutgoing" => Claim(v) \notin gone2) /\ (recovering => recovering)
          /\ recovering => recovering
      BY <2>2
    <3>2. F \in SUBSET {"DeletePending"}
      OBVIOUS
    <3> HIDE DEF v, w, state2, gone2
    <3>3. QED
      BY ONLY <2>1, <2>3, <3>1, <3>2, CancelRow
  <2>5. QED
    BY <2>4 DEF RowInv, RowOK
<1>4. ASSUME NEW r \in Rows \ S
      PROVE  RowInv(rows'[r], records, withdrawn', deletion'.state, accepting, recovering, cursor)
  <2>1. /\ Recorded(rows[r], records) /\ Silenced(rows[r], withdrawn, accepting)
        /\ Backed(rows[r], records, accepting, deletion.state)
        /\ Passed(rows[r], records, accepting, recovering, cursor) /\ RowOK(rows[r])
    BY <1>1 DEF RowHolds, RowInv
  <2>2. Silenced(rows[r], withdrawn', accepting)
    BY <2>1, RecordsApart DEF Silenced
  <2>3. Backed(rows[r], records, accepting, deletion'.state)
    BY <2>1, Claimed DEF Backed, RowOK, TicketOK
  <2>4. rows'[r] = rows[r]
    BY <1>2
  <2>5. QED
    BY <2>1, <2>2, <2>3, <2>4 DEF RowInv
<1>5. RowsInv(rows', records', withdrawn', deletion'.state, accepting', recovering', cursor')
  BY <1>3, <1>4 DEF RowsInv
<1>6. rows' \in [Rows -> RowType]
  <2>1. \A r \in Rows : rows'[r] \in RowType
    BY <1>1, <1>2, <1>3
  <2>2. QED
    BY <2>1 DEF CancelledRows
<1>7. \A r \in Rows : Claim(rows'[r]) = Claim(rows[r]) /\ rows'[r].rec = rows[r].rec /\ rows'[r].queued = rows[r].queued
                    /\ rows'[r].ticket.op = rows[r].ticket.op
                    /\ (InQueue(rows'[r].ticket) <=> InQueue(rows[r].ticket))
                    /\ (rows'[r].phase = "Query" => rows[r].phase = "Query")
  BY <1>2, <1>3
<1>8. Apart(rows')
  BY <1>7 DEF Inv, Apart
<1>9. Shared(rows', body', out')
  <2>1. NoRow \notin Rows /\ Shared(rows, body, out)
    BY InvFacts DEF Inv
  <2>2. \A r \in Rows : /\ rows'[r].phase = "Reading" <=> r \notin S /\ rows[r].phase = "Reading"
                        /\ rows'[r].phase = "Resource" <=> r \notin S /\ rows[r].phase = "Resource"
    BY <1>2, <1>3
  <2>3. QED
    BY <2>1, <2>2 DEF Shared
<1>10. JobsInv(jobs', rows', deletion'.state)
  BY <1>7 DEF Inv
<1>11. FramesInv(txQueue', rows')
  BY <1>7, FramesSame
<1>12. Room(rows', records')
  <2>1. Saves(rows') \subseteq Saves(rows)
    BY <1>7 DEF Saves
  <2>2. QED
    BY <2>1, RoomLess
<1>13. StoreType' /\ EngineType'
  BY RecordsWithdrawn DEF Inv, StoreType, EngineType
<1>14. QED
  BY <1>5, <1>6, <1>8, <1>9, <1>10, <1>11, <1>12, <1>13, Assemble

LEMMA CancelKeeps ==
  ASSUME Inv, NEW r \in Rows, Cancel(r)
  PROVE  Inv'
<1>1. /\ rows[r].phase # "Free" /\ CancelRows({r}, {})
      /\ UNCHANGED <<load, records, jobs, deletion, accepting, recovering, cursor, txQueue>>
  BY DEF Cancel, Used, store, radioVars
<1>2. rows' = CancelledRows({r}, {}) /\ withdrawn' = withdrawn \cup RecordsOf({r})
  BY <1>1 DEF CancelRows, CancelledRows, CancelledWith
<1>3. body' = (IF body \in {r} THEN NoRow ELSE body) /\ out' = IF out \in {r} THEN NoRow ELSE out
  BY <1>1 DEF CancelRows
<1>4. JobsInv(jobs, rows, deletion.state) /\ (\A q \in Rows : InQueue(rows'[q].ticket) <=> InQueue(rows[q].ticket))
        => JobsInv(jobs', rows', deletion'.state)
  BY <1>1, JobsSame
<1>5. {r} \in SUBSET Rows /\ {} \in SUBSET {"DeletePending"} /\ (\A q \in {r} : rows[q].phase # "Free")
  BY <1>1
<1>6. deletion'.state \in {"none", "queued", "ok", "failed"} /\ deletion'.state = deletion.state
  BY <1>1 DEF Inv, StoreType
<1>7. QED
  BY <1>1, <1>2, <1>3, <1>4, <1>5, <1>6, CancelledKeeps

LEMMA BeginPeerDeleteKeeps ==
  ASSUME Inv, BeginPeerDelete
  PROVE  Inv'
<1> DEFINE S == {r \in Rows : OfPeer(r)}
<1>1. deletion.state = "none" /\ UNCHANGED <<load, records, accepting, recovering, cursor, txQueue>>
  BY DEF BeginPeerDelete, NoDeletion, radioVars
<1>2. PICK taken \in BOOLEAN :
        /\ CancelRows(S, IF taken THEN {"DeletePending"} ELSE {})
        /\ IF taken THEN jobs' = Append(jobs, NoRow) /\ deletion' = [state |-> "queued", through |-> 0]
           ELSE UNCHANGED <<jobs, deletion>>
  BY DEF BeginPeerDelete
<1>3. PICK F \in SUBSET {"DeletePending"} : F = IF taken THEN {"DeletePending"} ELSE {}
  OBVIOUS
<1>4. /\ S \in SUBSET Rows /\ \A r \in S : rows[r].phase # "Free"
      /\ \A r \in Rows \ S : rows[r].rec = 0
  <2>1. \A r \in Rows : rows[r].phase = "Free" => rows[r].rec = 0
    BY InvFacts DEF RowOK, PhaseOK
  <2>2. QED
    BY <2>1 DEF OfPeer, Used
<1>5. rows' = CancelledRows(S, F)
  BY <1>2, <1>3 DEF CancelRows, CancelledRows, CancelledWith
<1>6. /\ body' = IF body \in S THEN NoRow ELSE body
      /\ out' = IF out \in S THEN NoRow ELSE out
      /\ withdrawn' = withdrawn \cup RecordsOf(S)
  BY <1>2 DEF CancelRows
<1>7. deletion'.state \in {"none", "queued", "ok", "failed"}
  BY <1>1, <1>2
<1>8. JobsInv(jobs, rows, deletion.state) /\ (\A r \in Rows : InQueue(rows'[r].ticket) <=> InQueue(rows[r].ticket))
        => JobsInv(jobs', rows', deletion'.state)
  <2>1. CASE ~taken
    BY <1>2, <2>1, JobsSame
  <2>2. CASE taken
    <3>1. NoRow \notin ToSet(jobs) /\ NoRow \notin Rows
      BY <1>1, InvFacts DEF Inv, JobsInv
    <3>2. ASSUME \A r \in Rows : InQueue(rows'[r].ticket) <=> InQueue(rows[r].ticket)
          PROVE  JobsInv(jobs', rows', deletion'.state)
      <4>1. \A r \in Rows : InQueue(rows'[r].ticket) <=> InQueue(rows[r].ticket) \/ r = NoRow
        BY <3>1, <3>2
      <4>2. deletion'.state = "queued" <=> deletion.state = "queued" \/ NoRow = NoRow
        BY <1>2, <2>2
      <4>3. jobs' = Append(jobs, NoRow)
        BY <1>2, <2>2
      <4>4. QED
        BY <3>1, <4>1, <4>2, <4>3, JobsAdded
    <3>3. QED
      BY <3>2
  <2>3. QED
    BY <2>1, <2>2
<1> HIDE DEF S
<1>9. QED
  BY <1>1, <1>4, <1>5, <1>6, <1>7, <1>8, CancelledKeeps

\* A row at the stop.
LEMMA StoppedRow ==
  ASSUME Inv, NEW r \in Rows, rows[r].phase # "Free", NEW gone2, NEW running2, ~running2, NEW on2, ~on2,
         NEW w, w = Stopped(rows[r])
  PROVE  /\ RowInv(w, records, gone2, deletion.state, running2, on2, cursor) /\ w \in RowType
         /\ Claim(w) = Claim(rows[r]) /\ w.rec = rows[r].rec /\ w.queued = rows[r].queued
         /\ w.ticket.op = rows[r].ticket.op
         /\ InQueue(w.ticket) <=> InQueue(rows[r].ticket)
         /\ w.phase \notin {"Reading", "Resource"} /\ (w.phase = "Query" => rows[r].phase = "Query")
<1> DEFINE v == rows[r]
           u == IF v.desired = "SENT" THEN WithStatus(v, "QUEUED") ELSE v
<1>1. RowHolds(v) /\ RowOK(v) /\ v \in RowType /\ "QUEUED" \in Statuses
  BY InvFacts DEF Statuses
<1>2. RowOK(u) /\ Follows(v, u) /\ u.phase = v.phase /\ u.queued = v.queued
  <2>1. RowOK(WithStatus(v, "QUEUED")) /\ Follows(v, WithStatus(v, "QUEUED"))
        /\ WithStatus(v, "QUEUED").phase = v.phase /\ WithStatus(v, "QUEUED").queued = v.queued
    <3> HIDE DEF v
    <3>1. v.phase # "Free"
      BY DEF v
    <3>2. QED
      BY <1>1, <3>1, RequeuedRow
  <2>2. RowOK(v) /\ Follows(v, v)
    BY SameRow
  <2>3. QED
    BY <2>1, <2>2
<1>3. u.rec = v.rec /\ u.ticket = v.ticket /\ Claim(u) = Claim(v)
  BY <1>2 DEF Follows, Claim
<1>4. RowInv(v, records, withdrawn, deletion.state, accepting, recovering, cursor)
  BY <1>1 DEF RowHolds
<1>5. w = Cancelled(u) /\ u \in RowType /\ u.phase # "Free"
  BY <1>2 DEF Stopped, RowOK
<1> HIDE DEF v, u
<1>6. RowInv(u, records, withdrawn, deletion.state, accepting, recovering, cursor)
  BY <1>2, <1>4, FollowsKeeps
<1>7. w = CancelledWith(u, {})
  BY <1>5 DEF CancelledWith, Cancelled, RowType
<1>8. /\ running2 => accepting /\ (u.ticket.op = "CreateOutgoing" => Claim(u) \notin gone2) /\ (recovering => on2)
      /\ on2 => recovering
  OBVIOUS
<1>9. {} \in SUBSET {"DeletePending"}
  OBVIOUS
<1>10. /\ RowInv(w, records, gone2, deletion.state, running2, on2, cursor)
       /\ Claim(w) = Claim(u) /\ w.rec = u.rec /\ w.queued = u.queued /\ w.ticket.op = u.ticket.op
       /\ InQueue(w.ticket) <=> InQueue(u.ticket)
       /\ w.phase \notin {"Reading", "Resource"} /\ (w.phase = "Query" => u.phase = "Query")
  BY ONLY <1>5, <1>6, <1>7, <1>8, <1>9, CancelRow
<1>11. QED
  BY <1>2, <1>3, <1>10 DEF v, RowInv, RowOK

LEMMA StopAdmissionsKeeps ==
  ASSUME Inv, StopAdmissions
  PROVE  Inv'
<1>1. /\ accepting' = FALSE /\ recovering' = FALSE /\ body' = NoRow /\ out' = NoRow
      /\ rows' = [r \in Rows |-> IF rows[r].phase # "Free" THEN Stopped(rows[r]) ELSE rows[r]]
      /\ withdrawn' = withdrawn \cup RecordsOf(Rows)
      /\ UNCHANGED <<load, cursor, records, jobs, deletion, txQueue>>
  BY DEF StopAdmissions, Used, store, radioVars
<1>2. ASSUME NEW r \in Rows
      PROVE  /\ RowInv(rows'[r], records, withdrawn', deletion.state, accepting', recovering', cursor) /\ rows'[r] \in RowType
             /\ Claim(rows'[r]) = Claim(rows[r]) /\ rows'[r].rec = rows[r].rec /\ rows'[r].queued = rows[r].queued
             /\ rows'[r].ticket.op = rows[r].ticket.op
             /\ InQueue(rows'[r].ticket) <=> InQueue(rows[r].ticket)
             /\ rows'[r].phase \notin {"Reading", "Resource"}
             /\ rows'[r].phase = "Query" => rows[r].phase = "Query"
  <2>1. CASE rows[r].phase # "Free"
    <3>1. rows'[r] = Stopped(rows[r])
      BY <1>1, <2>1
    <3>2. ~accepting' /\ ~recovering'
      BY <1>1
    <3>3. QED
      BY <2>1, <3>1, <3>2, StoppedRow
  <2>2. CASE rows[r].phase = "Free"
    <3>1. rows'[r] = rows[r] /\ rows[r] \in RowType /\ RowHolds(rows[r])
      BY <1>1, <2>2, InvFacts
    <3>2. RowInv(rows[r], records, withdrawn', deletion.state, accepting', recovering', cursor)
      BY <1>1, <3>1 DEF RowHolds, RowInv, Silenced, Backed, Passed
    <3>3. QED
      BY <2>2, <3>1, <3>2
  <2>3. QED
    BY <2>1, <2>2
<1>3. rows' \in [Rows -> RowType]
  BY <1>1, <1>2
<1>4. RowsInv(rows', records', withdrawn', deletion'.state, accepting', recovering', cursor')
  BY <1>1, <1>2 DEF RowsInv
<1>5. Apart(rows')
  <2>1. \A r \in Rows : Claim(rows'[r]) = Claim(rows[r]) /\ (rows'[r].phase = "Query" => rows[r].phase = "Query")
    BY <1>2
  <2>2. QED
    BY <2>1 DEF Inv, Apart
<1>6. Shared(rows', body', out')
  BY <1>1, <1>2, InvFacts DEF Shared
<1>7. JobsInv(jobs', rows', deletion'.state)
  BY <1>1, <1>2, JobsSame DEF Inv
<1>8. FramesInv(txQueue', rows')
  BY <1>1, <1>2, FramesSame
<1>9. Room(rows', records')
  <2>1. Saves(rows') \subseteq Saves(rows)
    BY <1>2 DEF Saves
  <2>2. QED
    BY <1>1, <2>1, RoomLess
<1>10. StoreType' /\ EngineType'
  BY <1>1, RecordsWithdrawn DEF Inv, StoreType, EngineType
<1>11. QED
  BY <1>1, <1>3, <1>4, <1>5, <1>6, <1>7, <1>8, <1>9, <1>10, Assemble

LEMMA FinishPeerDeleteKeeps ==
  ASSUME Inv, FinishPeerDelete
  PROVE  Inv'
<1>1. /\ deletion.state \in {"ok", "failed"} /\ deletion' = NoDeletion
      /\ rows' = [r \in Rows |-> IF OfPeer(r) /\ "DeletePending" \in rows[r].flags THEN MarkDeleted(rows[r]) ELSE rows[r]]
      /\ UNCHANGED <<load, body, out, accepting, recovering, cursor, records, jobs, withdrawn, txQueue>>
  BY DEF FinishPeerDelete, radioVars, Has
<1>2. ASSUME NEW r \in Rows
      PROVE  /\ RowOK(rows'[r]) /\ Follows(rows[r], rows'[r])
             /\ rows'[r].phase = rows[r].phase /\ rows'[r].queued = rows[r].queued
  <2>1. rows'[r] = IF OfPeer(r) /\ "DeletePending" \in rows[r].flags THEN MarkDeleted(rows[r]) ELSE rows[r]
    BY <1>1
  <2>2. QED
    BY <2>1, InvFacts, SameRow, DeletedRow
<1>3. rows' \in [Rows -> RowType]
  <2>1. \A r \in Rows : rows'[r] \in RowType
    BY <1>2 DEF RowOK
  <2>2. QED
    BY <1>1, <2>1
<1>4. Shared(rows', body', out')
  BY <1>1, <1>2, SharedSame
<1>5. FramesInv(txQueue', rows')
  <2>1. \A q \in Rows : rows'[q].rec = rows[q].rec
    BY <1>2 DEF Follows
  <2>2. QED
    BY <1>1, <1>2, <2>1, FramesSame
<1>6. deletion.state # "queued" /\ deletion'.state \in {"none", "ok", "failed"}
  BY <1>1 DEF NoDeletion
<1>7. QED
  BY <1>1, <1>2, <1>3, <1>4, <1>5, <1>6, QuietRows

LEMMA BeginKeeps ==
  ASSUME Inv, Begin
  PROVE  Inv'
<1>1. /\ deletion.state = "none" /\ \A r \in Rows : rows[r].phase = "Free"
      /\ accepting' = TRUE /\ recovering' = TRUE /\ cursor' = 0 /\ withdrawn' = {}
      /\ UNCHANGED <<load, rows, body, out, records, jobs, deletion, txQueue>>
  BY DEF Begin, Drained, NoDeletion, Used, store, radioVars
<1>2. ASSUME NEW r \in Rows
      PROVE  RowInv(rows[r], records, {}, deletion.state, TRUE, TRUE, 0)
  <2>1. RowOK(rows[r]) /\ RowHolds(rows[r]) /\ rows[r].phase = "Free"
    BY <1>1, InvFacts
  <2>2. rows[r].rec = 0 /\ rows[r].ticket = NoTicket /\ rows[r].mask = {}
    BY <2>1 DEF RowOK, PhaseOK
  <2>3. Silenced(rows[r], {}, TRUE) /\ Recorded(rows[r], records)
    BY <2>1 DEF Silenced, RowHolds, RowInv
  <2>4. Backed(rows[r], records, TRUE, deletion.state)
    BY <2>1, <2>2, NoTicketFacts DEF Backed, Served
  <2>5. Passed(rows[r], records, TRUE, TRUE, 0)
    BY <2>1, <2>2, NoTicketFacts DEF Passed, Found
  <2>6. QED
    BY <2>1, <2>3, <2>4, <2>5 DEF RowInv
<1>3. RowsInv(rows', records', withdrawn', deletion'.state, accepting', recovering', cursor')
  BY <1>1, <1>2 DEF RowsInv
<1>4. StoreType' /\ EngineType'
  BY <1>1, InvFacts DEF Inv, StoreType, EngineType
<1>5. /\ rows' \in [Rows -> RowType] /\ Apart(rows') /\ Shared(rows', body', out')
      /\ JobsInv(jobs', rows', deletion'.state) /\ FramesInv(txQueue', rows') /\ Room(rows', records')
  BY <1>1 DEF Inv
<1>6. QED
  BY <1>1, <1>3, <1>4, <1>5, Assemble

LEMMA InitInv ==
  ASSUME Init
  PROVE  Inv
<1>1. /\ load \in Loads /\ txQueue = <<>> /\ rows = [r \in Rows |-> FreeRow] /\ body = NoRow /\ out = NoRow
      /\ accepting = FALSE /\ recovering = FALSE /\ cursor = 0 /\ deletion.state = "none" /\ jobs = <<>>
      /\ withdrawn = {}
  BY DEF Init, NoDeletion
<1>2. PICK n \in 0 .. load.pending : records \in [1 .. n -> {"QUEUED", "SENDING"}]
  BY DEF Init
<1>3. n \in Nat /\ n <= MaxRecords /\ MaxRecords \in Nat /\ IsFiniteSet(Rows) /\ NoRow \notin Rows
  BY <1>1, <1>2, EngineAssumption
<1>4. records \in Seq(Statuses \cup {"gone"}) /\ Len(records) = n
  <2>1. records \in [1 .. n -> Statuses \cup {"gone"}]
    BY <1>2 DEF Statuses
  <2>2. QED
    BY <1>2, <1>3, <2>1
<1>5. StoreType
  BY <1>1, <1>3, <1>4 DEF StoreType
<1>6. EngineType
  <2>1. accepting \in BOOLEAN /\ recovering \in BOOLEAN /\ ~recovering
    BY <1>1
  <2>2. QED
    BY <1>1, <1>3, <2>1 DEF EngineType
<1>7. ProofAttempts \in Nat
  BY <1>6, LoadFacts
<1>8. /\ FreeRow \in RowType /\ FreeRow.phase = "Free" /\ FreeRow.rec = 0 /\ FreeRow.queued = 0
      /\ FreeRow.ticket = NoTicket /\ Claim(FreeRow) = 0
      /\ RowInv(FreeRow, records, withdrawn, deletion.state, accepting, recovering, cursor)
  BY <1>1, <1>7, FreeRowInv
<1>9. rows \in [Rows -> RowType] /\ \A r \in Rows : rows[r] = FreeRow
  BY <1>1, <1>8
<1>10. RowsInv(rows, records, withdrawn, deletion.state, accepting, recovering, cursor)
  BY <1>8, <1>9 DEF RowsInv
<1>11. Apart(rows)
  BY <1>8, <1>9 DEF Apart
<1>12. Shared(rows, body, out)
  BY <1>1, <1>3, <1>8, <1>9 DEF Shared
<1>13. JobsInv(jobs, rows, deletion.state)
  <2>1. jobs \in Seq(Rows \cup {NoRow}) /\ DOMAIN jobs = {} /\ ToSet(jobs) = {}
    BY <1>1 DEF ToSet
  <2>2. QED
    BY <1>1, <1>8, <1>9, <2>1, NoTicketFacts DEF JobsInv
<1>14. FramesInv(txQueue, rows)
  <2>1. txQueue \in Seq(FrameType) /\ DOMAIN txQueue = {} /\ ToSet(txQueue) = {}
    BY <1>1 DEF ToSet
  <2>2. \A r : CountOf(txQueue, r) = 0
    BY <2>1, CountIsNat
  <2>3. QED
    BY <1>8, <1>9, <2>1, <2>2 DEF FramesInv
<1>15. Room(rows, records)
  <2>1. Saves(rows) = {}
    BY <1>8, <1>9, NoTicketFacts DEF Saves
  <2>2. QED
    BY <1>3, <1>4, <2>1, FS_EmptySet DEF Room
<1>16. QED
  BY <1>5, <1>6, <1>9, <1>10, <1>11, <1>12, <1>13, <1>14, <1>15 DEF Inv

-----------------------------------------------------------------------------
(* The invariant, and what it says.                                        *)

LEMMA StutterKeeps ==
  ASSUME Inv, UNCHANGED vars
  PROVE  Inv'
<1>1. PICK r \in Rows : TRUE
  BY EngineAssumption
<1>2. /\ UNCHANGED <<load, store, accepting, recovering, cursor, withdrawn, txQueue>>
      /\ UNCHANGED <<rows, body, out>>
  BY DEF vars, engine, history, radioVars
<1>3. rows' = [rows EXCEPT ![r] = rows[r]] /\ RowOK(rows[r]) /\ Follows(rows[r], rows[r])
  BY <1>2, SameRow
<1>4. Shared(rows', body', out')
  BY <1>2 DEF Inv
<1>5. QED
  BY <1>2, <1>3, <1>4, QuietRow

LEMMA NextInv ==
  ASSUME Inv, [Next]_vars
  PROVE  Inv'
<1>1. CASE Begin
  BY <1>1, BeginKeeps
<1>2. CASE StopAdmissions
  BY <1>2, StopAdmissionsKeeps
<1>3. CASE BeginPeerDelete
  BY <1>3, BeginPeerDeleteKeeps
<1>4. CASE FinishPeerDelete
  BY <1>4, FinishPeerDeleteKeeps
<1>5. CASE StoreExecute
  BY <1>5, StoreExecuteKeeps
<1>6. ASSUME NEW r \in Rows,
             \/ Submit(r) \/ Acknowledge(r) \/ Cancel(r) \/ SettleStorage(r) \/ Advance(r) \/ Recover(r)
             \/ OnProof(r) \/ SendPart(r) \/ ResourceOutcome(r)
      PROVE  Inv'
  <2>1. CASE Submit(r)
    BY <2>1, SubmitKeeps
  <2>2. CASE Acknowledge(r)
    BY <2>2, AcknowledgeKeeps
  <2>3. CASE Cancel(r)
    BY <2>3, CancelKeeps
  <2>4. CASE SettleStorage(r)
    BY <2>4, SettleStorageKeeps
  <2>5. CASE Advance(r)
    BY <2>5, AdvanceKeeps
  <2>6. CASE Recover(r)
    BY <2>6, RecoverKeeps
  <2>7. CASE OnProof(r)
    BY <2>7, OnProofKeeps
  <2>8. CASE SendPart(r)
    BY <2>8, SendPartKeeps
  <2>9. CASE ResourceOutcome(r)
    BY <2>9, ResourceOutcomeKeeps
  <2>10. QED
    BY <1>6, <2>1, <2>2, <2>3, <2>4, <2>5, <2>6, <2>7, <2>8, <2>9
<1>7. CASE Transmit
  BY <1>7, TransmitKeeps
<1>8. CASE Discard \/ RadioRestart
  BY <1>8, DiscardKeeps, EngineAssumption
<1>9. CASE UNCHANGED vars
  BY <1>9, StutterKeeps
<1>10. QED
  BY <1>1, <1>2, <1>3, <1>4, <1>5, <1>6, <1>7, <1>8, <1>9 DEF Next

LEMMA InvHolds == Spec => []Inv
<1>1. Init => Inv
  BY InitInv
<1>2. Inv /\ [Next]_vars => Inv'
  BY NextInv
<1>3. QED
  BY <1>1, <1>2, PTL DEF Spec

\* A row that sends has a record that is neither withdrawn nor gone.
LEMMA NotWrong ==
  ASSUME Inv, NEW f, f.row \in Rows, f.rec = rows[f.row].rec, accepting,
         ~Suppressed(rows[f.row]), rows[f.row].desired # "DELIVERED", Served(rows[f.row])
  PROVE  ~Wrong(f)
<1> DEFINE v == rows[f.row]
<1>1. RowHolds(v) /\ RowOK(v)
  BY InvFacts
<1>2. v.rec # 0 /\ Claim(v) = v.rec
  BY Claimed
<1>3. v.rec \notin withdrawn
  BY <1>1, <1>2 DEF RowHolds, RowInv, Silenced
<1>4. records[v.rec] # "gone"
  BY <1>1 DEF RowHolds, RowInv, Backed
<1>5. ~v.proved
  BY <1>1 DEF RowOK, PhaseOK
<1>6. QED
  BY <1>2, <1>3, <1>4, <1>5 DEF Wrong

LEMMA StaysSilent ==
  ASSUME Inv, ~astray, [Next]_vars
  PROVE  ~astray'
<1>1. ASSUME NothingSent PROVE ~astray'
  BY <1>1 DEF NothingSent
<1>2. ASSUME NEW f, f.row \in Rows, f.rec = rows[f.row].rec, accepting,
             ~Suppressed(rows[f.row]), rows[f.row].desired # "DELIVERED", Served(rows[f.row]),
             Transmitted(f) \/ NothingSent
      PROVE  ~astray'
  BY <1>2, NotWrong DEF Transmitted, NothingSent
<1>3. ASSUME Transmit PROVE ~astray'
  <2>1. PICK live \in Aging, f \in Frames : DrainTx(live, f) /\ Transmitted(f)
    BY <1>3 DEF Transmit
  <2>2. f.row \in Rows /\ f.rec = rows[f.row].rec
    BY FrameRow
  <2>3. f \in Live
    <3>1. Kept(live) \in Seq(FrameType) /\ ToSet(Kept(live)) \subseteq live /\ Kept(live) # <<>> /\ f = Head(Kept(live))
      BY <2>1, InvFacts, KeptFacts DEF DrainTx
    <3>2. Head(Kept(live)) \in ToSet(Kept(live))
      BY <3>1, TailFacts
    <3>3. QED
      BY <3>1, <3>2 DEF Aging
  <2>4. /\ accepting /\ ~Suppressed(rows[f.row]) /\ rows[f.row].desired # "DELIVERED"
        /\ Served(rows[f.row])
    BY <2>3 DEF Live, ReceiptLive, Suppressed, Served
  <2>5. QED
    BY <1>2, <2>1, <2>2, <2>4
<1>4. ASSUME NEW r \in Rows, Advance(r) PROVE ~astray'
  <2>1. rows[r].ticket = NoTicket /\ RowOK(rows[r]) /\ ProofAttempts \in Nat
    BY <1>4, InvFacts DEF Advance, Idle
  <2>2. CASE NothingSent
    BY <1>1, <2>2
  <2>3. CASE \E v \in Aged(rows[r]) : "Suppressed" \notin v.flags /\ accepting /\ Attempt(r, v)
    <3>1. PICK v \in Aged(rows[r]) : "Suppressed" \notin v.flags /\ accepting /\ Attempt(r, v)
      BY <2>3
    <3>2. v = rows[r] /\ v.phase = "Reading"
      BY <2>1, <3>1, AgedRow DEF Attempt
    <3>3. accepting /\ ~Suppressed(rows[r]) /\ rows[r].desired # "DELIVERED" /\ Served(rows[r])
      BY <2>1, <3>1, <3>2, NoTicketFacts DEF Suppressed, Served, RowOK, PhaseOK
    <3>4. \/ NothingSent
          \/ \E variant : Transmitted(FrameOf(r, variant))
      BY <3>1 DEF Attempt, StartResource, OfferPrepared
    <3>5. \A variant : FrameOf(r, variant).row = r /\ FrameOf(r, variant).rec = rows[r].rec
      BY DEF FrameOf
    <3>6. QED
      BY <1>1, <1>2, <3>3, <3>4, <3>5
  <2>4. QED
    BY <1>4, <2>2, <2>3 DEF Advance, StatusUpdate, Query, Read
<1>5. ASSUME NEW r \in Rows, SendPart(r) PROVE ~astray'
  <2>1. /\ rows[r].phase = "Resource" /\ accepting /\ ~Suppressed(rows[r])
        /\ NothingSent \/ Transmitted(FrameOf(r, Resource))
    BY <1>5 DEF SendPart, Has, Suppressed
  <2>2. Served(rows[r]) /\ rows[r].desired # "DELIVERED"
    BY <2>1, InvFacts DEF Served, RowOK, PhaseOK
  <2>3. FrameOf(r, Resource).row = r /\ FrameOf(r, Resource).rec = rows[r].rec
    BY DEF FrameOf
  <2>4. QED
    BY <1>2, <2>1, <2>2, <2>3
<1>6. ASSUME NEW r \in Rows,
             Submit(r) \/ Acknowledge(r) \/ Cancel(r) \/ SettleStorage(r) \/ Recover(r) \/ OnProof(r) \/ ResourceOutcome(r)
      PROVE  ~astray'
  BY <1>1, <1>6 DEF Submit, Acknowledge, Cancel, SettleStorage, Recover, OnProof, ResourceOutcome
<1>7. ASSUME Begin \/ StopAdmissions \/ BeginPeerDelete \/ FinishPeerDelete \/ StoreExecute \/ Discard \/ RadioRestart
      PROVE  ~astray'
  BY <1>1, <1>7 DEF Begin, StopAdmissions, BeginPeerDelete, FinishPeerDelete, StoreExecute, Discard, RadioRestart
<1>8. ASSUME UNCHANGED vars PROVE ~astray'
  BY <1>8 DEF vars, history
<1>9. QED
  BY <1>3, <1>4, <1>5, <1>6, <1>7, <1>8 DEF Next

LEMMA RowsTyped ==
  ASSUME Inv
  PROVE  TypeOK
<1> DEFINE A == 0 .. ProofAttempts
           M == SUBSET (0 .. Resource)
<1>1. ASSUME NEW r \in Rows
      PROVE  rows[r] \in [phase : Phases, rec : 0 .. MaxRecords, flags : SUBSET Flags,
                          initial : {"none", "pending", "committed", "failed", "cancelled"},
                          ticket : TicketType, desired : Statuses, durable : Statuses,
                          attempts : A, mask : M, queued : Nat, aired : BOOLEAN, proved : BOOLEAN]
  <2>1. rows[r] \in RowType /\ PhaseOK(rows[r]) /\ ProofAttempts \in Nat
    BY InvFacts DEF RowOK
  <2>2. rows[r].attempts \in A /\ rows[r].mask \in M
    BY <2>1 DEF PhaseOK, RowType
  <2> HIDE DEF A, M
  <2>3. QED
    BY <2>1, <2>2 DEF RowType
<1>2. rows \in [Rows -> RowType]
  BY InvFacts
<1>3. rows \in [Rows -> [phase : Phases, rec : 0 .. MaxRecords, flags : SUBSET Flags,
                         initial : {"none", "pending", "committed", "failed", "cancelled"},
                         ticket : TicketType, desired : Statuses, durable : Statuses,
                         attempts : A, mask : M, queued : Nat, aired : BOOLEAN, proved : BOOLEAN]]
  <2> HIDE DEF A, M
  <2>1. QED
    BY <1>1, <1>2
<1>4. QED
  BY <1>3, InvFacts DEF TypeOK, TicketType, Inv, Shared

LEMMA FreeIsFree ==
  ASSUME Inv, NEW r \in Rows, rows[r].phase = "Free"
  PROVE  rows[r] = FreeRow
<1> DEFINE v == rows[r]
<1>1. v \in RowType /\ PhaseOK(v)
  BY InvFacts DEF RowOK
<1>2. v.rec = 0
  BY <1>1 DEF PhaseOK
<1>3. v.queued = 0
  BY <1>2, NoFrames
<1>4. /\ v.phase = "Free" /\ v.flags = {} /\ v.initial = "none" /\ v.ticket = NoTicket
      /\ v.desired = "QUEUED" /\ v.durable = "QUEUED" /\ v.attempts = 0 /\ v.mask = {}
      /\ v.aired = FALSE /\ v.proved = FALSE
  BY <1>1, <1>2 DEF PhaseOK, RowType
<1>5. QED
  <2> HIDE DEF v
  <2>1. v = FreeRow
    BY <1>1, <1>2, <1>3, <1>4 DEF RowType, FreeRow
  <2>2. QED
    BY <2>1 DEF v

LEMMA TicketsCounted ==
  ASSUME Inv
  PROVE  TicketsAgree
<1>1. SUFFICES ASSUME NEW r \in Rows
               PROVE  Cardinality({k \in DOMAIN jobs : jobs[k] = r})
                        = IF rows[r].ticket.answer \in {"queued", "cancelQueued"} THEN 1 ELSE 0
  BY DEF TicketsAgree
<1> DEFINE S == {k \in DOMAIN jobs : jobs[k] = r}
<1>2. /\ r \in ToSet(jobs) <=> InQueue(rows[r].ticket)
      /\ \A a, b \in DOMAIN jobs : jobs[a] = jobs[b] => a = b
  BY DEF Inv, JobsInv
<1>3. CASE InQueue(rows[r].ticket)
  <2>1. PICK k \in DOMAIN jobs : jobs[k] = r
    BY <1>2, <1>3 DEF ToSet
  <2>2. S = {k}
    BY <1>2, <2>1
  <2>3. QED
    BY <1>3, <2>2, FS_Singleton DEF InQueue
<1>4. CASE ~InQueue(rows[r].ticket)
  <2>1. S = {}
    BY <1>2, <1>4 DEF ToSet
  <2>2. QED
    BY <1>4, <2>1, FS_EmptySet DEF InQueue
<1>5. QED
  BY <1>3, <1>4

LEMMA InvConsistent ==
  ASSUME Inv
  PROVE  Consistent
<1>1. ReceiptsAgree
  BY FreeIsFree DEF ReceiptsAgree, Inv, FramesInv, Used
<1>2. WorkspaceHeld
  <2>1. \A r \in Rows : rows[r].phase \in {"Ready", "Reading"} => rows[r].attempts < ProofAttempts
    BY InvFacts DEF RowOK, PhaseOK
  <2>2. QED
    BY <2>1, InvFacts DEF WorkspaceHeld, Inv, Shared
<1>3. RecordsAgree
  <2>1. SUFFICES ASSUME NEW r \in Rows, rows[r].rec # 0
                 PROVE  /\ \A q \in Rows \ {r} : rows[q].rec # rows[r].rec
                        /\ records[rows[r].rec] \in {rows[r].durable, "gone"} \/ rows[r].ticket.op = "UpdateStatus"
    BY DEF RecordsAgree
  <2>2. Recorded(rows[r], records)
    BY InvFacts DEF RowHolds, RowInv
  <2>3. ASSUME NEW q \in Rows \ {r}, rows[q].rec = rows[r].rec
        PROVE  FALSE
    <3>1. Claim(rows[q]) = rows[q].rec /\ Claim(rows[r]) = rows[r].rec
      BY <2>1, <2>3, Claimed
    <3>2. QED
      BY <2>1, <2>3, <3>1 DEF Inv, Apart
  <2>4. QED
    BY <2>1, <2>2, <2>3 DEF Recorded
<1>4. QED
  BY <1>1, <1>2, <1>3, RowsTyped, TicketsCounted DEF Consistent

LEMMA InvTruthful ==
  ASSUME Inv
  PROVE  TruthfulStatus
<1>1. SUFFICES ASSUME NEW r \in Rows
               PROVE  /\ Truthful(rows[r], rows[r].desired) /\ Truthful(rows[r], rows[r].durable)
                      /\ rows[r].rec # 0 => Truthful(rows[r], records[rows[r].rec])
                      /\ rows[r].initial = "committed" \/ rows[r].aired => rows[r].rec \in DOMAIN records
  BY DEF TruthfulStatus
<1>2. StatusOK(rows[r]) /\ PhaseOK(rows[r]) /\ Recorded(rows[r], records)
  BY InvFacts DEF RowHolds, RowInv, RowOK
<1>3. rows[r].rec # 0 => Truthful(rows[r], records[rows[r].rec])
  BY <1>2 DEF StatusOK, Recorded, Truthful
<1>4. rows[r].initial = "committed" \/ rows[r].aired => rows[r].rec \in DOMAIN records
  BY <1>2 DEF PhaseOK, Recorded
<1>5. QED
  BY <1>2, <1>3, <1>4 DEF StatusOK

\* The rows, the workspace, the tickets, the radio's queue and the records of
\* the store agree (RustLxmfEngine.cpp: loop, receiptHook, settleStorage,
\* releaseBody and allocate), whatever the clients, the store and the radio do.
THEOREM Consistency == Spec => []Consistent
<1>1. Inv => Consistent
  BY InvConsistent
<1>2. QED
  BY <1>1, InvHolds, PTL

\* No row and no record says sent of a message whose transmission never
\* started, or delivered of one whose proof was not verified, and a message
\* reported as saved has a record (setStatus, settleStorage, onProofFrame).
THEOREM Truth == Spec => []TruthfulStatus
<1>1. Inv => TruthfulStatus
  BY InvTruthful
<1>2. QED
  BY <1>1, InvHolds, PTL

\* After a cancellation, a deletion, a delivery or the stop no frame of the
\* message is transmitted, of the packet or of the resource (receiptHook on
\* Validate, cancel, beginPeerDelete, stopAdmissions, offerResource).
THEOREM Silence == Spec => []SilentWhenWithdrawn
<1>1. Init => ~astray
  BY DEF Init
<1>2. Inv /\ ~astray /\ [Next]_vars => ~astray'
  BY StaysSilent
<1>3. ~astray => SilentWhenWithdrawn
  BY DEF SilentWhenWithdrawn
<1>4. QED
  BY <1>1, <1>2, <1>3, InvHolds, PTL DEF Spec
=============================================================================
