-------------------------- MODULE MessageRecordsProofs -------------------------
(***************************************************************************)
(* For every number of records, revisions and devices: no record number is *)
(* used twice and no deleted record comes back, whatever fails and whenever *)
(* the power is lost; and on a device whose card stays, what was           *)
(* acknowledged is found, a message has one record, and a proved delivery  *)
(* stays proved.                                                           *)
(***************************************************************************)
EXTENDS MessageRecords, FiniteSetTheorems, WellFoundedInduction, TLAPS

USE BoundsAssumption, MarksAssumption

-----------------------------------------------------------------------------
(* Greatest elements.                                                      *)

LEMMA Greatest ==
  ASSUME NEW S \in SUBSET Nat, S # {}, NEW N \in Nat, \A x \in S : x <= N
  PROVE  /\ Max(S) \in S
         /\ \A y \in S : y <= Max(S)
<1> DEFINE T == {n \in Nat : \E x \in S : n = N - x}
<1>1. \A x \in S : x \in Nat /\ N - x \in Nat /\ N - x \in T
  OBVIOUS
<1>2. T \subseteq Nat /\ T # {}
  BY <1>1
<1>3. PICK t \in T : \A y \in T : ~(<<y, t>> \in OpToRel(<, Nat))
  <2> HIDE DEF T
  <2>1. QED
    BY <1>2, NatLessThanWellFounded, WFMin
<1>4. \A y \in T : ~(y < t)
  BY <1>2, <1>3 DEF OpToRel
<1>5. PICK x \in S : t = N - x
  BY <1>3
<1>6. \A y \in S : x >= y
  <2> SUFFICES ASSUME NEW y \in S PROVE x >= y
    OBVIOUS
  <2>1. ~(N - y < N - x) /\ x \in Nat /\ y \in Nat
    BY <1>1, <1>4, <1>5
  <2>2. QED
    BY <2>1
<1>7. QED
  BY <1>5, <1>6 DEF Max

-----------------------------------------------------------------------------
(* The invariant of every device.                                          *)

\* The operations and their steps.
CommitOps == [kind : {"commit"}, medium : Media, key : Keys, record : Records,
              creating : BOOLEAN, done : BOOLEAN, left : SUBSET Keys]
MarkOps == [kind : {"markRead"}, left : SUBSET Keys]
TombstoneOps == [kind : {"tombstone"}, through : Nat]
RemoveOps == [kind : {"remove"}, medium : Media]
TrimOps == [kind : {"trim"}, target : Media, tried : SUBSET Keys]
ExpireOps == [kind : {"expire"}, key : Keys]
Operations == {Idle} \cup CommitOps \cup MarkOps \cup TombstoneOps \cup RemoveOps \cup TrimOps \cup ExpireOps

\* Among a file and its backup the backup is the older.
MarkerOrder == marker.path # Absent /\ marker.bak # Absent => marker.bak <= marker.path

\* The ceiling of the numbers is what the NVS holds, and no number reaches the
\* value that says there is none left.
CeilingInv ==
  /\ next <= device.lastCounter /\ msgctr <= device.lastCounter
  /\ reserved = IF msgctr = 0 THEN 1 ELSE msgctr
  /\ Cutoff < device.lastCounter

\* Numbers in use are below the counter and below the ceiling that is saved, so
\* a boot cannot give them out again.
Numbered(k) == k < next /\ k < msgctr
NumbersInv ==
  /\ \A k \in written : Numbered(k)
  /\ \A m \in Media, k \in Keys : file[m][k] # NoFile => k \in written

\* What was deleted is what the tombstone covers.
DeletionInv ==
  /\ deleted \subseteq written
  /\ \A k \in written : k \in deleted <=> k <= Cutoff

\* A new record has a number of its own above the tombstone; a tombstone to be
\* written covers every record; what is still to be marked or committed can be
\* read.
OpInv ==
  /\ op.kind = "commit" /\ op.creating =>
       /\ Numbered(op.key) /\ op.key > Cutoff
       /\ op.medium = "flash" => op.key \notin written
  /\ op.kind = "commit" /\ ~op.creating => op.key \in written
  /\ op.kind = "tombstone" =>
       /\ Cutoff <= op.through /\ op.through < device.lastCounter
       /\ \A k \in written : k <= op.through
  /\ op.kind = "remove" => written \subseteq deleted
  /\ op.kind \in {"commit", "markRead"} => op.left \subseteq Visible

TypeInv == RecordsTypeOK /\ op \in Operations /\ device \in Devices /\ MarkerOrder
DeviceInv == TypeInv /\ CeilingInv /\ NumbersInv /\ DeletionInv /\ OpInv

-----------------------------------------------------------------------------
(* The invariant of a device whose card stays.                             *)

FileCopies(f) == {f.path, f.bak} \ {Absent}
\* The copies of a record, and with them the one that is being committed.
CopySet(k) == FileCopies(file["flash"][k]) \cup FileCopies(file["card"][k])
Committing(k) == op.kind = "commit" /\ op.key = k
CopyOrRecord(k) == CopySet(k) \cup {r \in Records : Committing(k) /\ r = op.record}

\* A backup is the older, copies of one revision are equal, and what is being
\* committed is the newest or equal to it.
Ordered(f) == f.path # Absent /\ f.bak # Absent => f.bak.rev <= f.path.rev
RevisionsInv ==
  /\ \A m \in Media, k \in Keys : Ordered(file[m][k])
  /\ \A k \in Keys : \A q, r \in CopyOrRecord(k) : q.rev = r.rev => q = r
  /\ op.kind = "commit" => \A q \in CopySet(op.key) : q.rev <= op.record.rev

\* All copies under a number are of one message, and no two numbers are of one
\* incoming message.
MessageInv ==
  /\ \A k \in Keys : \A q, r \in CopyOrRecord(k) : q.id = r.id
  /\ \A k \in Keys : \A q \in CopyOrRecord(k) : Incoming(q) <=> q.id # NoId
  /\ \A j, k \in Keys : j > Cutoff /\ k > Cutoff =>
       \A q \in CopyOrRecord(j), r \in CopyOrRecord(k) : Incoming(q) /\ q.id = r.id => j = k

\* What was acknowledged has a copy of that revision or a later one.
AckInv ==
  /\ \A k \in Keys \ deleted : acked[k] # 0 => k \in written /\ \E q \in CopySet(k) : acked[k] <= q.rev
  /\ op.kind = "commit" /\ op.done => op.record \in CopySet(op.key)
  /\ op.kind = "expire" => acked[op.key] = 0

\* Where nothing expires, the newest copy of a proved record is proved.
ProvedInv ==
  /\ op.kind # "expire"
  /\ proved \subseteq written
  /\ \A k \in proved \ deleted :
       \E q \in CopySet(k) : q.state = "delivered" /\ \A r \in CopySet(k) : r.rev <= q.rev
  /\ op.kind = "commit" /\ op.key \in proved \ deleted => op.record.state = "delivered"

KeepsAll == device.cardLimit >= Cardinality(Keys)
CardInv == card /\ RevisionsInv /\ MessageInv /\ AckInv /\ (KeepsAll => ProvedInv)

FullInv == DeviceInv /\ (~device.cardLeaves => CardInv)
-----------------------------------------------------------------------------
(* Single files.                                                           *)

LEMMA NoCopies == ASSUME NEW f \in Copies PROVE f = NoFile <=> FileCopies(f) = {}
  BY DEF Copies, NoFile, FileCopies

\* A write that failed, and a tidy-up, keep the newest copy.
Preserves(f, g) ==
  /\ g \in Copies /\ FileCopies(g) \subseteq FileCopies(f) /\ (g = NoFile <=> f = NoFile)
  /\ Ordered(f) => Ordered(g) /\ \A q \in FileCopies(f) : \E r \in FileCopies(g) : q.rev <= r.rev

LEMMA FailedPreserves == ASSUME NEW f \in Copies, NEW g \in WriteFailed(f) PROVE Preserves(f, g)
<1> DEFINE w == WithoutOldBackup(f)
           d == Demoted(f)
<1>1. \A r \in Records : r.rev \in Nat
  BY DEF Records
<1>2. /\ w = (IF f.path # Absent THEN [path |-> f.path, bak |-> Absent] ELSE f)
      /\ d = (IF f.path # Absent THEN [path |-> Absent, bak |-> f.path] ELSE f)
      /\ RolledBack(f) = [path |-> d.bak, bak |-> Absent]
  BY DEF WithoutOldBackup, Demoted, RolledBack, Copies
<1>3. w \in Copies /\ d \in Copies /\ RolledBack(f) \in Copies
  BY <1>2 DEF Copies
<1>4. Preserves(f, f)
  BY <1>1 DEF Preserves, Copies, FileCopies
<1>5. Preserves(f, w)
  BY <1>1, <1>2, <1>3 DEF Preserves, Copies, FileCopies, NoFile, Ordered
<1>6. Preserves(f, d)
  BY <1>1, <1>2, <1>3 DEF Preserves, Copies, FileCopies, NoFile, Ordered
<1>7. Preserves(f, RolledBack(f))
  BY <1>1, <1>2, <1>3 DEF Preserves, Copies, FileCopies, NoFile, Ordered
<1>8. QED
  BY <1>4, <1>5, <1>6, <1>7 DEF WriteFailed

LEMMA TidyPreserves == ASSUME NEW f \in Copies, NEW g \in Tidied(f) PROVE Preserves(f, g)
<1>1. \A r \in Records : r.rev \in Nat
  BY DEF Records
<1>2. g = f \/ (f.bak # Absent /\ f.path = Absent /\ g = [path |-> f.bak, bak |-> Absent])
            \/ (f.bak # Absent /\ f.path # Absent /\ f.path.rev >= f.bak.rev /\ g = [path |-> f.path, bak |-> Absent])
  BY DEF Tidied, Copies
<1>3. QED
  BY <1>1, <1>2 DEF Preserves, Copies, FileCopies, NoFile, Ordered

\* A write that succeeded leaves the new record, perhaps with an older copy.
Renews(f, g, v) ==
  /\ g \in Copies /\ v \in FileCopies(g) /\ FileCopies(g) \subseteq FileCopies(f) \cup {v} /\ g # NoFile
  /\ (\A q \in FileCopies(f) : q.rev <= v.rev) => Ordered(g)

LEMMA WriteRenews ==
  ASSUME NEW f \in Copies, NEW v \in Records, NEW g \in WriteOk(f, v) PROVE Renews(f, g, v)
<1>1. g = [path |-> v, bak |-> Absent] \/ g = [path |-> v, bak |-> IF f.path # Absent THEN f.path ELSE f.bak]
  BY DEF WriteOk, Promoted, Demoted, Copies
<1>2. QED
  BY <1>1 DEF Renews, Copies, FileCopies, NoFile, Ordered

LEMMA CutOutcome ==
  ASSUME NEW f \in Copies, NEW v \in Records, NEW g \in WriteCut(f, v) PROVE Preserves(f, g) \/ Renews(f, g, v)
  BY FailedPreserves, WriteRenews DEF WriteCut, WriteFailed

LEMMA RemovalFacts ==
  ASSUME NEW f \in Copies, NEW g \in Removals(f)
  PROVE  g \in Copies /\ FileCopies(g) \subseteq FileCopies(f) /\ (Ordered(f) => Ordered(g)) /\ (f = NoFile => g = NoFile)
<1>1. g = f \/ g = [path |-> Absent, bak |-> f.bak] \/ g = [path |-> f.path, bak |-> Absent] \/ g = NoFile
  BY DEF Removals, Copies
<1>2. QED
  BY <1>1 DEF Copies, FileCopies, NoFile, Ordered

-----------------------------------------------------------------------------
(* The tombstone.                                                          *)

Marks == [path : Nat \cup {Absent}, bak : Nat \cup {Absent}]

LEMMA ThroughFacts ==
  ASSUME NEW f \in Marks
  PROVE  /\ Through(f) \in Nat
         /\ f.path # Absent => f.path <= Through(f)
         /\ f.bak # Absent => f.bak <= Through(f)
         /\ Through(f) = 0 \/ Through(f) = f.path \/ Through(f) = f.bak
<1> DEFINE S == {c \in {f.path, f.bak} : c # Absent} \cup {0}
<1>1. S \in SUBSET Nat /\ S # {}
  BY DEF Marks
<1>2. \E N \in Nat : \A x \in S : x <= N
  <2>1. CASE f.path = Absent \/ f.bak = Absent
    <3>1. \E n \in Nat : \A x \in S : x = n \/ x = 0
      BY <2>1 DEF Marks
    <3>2. QED
      BY <1>1, <3>1
  <2>2. CASE f.path # Absent /\ f.bak # Absent
    <3>1. f.path \in Nat /\ f.bak \in Nat /\ f.path + f.bak \in Nat
      BY <2>2 DEF Marks
    <3>2. \A x \in S : x <= f.path + f.bak
      BY <3>1
    <3>3. QED
      BY <3>1, <3>2
  <2>3. QED
    BY <2>1, <2>2
<1>3. Max(S) \in S /\ \A y \in S : y <= Max(S)
  <2> HIDE DEF S
  <2>1. QED
    BY <1>1, <1>2, Greatest
<1>4. Through(f) = Max(S)
  BY DEF Through
<1>5. QED
  BY <1>1, <1>3, <1>4

InOrder(f) == f.path # Absent /\ f.bak # Absent => f.bak <= f.path

LEMMA MarkFailed ==
  ASSUME NEW f \in Marks, InOrder(f), NEW g \in WriteFailed(f)
  PROVE  g \in Marks /\ InOrder(g) /\ Through(g) = Through(f)
         /\ {g.path, g.bak} \subseteq {f.path, f.bak, Absent}
<1> DEFINE w == WithoutOldBackup(f)
           d == Demoted(f)
           r == RolledBack(f)
<1>1. /\ w = (IF f.path # Absent THEN [path |-> f.path, bak |-> Absent] ELSE f)
      /\ d = (IF f.path # Absent THEN [path |-> Absent, bak |-> f.path] ELSE f)
      /\ r = [path |-> d.bak, bak |-> Absent]
  BY DEF WithoutOldBackup, Demoted, RolledBack, Marks
<1>2. g \in Marks /\ InOrder(g) /\ {g.path, g.bak} \subseteq {f.path, f.bak, Absent}
  BY <1>1 DEF Marks, InOrder, WriteFailed
<1>3. /\ (IF f.path # Absent THEN f.path ELSE f.bak) \in {g.path, g.bak}
  BY <1>1 DEF Marks, InOrder, WriteFailed
<1>4. Through(f) = IF f.path # Absent THEN f.path ELSE IF f.bak # Absent THEN f.bak ELSE 0
  BY ThroughFacts DEF Marks, InOrder
<1>5. Through(g) = IF g.path # Absent THEN g.path ELSE IF g.bak # Absent THEN g.bak ELSE 0
  BY <1>2, ThroughFacts DEF Marks, InOrder
<1>6. QED
  BY <1>1, <1>2, <1>4, <1>5 DEF Marks, InOrder, WriteFailed

LEMMA MarkOk ==
  ASSUME NEW f \in Marks, NEW v \in Nat, Through(f) <= v, NEW g \in WriteOk(f, v)
  PROVE  g \in Marks /\ InOrder(g) /\ Through(g) = v /\ g.path = v
         /\ {g.path, g.bak} \subseteq {f.path, f.bak, v, Absent}
<1>1. g = [path |-> v, bak |-> Absent] \/ g = [path |-> v, bak |-> IF f.path # Absent THEN f.path ELSE f.bak]
  BY DEF WriteOk, Promoted, Demoted, Marks
<1>2. g \in Marks /\ InOrder(g) /\ {g.path, g.bak} \subseteq {f.path, f.bak, v, Absent}
  BY <1>1, ThroughFacts DEF Marks, InOrder
<1>3. Through(g) = v
  BY <1>1, <1>2, ThroughFacts DEF Marks, InOrder
<1>4. QED
  BY <1>1, <1>2, <1>3
-----------------------------------------------------------------------------
(* What is read.                                                           *)

LEMMA OpKinds ==
  ASSUME op \in Operations
  PROVE  /\ op.kind = "idle" <=> op = Idle
         /\ op.kind = "commit" <=> op \in CommitOps
         /\ op.kind = "markRead" <=> op \in MarkOps
         /\ op.kind = "tombstone" <=> op \in TombstoneOps
         /\ op.kind = "remove" <=> op \in RemoveOps
         /\ op.kind = "trim" <=> op \in TrimOps
         /\ op.kind = "expire" <=> op \in ExpireOps
  BY DEF Operations, Idle, CommitOps, MarkOps, TombstoneOps, RemoveOps, TrimOps, ExpireOps

LEMMA Basics ==
  ASSUME TypeInv
  PROVE  /\ file \in [Media -> [Keys -> Copies]]
         /\ marker \in Marks /\ InOrder(marker) /\ Cutoff \in Nat
         /\ marker.path \in Keys \cup {0, Absent} /\ marker.bak \in Keys \cup {0, Absent}
         /\ device.lastCounter \in Nat /\ 2 <= device.lastCounter /\ device.lastCounter <= MaxCounter
         /\ device.block \in Nat \ {0} /\ device.lastRevision \in 1 .. MaxRevision
         /\ Keys \subseteq Nat /\ Visible \subseteq Keys
<1>1. marker \in Marks /\ InOrder(marker) /\ marker.path \in Keys \cup {0, Absent} /\ marker.bak \in Keys \cup {0, Absent}
  BY DEF TypeInv, RecordsTypeOK, Marks, Keys, MarkerOrder, InOrder
<1>2. Cutoff \in Nat
  BY <1>1, ThroughFacts DEF Cutoff
<1>3. QED
  BY <1>1, <1>2 DEF TypeInv, RecordsTypeOK, Keys, Visible

LEMMA ReadCopies ==
  ASSUME TypeInv, NEW k \in Keys
  PROVE  /\ CopiesOf(k) \ {Absent} \subseteq CopySet(k)
         /\ CopySet(k) \subseteq Records
         /\ card => CopiesOf(k) \ {Absent} = CopySet(k)
         /\ \A m \in Media : Found(m, k) => CopiesOf(k) \ {Absent} # {}
         /\ \A m \in Media : Ready(m) => FileCopies(file[m][k]) \subseteq CopiesOf(k)
<1>1. file["flash"][k] \in Copies /\ file["card"][k] \in Copies
  BY DEF TypeInv, RecordsTypeOK, Media
<1>2. CopySet(k) \subseteq Records
  BY <1>1 DEF Copies, CopySet, FileCopies
<1>3. \A m \in Media : m = "flash" \/ m = "card"
  BY DEF Media
<1>4. CopiesOf(k) = {file[m][k].path : m \in {n \in Media : Ready(n)}}
                    \cup {file[m][k].bak : m \in {n \in Media : Ready(n)}}
  BY DEF CopiesOf
<1>5. CopiesOf(k) \ {Absent} \subseteq CopySet(k)
  BY <1>3, <1>4 DEF CopySet, FileCopies
<1>6. \A m \in Media : Ready(m) => FileCopies(file[m][k]) \subseteq CopiesOf(k)
  BY <1>4 DEF FileCopies
<1>7. card => CopySet(k) \subseteq CopiesOf(k) \ {Absent}
  BY <1>6 DEF CopySet, FileCopies, Ready, Media
<1>8. ASSUME NEW m \in Media, Found(m, k) PROVE CopiesOf(k) \ {Absent} # {}
  <2>1. FileCopies(file[m][k]) # {}
    BY <1>1, <1>3, <1>8, NoCopies DEF Found
  <2>2. QED
    BY <1>6, <1>8, <2>1 DEF Found, FileCopies
<1>9. QED
  BY <1>2, <1>5, <1>6, <1>7, <1>8

LEMMA LoadFacts ==
  ASSUME TypeInv, NEW k \in Keys, \E m \in Media : Found(m, k)
  PROVE  /\ Load(k) \in CopiesOf(k) \ {Absent} /\ Load(k) \in Records
         /\ \A q \in CopiesOf(k) \ {Absent} : q.rev <= Load(k).rev
<1> DEFINE copies == CopiesOf(k) \ {Absent}
           newest == {r \in copies : \A q \in copies : q.rev <= r.rev}
           flashed == newest \cap {file["flash"][k].path, file["flash"][k].bak}
           revs == {r.rev : r \in copies}
<1>1. copies # {} /\ copies \subseteq Records
  BY ReadCopies
<1>2. \A r \in Records : r.rev \in Nat /\ r.rev <= MaxRevision
  BY DEF Records
<1>3. revs \in SUBSET Nat /\ revs # {} /\ \A x \in revs : x <= MaxRevision
  BY <1>1, <1>2
<1>4. Max(revs) \in revs /\ \A y \in revs : y <= Max(revs)
  <2> HIDE DEF revs
  <2>1. QED
    BY <1>3, Greatest
<1>5. newest # {}
  BY <1>4
<1>6. Load(k) = IF flashed # {} THEN CHOOSE r \in flashed : TRUE ELSE CHOOSE r \in newest : TRUE
  BY DEF Load
<1>7. Load(k) \in newest
  BY <1>5, <1>6
<1>8. QED
  BY <1>1, <1>7

LEMMA VisibleLoad ==
  ASSUME TypeInv, NEW k \in Visible
  PROVE  /\ k \in Keys /\ Load(k) \in CopiesOf(k) \ {Absent} /\ Load(k) \in Records
         /\ \A q \in CopiesOf(k) \ {Absent} : q.rev <= Load(k).rev
         /\ k > Cutoff
  BY LoadFacts DEF Visible

\* A visible record was written, so its number is below the counters.
LEMMA VisibleWritten == ASSUME DeviceInv, NEW k \in Visible PROVE k \in written /\ Numbered(k)
  BY DEF DeviceInv, NumbersInv, Visible, Found

LEMMA FreshFacts ==
  ASSUME DeviceInv
  PROVE  /\ Fresh \in Nat /\ Fresh >= 1 /\ Fresh >= next /\ Fresh > Cutoff /\ Fresh <= device.lastCounter
         /\ Fresh \notin written
<1>1. next \in Nat /\ next >= 1 /\ Cutoff + 1 \in Nat /\ next <= device.lastCounter /\ Cutoff + 1 <= device.lastCounter
      /\ device.lastCounter \in Nat
  BY Basics DEF DeviceInv, TypeInv, RecordsTypeOK, CeilingInv
<1>2. Max({next, Cutoff + 1}) \in {next, Cutoff + 1} /\ \A y \in {next, Cutoff + 1} : y <= Max({next, Cutoff + 1})
  BY <1>1, Greatest
<1>3. Fresh \in Nat /\ Fresh >= next /\ Fresh > Cutoff /\ Fresh <= device.lastCounter
  BY <1>1, <1>2, Basics DEF Fresh, DeviceInv
<1>4. QED
  BY <1>1, <1>3 DEF DeviceInv, NumbersInv, Numbered, TypeInv, RecordsTypeOK, Keys

LEMMA EraseCutoffFacts ==
  ASSUME DeviceInv
  PROVE  /\ EraseCutoff \in Nat /\ Cutoff <= EraseCutoff /\ EraseCutoff < device.lastCounter
         /\ \A k \in written : k <= EraseCutoff
<1> DEFINE S == Visible \cup {Cutoff, next - 1}
<1>1. next \in Nat /\ next >= 1 /\ Cutoff \in Nat /\ next <= device.lastCounter /\ Cutoff < device.lastCounter
      /\ device.lastCounter \in Nat /\ Visible \subseteq Nat /\ written \subseteq Nat
  BY Basics DEF DeviceInv, TypeInv, RecordsTypeOK, CeilingInv
<1>2. \A k \in written : k <= next - 1
  BY <1>1 DEF DeviceInv, NumbersInv, Numbered
<1>3. S \in SUBSET Nat /\ S # {} /\ \A x \in S : x <= device.lastCounter - 1
  BY <1>1, <1>2, VisibleWritten
<1>4. Max(S) \in S /\ \A y \in S : y <= Max(S)
  <2> HIDE DEF S
  <2>1. device.lastCounter - 1 \in Nat
    BY <1>1
  <2>2. QED
    BY <1>3, <2>1, Greatest
<1>5. next - 1 \in S /\ Cutoff \in S
  OBVIOUS
<1>6. EraseCutoff = Max(S)
  BY DEF EraseCutoff
<1> HIDE DEF S
<1>7. EraseCutoff \in Nat /\ EraseCutoff <= device.lastCounter - 1 /\ next - 1 <= EraseCutoff /\ Cutoff <= EraseCutoff
  BY <1>3, <1>4, <1>5, <1>6
<1>8. QED
  BY <1>1, <1>2, <1>7
-----------------------------------------------------------------------------
(* Every step keeps the invariant of every device.                         *)

LEMMA InitDevice == Init => DeviceInv
<1> SUFFICES ASSUME Init PROVE DeviceInv
  OBVIOUS
<1>1. device.lastCounter \in Nat /\ 2 <= device.lastCounter /\ device.lastCounter <= MaxCounter
  BY DEF Init
<1>2. marker \in Marks
  BY DEF Init, NoFile, Marks
<1>3. Cutoff = 0
  BY <1>2, ThroughFacts DEF Init, NoFile, Cutoff
<1>4. TypeInv
  <2>1. file \in [Media -> [Keys -> Copies]]
    BY DEF Init, NoFile, Copies
  <2>2. marker \in [path : Keys \cup {0, Absent}, bak : Keys \cup {0, Absent}] /\ MarkerOrder
    BY DEF Init, NoFile, MarkerOrder
  <2>3. msgctr \in 0 .. MaxCounter /\ next \in 1 .. MaxCounter /\ reserved \in 1 .. MaxCounter
    BY <1>1 DEF Init
  <2>4. card \in BOOLEAN /\ op \in Operations /\ op.kind = "idle" /\ device \in Devices
    BY DEF Init, Operations, Idle
  <2>5. acked \in [Keys -> 0 .. MaxRevision] /\ written \subseteq Keys /\ proved \subseteq Keys /\ deleted \subseteq Keys
    BY DEF Init
  <2>6. QED
    BY <2>1, <2>2, <2>3, <2>4, <2>5 DEF TypeInv, RecordsTypeOK
<1>5. QED
  BY <1>1, <1>3, <1>4 DEF Init, DeviceInv, CeilingInv, NumbersInv, DeletionInv, OpInv, Idle

\* A step that moves no counter and no tombstone.
LEMMA RecordStep ==
  ASSUME DeviceInv, UNCHANGED <<marker, msgctr, counters, hardware, deleted>>,
         file' \in [Media -> [Keys -> Copies]],
         written' \subseteq Keys, written \subseteq written',
         \A k \in written' \ written : Numbered(k) /\ k > Cutoff,
         \A m \in Media, k \in Keys : file'[m][k] # NoFile => k \in written',
         acked' \in [Keys -> 0 .. MaxRevision], proved' \subseteq Keys,
         op' \in Operations, OpInv'
  PROVE  DeviceInv'
<1> USE DEF counters, hardware
<1>1. TypeInv'
  <2>1. op'.kind \in {"idle", "commit", "markRead", "tombstone", "remove", "trim", "expire"}
    BY DEF Operations, Idle, CommitOps, MarkOps, TombstoneOps, RemoveOps, TrimOps, ExpireOps
  <2>2. QED
    BY <2>1 DEF DeviceInv, TypeInv, RecordsTypeOK, MarkerOrder
<1>2. CeilingInv' /\ Cutoff' = Cutoff
  BY DEF DeviceInv, CeilingInv, Cutoff
<1>3. NumbersInv'
  BY DEF DeviceInv, NumbersInv, Numbered
<1>4. DeletionInv'
  <2>1. Cutoff \in Nat /\ written' \subseteq Nat
    BY Basics DEF DeviceInv
  <2>2. QED
    BY <1>2, <2>1 DEF DeviceInv, DeletionInv
<1>5. QED
  BY <1>1, <1>2, <1>3, <1>4 DEF DeviceInv

\* Such a step that leaves the files alone.
LEMMA OpStep ==
  ASSUME DeviceInv, UNCHANGED <<store, counters, hardware, written, deleted>>,
         acked' \in [Keys -> 0 .. MaxRevision], proved' \subseteq Keys,
         op' \in Operations, OpInv'
  PROVE  DeviceInv'
<1>1. file \in [Media -> [Keys -> Copies]] /\ written \subseteq Keys /\ \A m \in Media, k \in Keys : file[m][k] # NoFile => k \in written
  BY DEF DeviceInv, TypeInv, RecordsTypeOK, NumbersInv
<1>2. QED
  BY <1>1, RecordStep DEF store

LEMMA SameReading ==
  ASSUME UNCHANGED <<store, counters, hardware>>
  PROVE  Cutoff' = Cutoff /\ Visible' = Visible /\ \A k : Numbered(k)' = Numbered(k)
  BY DEF store, counters, hardware, Cutoff, Visible, Found, Ready, Numbered

\* A commit begins, of a record that is there or of one that changed.
LEMMA BeginCommit ==
  ASSUME DeviceInv, NEW k \in written, NEW r \in Records, NEW left \in SUBSET Visible,
         Commit(k, r, FALSE, left), UNCHANGED <<store, counters, hardware, history>>
  PROVE  DeviceInv'
<1>1. op' = [kind |-> "commit", medium |-> "flash", key |-> k, record |-> r,
             creating |-> FALSE, done |-> FALSE, left |-> left]
  BY DEF Commit
<1>2. op' \in CommitOps
  BY <1>1, Basics DEF CommitOps, Media, DeviceInv, TypeInv, RecordsTypeOK
<1>3. OpInv'
  BY <1>1, SameReading DEF OpInv, history
<1>4. QED
  BY <1>2, <1>3, OpStep DEF Operations, history, DeviceInv, TypeInv, RecordsTypeOK

LEMMA BumpTyped ==
  ASSUME DeviceInv, NEW r \in Records, r.rev < device.lastRevision, NEW s \in IncomingStates \cup OutgoingStates
  PROVE  [r EXCEPT !.state = s, !.rev = @ + 1] \in Records
<1>1. r.rev + 1 \in 1 .. MaxRevision
  BY Basics DEF Records, DeviceInv
<1>2. [r EXCEPT !.state = s] \in Records /\ [r EXCEPT !.state = s].rev = r.rev
  BY DEF Records
<1>3. QED
  BY <1>1, <1>2 DEF Records

LEMMA UpdateDevice ==
  ASSUME DeviceInv, NEW k \in Keys, NEW s \in OutgoingStates, Update(k, s)
  PROVE  DeviceInv'
<1>1. k \in written /\ Load(k) \in Records
  BY VisibleLoad, VisibleWritten DEF Update, DeviceInv
<1>2. CASE Load(k).state = s
  <2>1. Commit(k, Load(k), FALSE, {}) /\ UNCHANGED <<store, counters, hardware, history>>
    BY <1>2 DEF Update
  <2>2. {} \in SUBSET Visible
    OBVIOUS
  <2>3. QED
    BY <1>1, <2>1, <2>2, BeginCommit
<1>3. CASE Load(k).state # s
  <2>1. [Load(k) EXCEPT !.state = s, !.rev = @ + 1] \in Records
    BY <1>1, <1>3, BumpTyped DEF Update, MayBecome
  <2>2. Commit(k, [Load(k) EXCEPT !.state = s, !.rev = @ + 1], FALSE, {})
        /\ UNCHANGED <<store, counters, hardware, history>>
    BY <1>3 DEF Update
  <2>3. {} \in SUBSET Visible
    OBVIOUS
  <2>4. QED
    BY <1>1, <2>1, <2>2, <2>3, BeginCommit
<1>4. QED
  BY <1>2, <1>3

LEMMA DuplicateDevice == ASSUME DeviceInv, NEW id \in Ids, CreateDuplicate(id) PROVE DeviceInv'
<1>1. PICK k \in SameMessage(id) : Commit(k, Load(k), FALSE, {})
  BY DEF CreateDuplicate
<1>2. k \in written /\ Load(k) \in Records
  BY VisibleLoad, VisibleWritten DEF SameMessage, DeviceInv
<1>3. {} \in SUBSET Visible /\ UNCHANGED <<store, counters, hardware, history>>
  BY DEF CreateDuplicate
<1>4. QED
  BY <1>1, <1>2, <1>3, BeginCommit

LEMMA MarkReadDevice == ASSUME DeviceInv, MarkRead PROVE DeviceInv'
<1> DEFINE unread == {k \in Visible : Incoming(Load(k))}
<1>1. op' = [kind |-> "markRead", left |-> unread] /\ unread \subseteq Visible /\ unread \subseteq Keys
  BY DEF MarkRead, Visible
<1> HIDE DEF unread
<1>2. op' \in MarkOps
  BY <1>1 DEF MarkOps
<1>3. OpInv'
  BY <1>1, SameReading DEF OpInv, MarkRead
<1>4. QED
  BY <1>2, <1>3, OpStep DEF MarkRead, Operations, history, DeviceInv, TypeInv, RecordsTypeOK

LEMMA MarkNextDevice == ASSUME DeviceInv, MarkNext PROVE DeviceInv'
<1>0. op \in MarkOps /\ op.left \subseteq Visible /\ op.left \subseteq Keys
  BY OpKinds DEF MarkNext, DeviceInv, TypeInv, OpInv, MarkOps
<1>1. PICK k \in op.left :
       IF Load(k).state = "unread" /\ Load(k).rev < device.lastRevision
       THEN Commit(k, [Load(k) EXCEPT !.state = "read", !.rev = @ + 1], FALSE, op.left \ {k})
       ELSE op' = IF op.left = {k} THEN Idle ELSE [op EXCEPT !.left = @ \ {k}]
  BY DEF MarkNext
<1>2. k \in written /\ Load(k) \in Records
  BY <1>0, VisibleLoad, VisibleWritten DEF DeviceInv
<1>3. CASE Load(k).state = "unread" /\ Load(k).rev < device.lastRevision
  <2>1. [Load(k) EXCEPT !.state = "read", !.rev = @ + 1] \in Records
    BY <1>2, <1>3, BumpTyped DEF IncomingStates
  <2>2. op.left \ {k} \in SUBSET Visible
    BY <1>0
  <2>3. QED
    BY <1>1, <1>2, <1>3, <2>1, <2>2, BeginCommit DEF MarkNext
<1>4. CASE ~(Load(k).state = "unread" /\ Load(k).rev < device.lastRevision)
  <2>1. op' = Idle \/ (op' \in MarkOps /\ op'.left \subseteq op.left)
    BY <1>0, <1>1, <1>4 DEF MarkOps
  <2>2. OpInv'
    BY <1>0, <2>1, SameReading DEF MarkNext, OpInv, Idle, MarkOps
  <2>3. QED
    BY <2>1, <2>2, OpStep DEF MarkNext, Operations, history, DeviceInv, TypeInv, RecordsTypeOK
<1>5. QED
  BY <1>3, <1>4

\* The operations that only begin, or end, without a write.
LEMMA PlainDevice ==
  ASSUME DeviceInv, Erase \/ TrimNext
  PROVE  DeviceInv'
<1>1. CASE Erase
  <2>1. op' = [kind |-> "tombstone", through |-> EraseCutoff]
    BY <1>1 DEF Erase
  <2>2. op' \in TombstoneOps
    BY <2>1, EraseCutoffFacts DEF TombstoneOps
  <2>3. OpInv'
    BY <1>1, <2>1, SameReading, EraseCutoffFacts DEF Erase, OpInv, history, hardware
  <2>4. QED
    BY <1>1, <2>2, <2>3, OpStep DEF Erase, Operations, history, DeviceInv, TypeInv, RecordsTypeOK
<1>2. CASE TrimNext
  <2>1. op \in TrimOps
    BY <1>2, OpKinds DEF TrimNext, DeviceInv, TypeInv
  <2>2. op' \in TrimOps \/ op' = Idle
    BY <1>2, <2>1 DEF TrimNext, TrimOps, Media
  <2>3. OpInv'
    BY <2>2 DEF OpInv, TrimOps, Idle
  <2>4. QED
    BY <1>2, <2>2, <2>3, OpStep DEF TrimNext, Operations, history, DeviceInv, TypeInv, RecordsTypeOK
<1>3. QED
  BY <1>1, <1>2
LEMMA CeilingFacts ==
  ASSUME NEW n \in Nat, n < device.lastCounter, device.lastCounter \in Nat, device.block \in Nat \ {0}
  PROVE  Ceiling(n) \in Nat /\ n < Ceiling(n) /\ Ceiling(n) <= device.lastCounter
  BY DEF Ceiling

\* A new record takes a number that is saved before it is used.
LEMMA CreateDevice ==
  ASSUME DeviceInv, NEW r \in Records, Reserve(Fresh), Commit(Fresh, r, TRUE, {}),
         UNCHANGED <<file, marker, hardware, history>>
  PROVE  DeviceInv'
<1>0. /\ Fresh \in Nat /\ Fresh >= 1 /\ Fresh >= next /\ Fresh > Cutoff /\ Fresh < device.lastCounter /\ Fresh \notin written
      /\ device.lastCounter \in Nat /\ device.lastCounter <= MaxCounter /\ device.block \in Nat \ {0}
      /\ msgctr \in Nat /\ reserved \in Nat /\ next \in Nat /\ MaxCounter \in Nat
  <2>1. Fresh # device.lastCounter
    BY DEF Reserve
  <2>2. QED
    BY <2>1, FreshFacts, Basics DEF DeviceInv, TypeInv, RecordsTypeOK
<1>1. Fresh \in Keys /\ next' = Fresh + 1 /\ Cutoff' = Cutoff /\ Visible' = Visible
  BY <1>0 DEF Reserve, Keys, Cutoff, Visible, Found, Ready, hardware
<1>2. msgctr' \in Nat /\ msgctr' <= device.lastCounter /\ Fresh < msgctr' /\ msgctr <= msgctr' /\ reserved' = msgctr'
  <2>1. CASE MustReserve(Fresh)
    BY <1>0, <2>1, CeilingFacts DEF Reserve, MustReserve, DeviceInv, CeilingInv
  <2>2. CASE ~MustReserve(Fresh)
    BY <1>0, <2>2 DEF Reserve, MustReserve, DeviceInv, CeilingInv
  <2>3. QED
    BY <2>1, <2>2
<1>3. op' = [kind |-> "commit", medium |-> "flash", key |-> Fresh, record |-> r,
             creating |-> TRUE, done |-> FALSE, left |-> {}]
  BY DEF Commit
<1>4. op' \in Operations
  BY <1>1, <1>3 DEF Operations, CommitOps, Media
<1>5. TypeInv'
  <2>1. msgctr' \in 0 .. MaxCounter /\ next' \in 1 .. MaxCounter /\ reserved' \in 1 .. MaxCounter
    BY <1>0, <1>1, <1>2
  <2>2. QED
    BY <1>3, <1>4, <2>1 DEF DeviceInv, TypeInv, RecordsTypeOK, MarkerOrder, hardware, history
<1>6. CeilingInv'
  BY <1>0, <1>1, <1>2 DEF DeviceInv, CeilingInv, hardware
<1>7. \A k \in Nat : Numbered(k) => Numbered(k)'
  BY <1>0, <1>1, <1>2 DEF Numbered
<1>8. NumbersInv'
  <2>1. written \subseteq Nat
    BY Basics DEF DeviceInv, TypeInv, RecordsTypeOK
  <2>2. QED
    BY <1>7, <2>1 DEF DeviceInv, NumbersInv, history
<1>9. DeletionInv'
  BY <1>1 DEF DeviceInv, DeletionInv, history
<1>10. OpInv'
  BY <1>0, <1>1, <1>2, <1>3 DEF OpInv, Numbered, history
<1>11. QED
  BY <1>5, <1>6, <1>8, <1>9, <1>10 DEF DeviceInv

LEMMA NewRecord ==
  ASSUME DeviceInv, (\E id \in Ids : CreateIncoming(id)) \/ CreateOutgoing
  PROVE  DeviceInv'
<1>1. ASSUME NEW id \in Ids \cup {NoId}, NEW s \in IncomingStates \cup OutgoingStates
      PROVE  [rev |-> 1, state |-> s, id |-> id] \in Records
  BY DEF Records
<1>2. QED
  BY <1>1, CreateDevice DEF CreateIncoming, CreateOutgoing, IncomingStates, OutgoingStates

LEMMA ReserveFailsDevice == ASSUME DeviceInv, ReserveFails PROVE DeviceInv'
<1>1. Fresh \in Nat /\ Fresh >= 1 /\ Fresh >= next /\ Fresh <= device.lastCounter
      /\ device.lastCounter <= MaxCounter /\ device.lastCounter \in Nat /\ next \in Nat /\ MaxCounter \in Nat
  BY FreshFacts, Basics DEF DeviceInv, TypeInv, RecordsTypeOK
<1>2. next' = Fresh /\ UNCHANGED <<file, marker, msgctr, reserved, hardware, op, written, acked, proved, deleted>>
  BY DEF ReserveFails, store, history
<1>3. Cutoff' = Cutoff /\ Visible' = Visible
  BY <1>2 DEF Cutoff, Visible, Found, Ready, hardware
<1>4. \A k \in Nat : Numbered(k) => Numbered(k)'
  BY <1>1, <1>2 DEF Numbered
<1>5. TypeInv'
  BY <1>1, <1>2 DEF DeviceInv, TypeInv, RecordsTypeOK, MarkerOrder, hardware
<1>6. CeilingInv'
  BY <1>1, <1>2, <1>3 DEF DeviceInv, CeilingInv, hardware
<1>7. NumbersInv' /\ DeletionInv'
  <2>1. written \subseteq Nat
    BY Basics DEF DeviceInv, TypeInv, RecordsTypeOK
  <2>2. QED
    BY <1>2, <1>3, <1>4, <2>1 DEF DeviceInv, NumbersInv, DeletionInv
<1>8. OpInv'
  <2>1. op = Idle
    BY DEF ReserveFails
  <2>2. QED
    BY <1>2, <2>1 DEF OpInv, Idle
<1>9. QED
  BY <1>5, <1>6, <1>7, <1>8 DEF DeviceInv

-----------------------------------------------------------------------------
(* The steps of a commit.                                                  *)

\* Where files only change and none disappears, what could be read still can.
LEMMA StillVisible ==
  ASSUME UNCHANGED <<marker, hardware>>, \A m \in Media, k \in Keys : file[m][k] # NoFile => file'[m][k] # NoFile
  PROVE  Visible \subseteq Visible' /\ Cutoff' = Cutoff
  BY DEF Visible, Cutoff, Found, Ready, hardware, Media

LEMMA CommitStepDevice ==
  ASSUME DeviceInv, op.kind = "commit", NEW done \in BOOLEAN, AfterMedium(done), Acknowledge(done),
         file' \in [Media -> [Keys -> Copies]],
         \A m \in Media, k \in Keys : file[m][k] # NoFile => file'[m][k] # NoFile,
         \A m \in Media, k \in Keys : file'[m][k] # NoFile => k \in written',
         written' \in {written, written \cup {op.key}},
         UNCHANGED <<marker, msgctr, counters, hardware, deleted>>
  PROVE  DeviceInv'
<1>1. op \in CommitOps
  BY OpKinds DEF DeviceInv, TypeInv
<1>2. \/ op' = [op EXCEPT !.medium = "card", !.done = done]
      \/ op' = Idle
      \/ op' = [kind |-> "markRead", left |-> op.left]
  BY DEF AfterMedium
<1>3. \/ /\ op' \in CommitOps /\ op'.key = op.key /\ op'.creating = op.creating
         /\ op'.medium = "card" /\ op'.left = op.left
      \/ op' = Idle
      \/ op' \in MarkOps /\ op'.left = op.left
  <2>1. CASE op' = [op EXCEPT !.medium = "card", !.done = done]
    BY <1>1, <2>1 DEF CommitOps, Media
  <2>2. CASE op' = Idle
    BY <2>2
  <2>3. CASE op' = [kind |-> "markRead", left |-> op.left]
    BY <1>1, <2>3 DEF CommitOps, MarkOps
  <2>4. QED
    BY <1>2, <2>1, <2>2, <2>3
<1>4. Visible \subseteq Visible' /\ Cutoff' = Cutoff
  BY StillVisible
<1>5. op.key \in written \/ (Numbered(op.key) /\ op.key > Cutoff)
  BY DEF DeviceInv, OpInv
<1>6. acked' \in [Keys -> 0 .. MaxRevision] /\ proved' \subseteq Keys
  <2>1. op.record.rev \in 0 .. MaxRevision /\ op.key \in Keys
    BY <1>1 DEF CommitOps, Records
  <2>2. QED
    BY <2>1 DEF Acknowledge, DeviceInv, TypeInv, RecordsTypeOK
<1>7. written' \subseteq Keys
  BY <1>1 DEF CommitOps, DeviceInv, TypeInv, RecordsTypeOK
<1>8. OpInv'
  <2>1. op.left \subseteq Visible /\ (op.creating => Numbered(op.key) /\ op.key > Cutoff) /\ (~op.creating => op.key \in written)
    BY DEF DeviceInv, OpInv
  <2>2. CASE op' \in CommitOps /\ op'.key = op.key /\ op'.creating = op.creating /\ op'.medium = "card" /\ op'.left = op.left
    BY <1>4, <2>1, <2>2 DEF OpInv, CommitOps, Numbered, counters
  <2>3. CASE op' = Idle \/ (op' \in MarkOps /\ op'.left = op.left)
    BY <1>4, <2>1, <2>3 DEF OpInv, MarkOps, Idle
  <2>4. QED
    BY <1>3, <2>2, <2>3
<1>9. QED
  BY <1>3, <1>5, <1>6, <1>7, <1>8, RecordStep DEF Operations

\* The file that is written.
LEMMA FileReplaced ==
  ASSUME DeviceInv, NEW m \in Media, NEW k \in Keys, NEW g \in Copies,
         file' = [file EXCEPT ![m][k] = g]
  PROVE  /\ file' \in [Media -> [Keys -> Copies]]
         /\ file'[m][k] = g
         /\ \A n \in Media, j \in Keys : <<n, j>> # <<m, k>> => file'[n][j] = file[n][j]
  BY DEF DeviceInv, TypeInv, RecordsTypeOK

LEMMA CommitDevice ==
  ASSUME DeviceInv, CommitKept \/ CommitSkip \/ CommitWrite \/ CommitFail
  PROVE  DeviceInv'
<1>0. op \in CommitOps /\ op.medium \in Media /\ op.key \in Keys /\ op.record \in Records /\ op.done \in BOOLEAN
      /\ file \in [Media -> [Keys -> Copies]] /\ file[op.medium][op.key] \in Copies
      /\ \A m \in Media, k \in Keys : file[m][k] # NoFile => k \in written
  <2>1. op.kind = "commit"
    BY DEF CommitKept, CommitSkip, CommitWrite, CommitFail
  <2>2. op \in CommitOps
    BY <2>1, OpKinds DEF DeviceInv, TypeInv
  <2>3. QED
    BY <2>2 DEF CommitOps, DeviceInv, TypeInv, RecordsTypeOK, NumbersInv
<1>1. CASE CommitKept
  BY <1>0, <1>1, CommitStepDevice DEF CommitKept, store
<1>2. CASE CommitSkip
  BY <1>0, <1>2, CommitStepDevice DEF CommitSkip, store
<1>3. CASE CommitWrite
  <2>1. PICK f \in WriteOk(file[op.medium][op.key], op.record) : file' = [file EXCEPT ![op.medium][op.key] = f]
    BY <1>3 DEF CommitWrite
  <2>2. Renews(file[op.medium][op.key], f, op.record)
    BY <1>0, WriteRenews
  <2>3. /\ file' \in [Media -> [Keys -> Copies]] /\ file'[op.medium][op.key] = f
        /\ \A n \in Media, j \in Keys : <<n, j>> # <<op.medium, op.key>> => file'[n][j] = file[n][j]
    BY <1>0, <2>1, <2>2, FileReplaced DEF Renews
  <2>4. \A m \in Media, k \in Keys : file[m][k] # NoFile => file'[m][k] # NoFile
    BY <2>2, <2>3 DEF Renews
  <2>5. \A m \in Media, k \in Keys : file'[m][k] # NoFile => k \in written \cup {op.key}
    BY <1>0, <2>3
  <2>6. QED
    BY <1>3, <2>3, <2>4, <2>5, CommitStepDevice DEF CommitWrite
<1>4. CASE CommitFail
  <2>1. PICK f \in WriteFailed(file[op.medium][op.key]) : file' = [file EXCEPT ![op.medium][op.key] = f]
    BY <1>4 DEF CommitFail
  <2>2. Preserves(file[op.medium][op.key], f)
    BY <1>0, FailedPreserves
  <2>3. /\ file' \in [Media -> [Keys -> Copies]] /\ file'[op.medium][op.key] = f
        /\ \A n \in Media, j \in Keys : <<n, j>> # <<op.medium, op.key>> => file'[n][j] = file[n][j]
    BY <1>0, <2>1, <2>2, FileReplaced DEF Preserves
  <2>4. \A m \in Media, k \in Keys : file[m][k] # NoFile <=> file'[m][k] # NoFile
    BY <2>2, <2>3 DEF Preserves
  <2>5. QED
    BY <1>0, <1>4, <2>3, <2>4, CommitStepDevice DEF CommitFail
<1>5. QED
  BY <1>1, <1>2, <1>3, <1>4
-----------------------------------------------------------------------------
(* Deletion.                                                               *)

LEMMA TombstoneFacts ==
  ASSUME DeviceInv, op.kind = "tombstone"
  PROVE  /\ op.through \in Nat /\ op.through \in Keys \cup {0}
         /\ Cutoff <= op.through /\ op.through < device.lastCounter
         /\ \A k \in written : k <= op.through
<1>1. op.through \in Nat
  BY OpKinds DEF DeviceInv, TypeInv, TombstoneOps
<1>2. QED
  BY <1>1, Basics DEF DeviceInv, OpInv, Keys

LEMMA TypedMarker ==
  ASSUME NEW f \in Marks, NEW v \in Keys \cup {0}, NEW g \in Marks,
         f.path \in Keys \cup {0, Absent}, f.bak \in Keys \cup {0, Absent},
         {g.path, g.bak} \subseteq {f.path, f.bak, v, Absent}
  PROVE  g \in [path : Keys \cup {0, Absent}, bak : Keys \cup {0, Absent}]
  BY DEF Marks

LEMMA EraseMarkDevice == ASSUME DeviceInv, EraseMark PROVE DeviceInv'
<1>1. /\ op.through \in Keys \cup {0} /\ op.through \in Nat /\ Cutoff <= op.through
      /\ op.through < device.lastCounter /\ \A k \in written : k <= op.through
  BY TombstoneFacts DEF EraseMark
<1>2. marker' \in Marks /\ InOrder(marker') /\ Through(marker') = op.through
      /\ {marker'.path, marker'.bak} \subseteq {marker.path, marker.bak, op.through, Absent}
  BY <1>1, Basics, MarkOk DEF EraseMark, Cutoff, DeviceInv
<1>3. Cutoff' = op.through
  BY <1>2 DEF Cutoff
<1>4. op' = [kind |-> "remove", medium |-> "flash"] /\ deleted' = deleted \cup written
      /\ UNCHANGED <<file, msgctr, counters, hardware, written, acked, proved>>
  BY DEF EraseMark
<1>5. TypeInv'
  <2>1. marker' \in [path : Keys \cup {0, Absent}, bak : Keys \cup {0, Absent}]
    BY <1>1, <1>2, Basics, TypedMarker DEF DeviceInv
  <2>2. op' \in Operations /\ op'.kind = "remove"
    BY <1>4 DEF Operations, RemoveOps, Media
  <2>3. deleted' \subseteq Keys
    BY <1>4 DEF DeviceInv, TypeInv, RecordsTypeOK
  <2>4. QED
    BY <1>2, <1>4, <2>1, <2>2, <2>3 DEF DeviceInv, TypeInv, RecordsTypeOK, MarkerOrder, InOrder, counters, hardware
<1>6. CeilingInv' /\ NumbersInv'
  BY <1>1, <1>3, <1>4 DEF DeviceInv, CeilingInv, NumbersInv, Numbered, counters, hardware
<1>7. DeletionInv'
  BY <1>1, <1>3, <1>4 DEF DeviceInv, DeletionInv
<1>8. OpInv'
  BY <1>4 DEF OpInv
<1>9. QED
  BY <1>5, <1>6, <1>7, <1>8 DEF DeviceInv

LEMMA EraseRefusedDevice == ASSUME DeviceInv, EraseRefused PROVE DeviceInv'
<1>1. marker' \in Marks /\ InOrder(marker') /\ Through(marker') = Through(marker)
      /\ {marker'.path, marker'.bak} \subseteq {marker.path, marker.bak, Absent}
  BY Basics, MarkFailed DEF EraseRefused, DeviceInv
<1>2. Cutoff' = Cutoff
  BY <1>1 DEF Cutoff
<1>3. op' = Idle /\ UNCHANGED <<file, msgctr, counters, hardware, written, acked, proved, deleted>>
  BY DEF EraseRefused, history
<1>4. TypeInv'
  <2>1. marker' \in [path : Keys \cup {0, Absent}, bak : Keys \cup {0, Absent}]
    BY <1>1, Basics, TypedMarker DEF DeviceInv
  <2>2. op' \in Operations /\ op'.kind = "idle"
    BY <1>3 DEF Operations, Idle
  <2>3. QED
    BY <1>1, <1>3, <2>1, <2>2 DEF DeviceInv, TypeInv, RecordsTypeOK, MarkerOrder, InOrder, counters, hardware
<1>5. CeilingInv' /\ NumbersInv' /\ DeletionInv'
  BY <1>2, <1>3 DEF DeviceInv, CeilingInv, NumbersInv, Numbered, DeletionInv, counters, hardware
<1>6. OpInv'
  BY <1>3 DEF OpInv, Idle
<1>7. QED
  BY <1>4, <1>5, <1>6 DEF DeviceInv

\* Every file is treated, each with one of its outcomes.
LEMMA Treated ==
  ASSUME NEW T, T = [k \in Keys |-> T[k]], NEW after \in Outcomes(T), \A k \in Keys : T[k] \subseteq Copies
  PROVE  after \in [Keys -> Copies] /\ \A k \in Keys : after[k] \in T[k]
  BY DEF Outcomes

LEMMA EraseFilesDevice ==
  ASSUME DeviceInv, EraseFiles
  PROVE  /\ DeviceInv'
         /\ \A m \in Media, k \in Keys : file'[m][k] \in Removals(file[m][k])
<1>0. op \in RemoveOps /\ op.medium \in Media /\ file \in [Media -> [Keys -> Copies]]
  BY OpKinds DEF EraseFiles, DeviceInv, TypeInv, RemoveOps, RecordsTypeOK
<1>1. /\ file' \in [Media -> [Keys -> Copies]]
      /\ \A m \in Media, k \in Keys : file'[m][k] \in Removals(file[m][k])
  <2>1. \A m \in Media, k \in Keys : file[m][k] \in Removals(file[m][k])
    BY DEF Removals
  <2>2. CASE Ready(op.medium)
    <3> DEFINE T == [k \in Keys |-> Removals(file[op.medium][k])]
    <3>1. PICK after \in Outcomes(T) : file' = [file EXCEPT ![op.medium] = after]
      BY <2>2 DEF EraseFiles
    <3>2. \A k \in Keys : T[k] \subseteq Copies
      BY <1>0, RemovalFacts
    <3>3. after \in [Keys -> Copies] /\ \A k \in Keys : after[k] \in T[k]
      <4>1. T = [k \in Keys |-> T[k]]
        OBVIOUS
      <4> HIDE DEF T
      <4>2. QED
        BY <3>1, <3>2, <4>1, Treated
    <3>4. QED
      BY <1>0, <2>1, <3>1, <3>3
  <2>3. CASE ~Ready(op.medium)
    BY <1>0, <2>1, <2>3 DEF EraseFiles
  <2>4. QED
    BY <2>2, <2>3
<1>2. \A m \in Media, k \in Keys : file'[m][k] # NoFile => k \in written
  <2>1. \A m \in Media, k \in Keys : file[m][k] \in Copies
    BY <1>0
  <2>2. QED
    BY <1>1, <2>1, RemovalFacts DEF DeviceInv, NumbersInv
<1>3. op' \in RemoveOps \/ op' = Idle
  BY <1>0 DEF EraseFiles, RemoveOps, Media
<1>4. OpInv'
  <2>1. written \subseteq deleted
    BY DEF EraseFiles, DeviceInv, OpInv
  <2>2. QED
    BY <1>3, <2>1 DEF EraseFiles, OpInv, RemoveOps, Idle, history
<1>5. DeviceInv'
  BY <1>1, <1>2, <1>3, <1>4, RecordStep DEF EraseFiles, history, Operations, DeviceInv, TypeInv, RecordsTypeOK
<1>6. QED
  BY <1>1, <1>5
-----------------------------------------------------------------------------
(* Trimming.                                                               *)

LEMMA TrimDevice ==
  ASSUME DeviceInv, Trim
  PROVE  /\ DeviceInv'
         /\ \A m \in Media, k \in Keys : Preserves(file[m][k], file'[m][k])
<1>0. file \in [Media -> [Keys -> Copies]] /\ (\A m \in Media, k \in Keys : file[m][k] \in Copies)
  BY DEF DeviceInv, TypeInv, RecordsTypeOK
<1>1. ASSUME NEW m \in Media, NEW after \in Outcomes([k \in Keys |-> Tidied(file[m][k])])
      PROVE  after \in [Keys -> Copies] /\ \A k \in Keys : Preserves(file[m][k], after[k])
  <2> DEFINE T == [k \in Keys |-> Tidied(file[m][k])]
  <2>1. T = [k \in Keys |-> T[k]] /\ after \in Outcomes(T)
    BY <1>1
  <2>2. \A k \in Keys : \A g \in T[k] : Preserves(file[m][k], g)
    BY <1>0, TidyPreserves
  <2>3. \A k \in Keys : T[k] \subseteq Copies
    BY <2>2 DEF Preserves
  <2> HIDE DEF T
  <2>4. QED
    BY <2>1, <2>2, <2>3, Treated
<1>2. \A m \in Media, k \in Keys : Preserves(file[m][k], file[m][k])
  BY <1>0, FailedPreserves DEF WriteFailed
<1>3. PICK flash \in Outcomes([k \in Keys |-> Tidied(file["flash"][k])]),
           mirror \in Outcomes([k \in Keys |-> Tidied(file["card"][k])]) :
         file' = [m \in Media |-> IF m = "flash" THEN flash ELSE IF card THEN mirror ELSE file["card"]]
  BY DEF Trim
<1>4. /\ flash \in [Keys -> Copies] /\ \A k \in Keys : Preserves(file["flash"][k], flash[k])
      /\ mirror \in [Keys -> Copies] /\ \A k \in Keys : Preserves(file["card"][k], mirror[k])
  BY <1>1 DEF Media
<1>5. file' \in [Media -> [Keys -> Copies]] /\ \A m \in Media, k \in Keys : Preserves(file[m][k], file'[m][k])
  BY <1>0, <1>2, <1>3, <1>4 DEF Media
<1>6. \A m \in Media, k \in Keys : file'[m][k] # NoFile => k \in written
  BY <1>5 DEF Preserves, DeviceInv, NumbersInv
<1>7. op' \in TrimOps
  BY DEF Trim, TrimOps, Media
<1>8. OpInv'
  BY <1>7 DEF OpInv, TrimOps
<1>9. QED
  BY <1>5, <1>6, <1>7, <1>8, RecordStep DEF Trim, history, Operations, DeviceInv, TypeInv, RecordsTypeOK

LEMMA DropFacts ==
  ASSUME DeviceInv, NEW k \in Keys, MustDrop(k)
  PROVE  /\ op \in TrimOps /\ op.target \in Media /\ k \in Visible /\ k \in written
         /\ Load(k) \in Records /\ Completed(Load(k)) /\ file[op.target][k] \in Copies
<1>1. op \in TrimOps
  BY OpKinds DEF MustDrop, DeviceInv, TypeInv
<1>2. k \in Visible /\ Completed(Load(k))
  BY DEF MustDrop, Droppable, Held
<1>3. QED
  BY <1>1, <1>2, VisibleLoad, VisibleWritten DEF TrimOps, DeviceInv, TypeInv, RecordsTypeOK

LEMMA TrimRepairDevice ==
  ASSUME DeviceInv, NEW k \in Keys, TrimRepair(k)
  PROVE  DeviceInv'
<1>0. op \in TrimOps /\ k \in written /\ Load(k) \in Records /\ file["card"][k] \in Copies /\ "card" \in Media
      /\ file \in [Media -> [Keys -> Copies]]
  BY DropFacts DEF TrimRepair, DeviceInv, TypeInv, RecordsTypeOK, Media
<1>1. PICK g \in Copies : file' = [file EXCEPT !["card"][k] = g]
  <2>1. \A f \in WriteOk(file["card"][k], Load(k)) \cup WriteFailed(file["card"][k]) : f \in Copies
    BY <1>0, WriteRenews, FailedPreserves DEF Renews, Preserves
  <2>2. QED
    BY <2>1 DEF TrimRepair
<1>2. op' \in TrimOps
  BY <1>0 DEF TrimRepair, TrimOps
<1>3. file' \in [Media -> [Keys -> Copies]] /\ \A m \in Media, j \in Keys : file'[m][j] # NoFile => j \in written
  BY <1>0, <1>1, FileReplaced DEF DeviceInv, NumbersInv
<1>4. OpInv'
  BY <1>2 DEF OpInv, TrimOps
<1>5. QED
  BY <1>2, <1>3, <1>4, RecordStep DEF TrimRepair, history, Operations, DeviceInv, TypeInv, RecordsTypeOK

LEMMA RemovalDevice ==
  ASSUME DeviceInv, NEW m \in Media, NEW k \in Keys, NEW f \in Removals(file[m][k]),
         file' = [file EXCEPT ![m][k] = f]
  PROVE  file' \in [Media -> [Keys -> Copies]] /\ \A n \in Media, j \in Keys : file'[n][j] # NoFile => j \in written
<1>1. file[m][k] \in Copies
  BY DEF DeviceInv, TypeInv, RecordsTypeOK
<1>2. f \in Copies /\ (file[m][k] = NoFile => f = NoFile)
  BY <1>1, RemovalFacts
<1>3. /\ file' \in [Media -> [Keys -> Copies]] /\ file'[m][k] = f
      /\ \A n \in Media, j \in Keys : <<n, j>> # <<m, k>> => file'[n][j] = file[n][j]
  BY <1>2 DEF DeviceInv, TypeInv, RecordsTypeOK
<1>4. \A n \in Media, j \in Keys : file[n][j] # NoFile => j \in written
  BY DEF DeviceInv, NumbersInv
<1>5. ASSUME NEW n \in Media, NEW j \in Keys, file'[n][j] # NoFile PROVE j \in written
  BY <1>2, <1>3, <1>4, <1>5
<1>6. QED
  BY <1>3, <1>5

LEMMA TrimDropDevice ==
  ASSUME DeviceInv, NEW k \in Keys, TrimDrop(k)
  PROVE  DeviceInv'
<1>0. op \in TrimOps /\ op.target \in Media
  BY DropFacts DEF TrimDrop
<1>1. PICK f \in Removals(file[op.target][k]) :
       /\ file' = [file EXCEPT ![op.target][k] = f]
       /\ op' = IF f # NoFile THEN [op EXCEPT !.tried = @ \cup {k}]
                ELSE IF op.target = "card" THEN [kind |-> "expire", key |-> k]
                ELSE [op EXCEPT !.tried = {}]
  BY DEF TrimDrop
<1>2. op' \in TrimOps \/ op' \in ExpireOps
  BY <1>0, <1>1 DEF TrimOps, ExpireOps
<1>3. file' \in [Media -> [Keys -> Copies]] /\ \A n \in Media, j \in Keys : file'[n][j] # NoFile => j \in written
  BY <1>0, <1>1, RemovalDevice
<1>4. acked' \in [Keys -> 0 .. MaxRevision]
  BY DEF TrimDrop, DeviceInv, TypeInv, RecordsTypeOK
<1>5. OpInv'
  BY <1>2 DEF OpInv, TrimOps, ExpireOps
<1>6. QED
  BY <1>2, <1>3, <1>4, <1>5, RecordStep DEF TrimDrop, Operations, DeviceInv, TypeInv, RecordsTypeOK

LEMMA ExpireDevice == ASSUME DeviceInv, ExpireCached PROVE DeviceInv'
<1>0. op \in ExpireOps /\ op.key \in Keys /\ "flash" \in Media
  BY OpKinds DEF ExpireCached, DeviceInv, TypeInv, ExpireOps, Media
<1>1. file' \in [Media -> [Keys -> Copies]] /\ \A n \in Media, j \in Keys : file'[n][j] # NoFile => j \in written
  BY <1>0, RemovalDevice DEF ExpireCached
<1>2. op' \in TrimOps
  BY DEF ExpireCached, TrimOps, Media
<1>3. OpInv'
  BY <1>2 DEF OpInv, TrimOps
<1>4. QED
  BY <1>1, <1>2, <1>3, RecordStep DEF ExpireCached, history, Operations, DeviceInv, TypeInv, RecordsTypeOK

-----------------------------------------------------------------------------
(* Loss of power and the boot after it.                                    *)

\* Where a write of a record may have been cut.
CutCommit(g) ==
  /\ op.kind = "commit"
  /\ MustWrite
  /\ g \in WriteCut(file[op.medium][op.key], op.record)
  /\ file' = [file EXCEPT ![op.medium][op.key] = g]
  /\ written' = written \cup {op.key}
  /\ UNCHANGED <<marker, deleted>>

LEMMA CutCommitDevice ==
  ASSUME DeviceInv, NEW g, CutCommit(g)
  PROVE  /\ op \in CommitOps /\ file' \in [Media -> [Keys -> Copies]] /\ g \in Copies
         /\ \A m \in Media, k \in Keys : file'[m][k] # NoFile => k \in written'
         /\ \A k \in written' : k \in Keys /\ Numbered(k)
         /\ DeletionInv' /\ Cutoff' = Cutoff
<1>0. op \in CommitOps /\ op.medium \in Media /\ op.key \in Keys /\ op.record \in Records
      /\ file[op.medium][op.key] \in Copies
  BY OpKinds DEF CutCommit, DeviceInv, TypeInv, CommitOps, RecordsTypeOK
<1>1. g \in Copies
  BY <1>0, CutOutcome DEF CutCommit, Preserves, Renews
<1>2. file' \in [Media -> [Keys -> Copies]] /\ \A m \in Media, k \in Keys : file'[m][k] # NoFile => k \in written'
  <2>1. /\ file' \in [Media -> [Keys -> Copies]]
        /\ \A m \in Media, k \in Keys : <<m, k>> # <<op.medium, op.key>> => file'[m][k] = file[m][k]
    <3>1. file \in [Media -> [Keys -> Copies]] /\ file' = [file EXCEPT ![op.medium][op.key] = g]
      BY DEF CutCommit, DeviceInv, TypeInv, RecordsTypeOK
    <3>2. QED
      BY <1>0, <1>1, <3>1
  <2>2. \A m \in Media, k \in Keys : file[m][k] # NoFile => k \in written
    BY DEF DeviceInv, NumbersInv
  <2>3. ASSUME NEW m \in Media, NEW k \in Keys, file'[m][k] # NoFile PROVE k \in written \cup {op.key}
    BY <2>1, <2>2, <2>3
  <2>4. QED
    BY <2>1, <2>3 DEF CutCommit
<1>3. op.key \in written \/ (Numbered(op.key) /\ op.key > Cutoff)
  BY DEF CutCommit, DeviceInv, OpInv
<1>4. \A k \in written' : k \in Keys /\ Numbered(k)
  BY <1>0, <1>3 DEF CutCommit, DeviceInv, NumbersInv, TypeInv, RecordsTypeOK
<1>5. Cutoff' = Cutoff
  BY DEF CutCommit, Cutoff
<1>6. DeletionInv'
  <2>1. Cutoff \in Nat /\ op.key \in Nat
    BY <1>0, Basics DEF DeviceInv
  <2>2. QED
    BY <1>3, <1>5, <2>1 DEF CutCommit, DeviceInv, DeletionInv
<1>7. QED
  BY <1>0, <1>1, <1>2, <1>4, <1>5, <1>6

CutTombstone ==
  /\ op.kind = "tombstone"
  /\ marker' \in WriteCut(marker, op.through)
  /\ deleted' = IF marker'.path = op.through THEN deleted \cup written ELSE deleted
  /\ UNCHANGED <<file, written>>

LEMMA CutTombstoneDevice ==
  ASSUME DeviceInv, CutTombstone
  PROVE  /\ marker' \in [path : Keys \cup {0, Absent}, bak : Keys \cup {0, Absent}] /\ MarkerOrder'
         /\ Cutoff' \in Nat /\ Cutoff' < device.lastCounter /\ Cutoff <= Cutoff'
         /\ DeletionInv'
<1>1. /\ op.through \in Keys \cup {0} /\ op.through \in Nat /\ Cutoff <= op.through
      /\ op.through < device.lastCounter /\ \A k \in written : k <= op.through
  BY TombstoneFacts DEF CutTombstone
<1>2. /\ Cutoff \in Nat /\ Cutoff < device.lastCounter /\ marker \in Marks /\ InOrder(marker)
      /\ marker.path \in Keys \cup {0, Absent} /\ marker.bak \in Keys \cup {0, Absent}
  BY Basics DEF DeviceInv, CeilingInv
<1>3. CASE marker' \in WriteOk(marker, op.through)
  <2>1. marker' \in Marks /\ InOrder(marker') /\ Through(marker') = op.through /\ marker'.path = op.through
        /\ {marker'.path, marker'.bak} \subseteq {marker.path, marker.bak, op.through, Absent}
    BY <1>1, <1>2, <1>3, MarkOk DEF Cutoff
  <2>2. Cutoff' = op.through
    BY <2>1 DEF Cutoff
  <2>3. DeletionInv'
    BY <1>1, <2>1, <2>2 DEF CutTombstone, DeviceInv, DeletionInv
  <2>4. QED
    BY <1>1, <1>2, <2>1, <2>2, <2>3, TypedMarker DEF MarkerOrder, InOrder
<1>4. CASE marker' \in WriteFailed(marker)
  <2>1. marker' \in Marks /\ InOrder(marker') /\ Through(marker') = Through(marker)
        /\ {marker'.path, marker'.bak} \subseteq {marker.path, marker.bak, Absent}
    BY <1>2, <1>4, MarkFailed
  <2>2. Cutoff' = Cutoff
    BY <2>1 DEF Cutoff
  <2>3. marker'.path = op.through => Cutoff = op.through
    BY <1>1, <1>2, <2>1, ThroughFacts DEF Cutoff
  <2>4. DeletionInv'
    BY <1>1, <2>2, <2>3 DEF CutTombstone, DeviceInv, DeletionInv
  <2>5. QED
    BY <1>1, <1>2, <2>1, <2>2, <2>4, TypedMarker DEF MarkerOrder, InOrder
<1>5. QED
  BY <1>3, <1>4 DEF CutTombstone, WriteCut, WriteFailed

LEMMA PowerCases ==
  ASSUME PowerCycle
  PROVE  (\E g : CutCommit(g)) \/ CutTombstone \/ UNCHANGED <<file, marker, written, deleted>>
  BY DEF PowerCycle, CutCommit, CutTombstone

LEMMA Successor == ASSUME NEW n \in Nat, NEW N \in Nat, n < N PROVE n + 1 \in Nat /\ n + 1 <= N /\ 1 <= N
  OBVIOUS

LEMMA PowerDevice == ASSUME DeviceInv, PowerCycle PROVE DeviceInv'
<1>0. /\ device' = device /\ msgctr' = msgctr /\ op' = Idle /\ UNCHANGED <<acked, proved>>
      /\ reserved' = Max({1, msgctr})
      /\ next' = Max({1, msgctr, Cutoff' + 1} \cup {k + 1 : k \in Visible'})
      /\ card' \in BOOLEAN
  BY DEF PowerCycle, DeviceInv, TypeInv, RecordsTypeOK
<1>1. /\ file' \in [Media -> [Keys -> Copies]]
      /\ marker' \in [path : Keys \cup {0, Absent}, bak : Keys \cup {0, Absent}] /\ MarkerOrder'
      /\ Cutoff' \in Nat /\ Cutoff' < device.lastCounter
      /\ \A m \in Media, k \in Keys : file'[m][k] # NoFile => k \in written'
      /\ \A k \in written' : k \in Keys /\ Numbered(k)
      /\ DeletionInv'
  <2>1. ASSUME NEW g, CutCommit(g) PROVE <1>1!:
    BY <2>1, CutCommitDevice, Basics DEF CutCommit, DeviceInv, TypeInv, RecordsTypeOK, MarkerOrder, CeilingInv
  <2>2. CASE CutTombstone
    BY <2>2, CutTombstoneDevice DEF CutTombstone, DeviceInv, TypeInv, RecordsTypeOK, NumbersInv
  <2>3. CASE UNCHANGED <<file, marker, written, deleted>>
    <3>1. Cutoff' = Cutoff
      BY <2>3 DEF Cutoff
    <3>2. QED
      BY <2>3, <3>1, Basics DEF DeviceInv, TypeInv, RecordsTypeOK, MarkerOrder, CeilingInv, NumbersInv, DeletionInv
  <2>4. QED
    BY <2>1, <2>2, <2>3, PowerCases
<1> DEFINE S == {1, msgctr, Cutoff' + 1} \cup {k + 1 : k \in Visible'}
<1>2. /\ msgctr \in Nat /\ msgctr <= device.lastCounter /\ device.lastCounter \in Nat /\ 2 <= device.lastCounter
      /\ device.lastCounter <= MaxCounter /\ MaxCounter \in Nat
  BY Basics DEF DeviceInv, TypeInv, RecordsTypeOK, CeilingInv
<1>3. reserved' = IF msgctr = 0 THEN 1 ELSE msgctr
  <2>1. Max({1, msgctr}) \in {1, msgctr} /\ \A y \in {1, msgctr} : y <= Max({1, msgctr})
    <3>1. \A y \in {1, msgctr} : y <= device.lastCounter
      BY <1>2
    <3>2. QED
      BY <1>2, <3>1, Greatest
  <2>2. QED
    BY <1>0, <1>2, <2>1
<1>4. \A k \in Visible' : k \in Nat /\ k < msgctr
  <2>1. \A k \in Visible' : k \in written'
    BY <1>1 DEF Visible, Found
  <2>2. QED
    BY <1>1, <2>1, Basics DEF Numbered, DeviceInv
<1>5. S \in SUBSET Nat /\ S # {} /\ \A x \in S : x <= device.lastCounter
  <2>1. \A k \in Visible' : k + 1 \in Nat /\ k + 1 <= device.lastCounter
    BY <1>2, <1>4
  <2>2. Cutoff' + 1 \in Nat /\ Cutoff' + 1 <= device.lastCounter /\ 1 <= device.lastCounter
    BY <1>1, <1>2, Successor
  <2>3. QED
    BY <1>2, <2>1, <2>2
<1>6. Max(S) \in S /\ \A y \in S : y <= Max(S)
  <2> HIDE DEF S
  <2>1. QED
    BY <1>2, <1>5, Greatest
<1>7. next' = Max(S) /\ 1 \in S /\ msgctr \in S
  BY <1>0
<1> HIDE DEF S
<1>8. next' \in Nat /\ 1 <= next' /\ next' <= device.lastCounter /\ msgctr <= next'
  BY <1>5, <1>6, <1>7
<1>9. TypeInv'
  <2>1. msgctr' \in 0 .. MaxCounter /\ next' \in 1 .. MaxCounter /\ reserved' \in 1 .. MaxCounter
    BY <1>0, <1>2, <1>3, <1>8
  <2>2. op' \in Operations /\ op'.kind = "idle"
    BY <1>0 DEF Operations, Idle
  <2>3. written' \subseteq Keys /\ deleted' \subseteq Keys
    BY <1>1 DEF DeletionInv
  <2>4. QED
    BY <1>0, <1>1, <2>1, <2>2, <2>3 DEF DeviceInv, TypeInv, RecordsTypeOK
<1>10. CeilingInv'
  BY <1>0, <1>1, <1>2, <1>3, <1>8 DEF CeilingInv
<1>11. NumbersInv'
  <2>1. \A k \in written' : k \in Nat /\ k < msgctr
    BY <1>1, Basics DEF Numbered, DeviceInv
  <2>2. \A k \in written' : k < next' /\ k < msgctr'
    BY <1>0, <1>2, <1>8, <2>1
  <2>3. QED
    BY <1>1, <2>2 DEF NumbersInv, Numbered
<1>12. OpInv'
  BY <1>0 DEF OpInv, Idle
<1>13. QED
  BY <1>1, <1>9, <1>10, <1>11, <1>12 DEF DeviceInv
LEMMA DeviceInvNext == DeviceInv /\ [Next]_vars => DeviceInv'
<1> SUFFICES ASSUME DeviceInv, [Next]_vars PROVE DeviceInv'
  OBVIOUS
<1>1. CASE UNCHANGED vars
  <2>1. UNCHANGED <<file, marker, msgctr, next, reserved, card, device, op, written, acked, proved, deleted>>
    BY <1>1 DEF vars, store, counters, hardware, history
  <2>2. Cutoff' = Cutoff /\ Visible' = Visible
    BY <2>1 DEF Cutoff, Visible, Found, Ready
  <2>3. QED
    BY <2>1, <2>2 DEF DeviceInv, TypeInv, RecordsTypeOK, MarkerOrder, CeilingInv, NumbersInv, Numbered, DeletionInv, OpInv
<1>2. CASE Next
  BY <1>2, NewRecord, DuplicateDevice, ReserveFailsDevice, UpdateDevice, MarkReadDevice, MarkNextDevice,
     CommitDevice, PlainDevice, EraseMarkDevice, EraseRefusedDevice, EraseFilesDevice, TrimDevice,
     TrimRepairDevice, TrimDropDevice, ExpireDevice, PowerDevice DEF Next
<1>3. QED
  BY <1>1, <1>2

LEMMA DeviceInvHolds == Spec => []DeviceInv
  BY InitDevice, DeviceInvNext, PTL DEF Spec

\* A new record never gets the number of an earlier one, whatever was lost with
\* the power and whichever medium is missing (MessageTransactions.cpp:252-288).
THEOREM FreshNumbers == Spec => []CountersFresh
<1>1. DeviceInv => CountersFresh
  BY DEF DeviceInv, TypeInv, OpInv, CountersFresh
<1>2. QED
  BY <1>1, DeviceInvHolds, PTL

\* What a deletion covered never comes back, not with a power loss before its
\* files are removed nor with a card that was away (MessageTransactions.cpp:404-457).
THEOREM DeletionHolds == Spec => []DeletedStaysDeleted
<1>1. DeviceInv => DeletedStaysDeleted
  <2> SUFFICES ASSUME DeviceInv, NEW k \in Visible, k \in deleted PROVE FALSE
    BY DEF DeletedStaysDeleted
  <2>1. k \in Nat /\ Cutoff \in Nat /\ k > Cutoff
    BY Basics DEF DeviceInv, Visible
  <2>2. k <= Cutoff
    BY DEF DeviceInv, DeletionInv
  <2>3. QED
    BY <2>1, <2>2
<1>2. QED
  BY <1>1, DeviceInvHolds, PTL
-----------------------------------------------------------------------------
(* Every step keeps the invariant of a device whose card stays.            *)

LEMMA CopyFacts ==
  ASSUME DeviceInv, NEW k \in Keys
  PROVE  /\ CopySet(k) \subseteq Records /\ CopySet(k) \subseteq CopyOrRecord(k)
         /\ CopyOrRecord(k) \subseteq Records
         /\ \A r : r \in CopyOrRecord(k) <=> r \in CopySet(k) \/ (r \in Records /\ Committing(k) /\ r = op.record)
         /\ CopySet(k) # {} => k \in written
<1>1. CopySet(k) \subseteq Records
  BY ReadCopies DEF DeviceInv
<1>2. CopySet(k) # {} => k \in written
  <2>1. ASSUME NEW m \in Media, file[m][k] = NoFile PROVE FileCopies(file[m][k]) = {}
    BY <2>1 DEF NoFile, FileCopies
  <2>2. "flash" \in Media /\ "card" \in Media
    BY DEF Media
  <2>3. QED
    BY <2>1, <2>2 DEF CopySet, DeviceInv, NumbersInv
<1>3. QED
  BY <1>1, <1>2 DEF CopyOrRecord

LEMMA MarkTyped == ASSUME NEW g \in [path : Keys \cup {0, Absent}, bak : Keys \cup {0, Absent}] PROVE g \in Marks
  BY DEF Marks, Keys

LEMMA Revisions == ASSUME NEW r \in Records PROVE r.rev \in Nat
  BY DEF Records

\* The newest copy is not lost.
Lasting(k) == \A q \in CopySet(k) : \E r \in CopySet(k)' : q.rev <= r.rev
\* A record of that key may have been acknowledged by this step.
Committed(k) == Committing(k) /\ op.record \in CopySet(k)'

\* A step that brings no record but the one that is being committed, and keeps
\* the newest copy of every record that is owed.
CardStep ==
  /\ UNCHANGED <<card, device>> /\ Cutoff <= Cutoff' /\ deleted \subseteq deleted' /\ written \subseteq written'
  /\ \A m \in Media, k \in Keys : Ordered(file'[m][k])
  /\ \A k \in Keys : CopySet(k)' \subseteq CopyOrRecord(k)
  /\ \A k \in Keys \ deleted' : acked'[k] # 0 \/ (KeepsAll /\ k \in proved) => Lasting(k)
  /\ \A k \in Keys : acked'[k] \in {0, acked[k]} \/ (Committed(k) /\ acked'[k] = op.record.rev)
  /\ \A k \in proved' : k \in proved \/ (Committed(k) /\ op.record.state = "delivered")
  /\ op'.kind = "expire" => ~KeepsAll /\ acked'[op'.key] = 0
  /\ op'.kind = "commit" => /\ op.kind = "commit" /\ op'.key = op.key /\ op'.record = op.record
                            /\ op'.done => \A k \in Keys : Committing(k) => Committed(k)

LEMMA CardStepKeeps ==
  ASSUME DeviceInv, DeviceInv', CardInv, CardStep
  PROVE  CardInv'
<1> USE DEF CardStep
<1>1. /\ card' = card /\ device' = device /\ (KeepsAll' <=> KeepsAll)
      /\ Keys \subseteq Nat /\ Cutoff \in Nat /\ Cutoff' \in Nat /\ proved' \subseteq Keys
      /\ op.kind = "commit" => op.key \in Keys /\ op.record \in Records
  <2>1. marker' \in [path : Keys \cup {0, Absent}, bak : Keys \cup {0, Absent}]
    BY DEF DeviceInv, TypeInv, RecordsTypeOK
  <2>2. Cutoff' \in Nat
    BY <2>1, MarkTyped, ThroughFacts DEF Cutoff
  <2>3. op.kind = "commit" => op.key \in Keys /\ op.record \in Records
    BY OpKinds DEF DeviceInv, TypeInv, CommitOps
  <2>4. QED
    BY <2>2, <2>3, Basics DEF DeviceInv, TypeInv, RecordsTypeOK, KeepsAll
<1>2. ASSUME NEW k \in Keys
      PROVE  /\ CopySet(k)' \subseteq CopyOrRecord(k) /\ CopyOrRecord(k) \subseteq Records
             /\ CopyOrRecord(k)' \subseteq CopyOrRecord(k)
             /\ CopySet(k)' # {} => k \in written'
  <2>1. CopySet(k)' \subseteq CopyOrRecord(k) /\ CopyOrRecord(k) \subseteq Records
    BY CopyFacts
  <2>2. Committing(k)' => Committing(k) /\ op'.record = op.record
    BY DEF Committing
  <2>3. \A r : r \in CopyOrRecord(k)' <=> r \in CopySet(k)' \/ (r \in Records /\ Committing(k)' /\ r = op'.record)
    BY DEF CopyOrRecord
  <2>4. CopyOrRecord(k)' \subseteq CopyOrRecord(k)
    BY <2>1, <2>2, <2>3, CopyFacts
  <2>5. CopySet(k)' # {} => k \in written'
    <3>1. ASSUME NEW m \in Media, file'[m][k] = NoFile PROVE FileCopies(file'[m][k]) = {}
      BY <3>1 DEF NoFile, FileCopies
    <3>2. "flash" \in Media /\ "card" \in Media
      BY DEF Media
    <3>3. QED
      BY <3>1, <3>2 DEF CopySet, DeviceInv, NumbersInv
  <2>6. QED
    BY <2>1, <2>4, <2>5
<1>3. \A k \in Keys : Committed(k) => k = op.key /\ op.kind = "commit" /\ op.record \in CopySet(k)' /\ k \in written'
  BY <1>2 DEF Committed, Committing
<1>4. ASSUME NEW k \in Keys, op.kind = "commit", k = op.key
      PROVE  \A q \in CopyOrRecord(k) : q.rev <= op.record.rev /\ q.rev \in Nat /\ op.record.rev \in Nat
  <2>1. \A q \in CopySet(k) : q.rev <= op.record.rev
    BY <1>4 DEF CardInv, RevisionsInv
  <2>2. \A q \in CopyOrRecord(k) : q \in CopySet(k) \/ q = op.record
    BY CopyFacts
  <2>3. op.record.rev \in Nat /\ \A q \in CopyOrRecord(k) : q.rev \in Nat
    BY <1>1, <1>4, CopyFacts, Revisions
  <2>4. QED
    BY <2>1, <2>2, <2>3
<1>5. RevisionsInv'
  <2>1. \A k \in Keys : \A q, r \in CopyOrRecord(k)' : q.rev = r.rev => q = r
    BY <1>2 DEF CardInv, RevisionsInv
  <2>2. ASSUME op'.kind = "commit", NEW k \in Keys, k = op'.key
        PROVE  \A q \in CopySet(k)' : q.rev <= op'.record.rev
    BY <1>2, <1>4, <2>2
  <2>3. op'.kind = "commit" => \A q \in CopySet(op.key)' : q.rev <= op'.record.rev
    <3>1. op'.kind = "commit" => op'.key \in Keys
      BY <1>1
    <3>2. QED
      BY <2>2, <3>1
  <2>4. QED
    BY <2>1, <2>3 DEF RevisionsInv
<1>6. MessageInv'
  <2>1. \A k \in Keys : k > Cutoff' => k > Cutoff
    BY <1>1
  <2>2. QED
    BY <1>2, <2>1 DEF CardInv, MessageInv
<1>7. AckInv'
  <2>1. ASSUME NEW k \in Keys \ deleted', acked'[k] # 0
        PROVE  k \in written' /\ \E q \in CopySet(k)' : acked'[k] <= q.rev
    <3>1. CASE Committed(k) /\ acked'[k] = op.record.rev
      BY <1>1, <1>3, <3>1, Revisions
    <3>2. CASE acked'[k] = acked[k]
      <4>1. PICK q \in CopySet(k) : acked[k] <= q.rev
        BY <2>1, <3>2 DEF CardInv, AckInv
      <4>2. PICK r \in CopySet(k)' : q.rev <= r.rev
        BY <2>1, <4>1 DEF Lasting
      <4>3. acked[k] \in Nat /\ q.rev \in Nat /\ r.rev \in Nat
        BY <1>2, <4>1, <4>2, CopyFacts, Revisions DEF DeviceInv, TypeInv, RecordsTypeOK
      <4>4. QED
        BY <1>2, <3>2, <4>1, <4>2, <4>3
    <3>3. QED
      BY <2>1, <3>1, <3>2
  <2>2. op'.kind = "commit" /\ op'.done => op'.record \in CopySet(op.key)'
    <3>1. ASSUME op'.kind = "commit", op'.done, NEW k \in Keys, k = op'.key
          PROVE  op'.record \in CopySet(k)'
      BY <1>1, <1>3, <3>1 DEF Committing
    <3>2. op'.kind = "commit" => op'.key \in Keys
      BY <1>1
    <3>3. QED
      BY <3>1, <3>2
  <2>3. op'.kind = "expire" => acked'[op'.key] = 0
    OBVIOUS
  <2>4. QED
    BY <2>1, <2>2, <2>3 DEF AckInv
<1>8. ASSUME KeepsAll PROVE ProvedInv'
  <2>0. ProvedInv
    BY <1>8 DEF CardInv
  <2>1. op'.kind # "expire"
    BY <1>8
  <2>2. proved' \subseteq written'
    BY <1>1, <1>3, <2>0 DEF ProvedInv
  <2>3. ASSUME NEW k \in proved' \ deleted'
        PROVE  \E q \in CopySet(k)' : q.state = "delivered" /\ \A r \in CopySet(k)' : r.rev <= q.rev
    <3>0. k \in Keys /\ k \notin deleted
      BY <1>1, <2>3
    <3>1. CASE op.kind = "commit" /\ k = op.key /\ op.record \in CopySet(k)' /\ op.record.state = "delivered"
      BY <1>2, <1>4, <3>0, <3>1
    <3>2. CASE k \in proved /\ ~(op.kind = "commit" /\ k = op.key /\ op.record \in CopySet(k)')
      <4>1. PICK q \in CopySet(k) : q.state = "delivered" /\ \A r \in CopySet(k) : r.rev <= q.rev
        BY <2>0, <3>0, <3>2 DEF ProvedInv
      <4>2. CopySet(k)' \subseteq CopySet(k)
        BY <1>2, <3>0, <3>2, CopyFacts DEF Committing
      <4>3. PICK r \in CopySet(k)' : q.rev <= r.rev
        BY <1>8, <2>3, <3>0, <3>2, <4>1 DEF Lasting
      <4>4. q.rev \in Nat /\ r.rev \in Nat /\ r.rev <= q.rev /\ q \in CopyOrRecord(k) /\ r \in CopyOrRecord(k)
        BY <3>0, <4>1, <4>2, <4>3, CopyFacts, Revisions
      <4>5. q.rev = r.rev
        BY <4>3, <4>4
      <4>6. q = r
        BY <3>0, <4>4, <4>5 DEF CardInv, RevisionsInv
      <4>7. QED
        BY <4>1, <4>2, <4>3, <4>6
    <3>3. CASE k \in proved /\ op.kind = "commit" /\ k = op.key /\ op.record \in CopySet(k)'
      <4>1. op.record.state = "delivered"
        BY <2>0, <3>0, <3>3 DEF ProvedInv
      <4>2. QED
        BY <3>1, <3>3, <4>1
    <3>4. k \in proved \/ (Committed(k) /\ op.record.state = "delivered")
      BY <2>3
    <3>5. QED
      BY <1>3, <3>0, <3>1, <3>2, <3>3, <3>4
  <2>4. op'.kind = "commit" /\ op'.key \in proved' \ deleted' => op'.record.state = "delivered"
    BY <1>1, <2>0 DEF ProvedInv
  <2>5. QED
    BY <2>1, <2>2, <2>3, <2>4 DEF ProvedInv
<1>9. QED
  BY <1>1, <1>5, <1>6, <1>7, <1>8 DEF CardInv

\* The beginning of a commit, of a record that is newer than every copy or is
\* the newest; a new one is of a message that has no record.
BeginStep(k, r) ==
  /\ UNCHANGED <<file, marker, card, device, history>>
  /\ op.kind # "commit"
  /\ op'.kind = "commit" /\ ~op'.done /\ op'.key = k /\ op'.record = r
  /\ \A q \in CopySet(k) : q.rev < r.rev \/ (q.rev <= r.rev /\ r \in CopySet(k))
  /\ \/ \E p \in CopySet(k) : p.id = r.id /\ (Incoming(p) <=> Incoming(r))
     \/ /\ CopySet(k) = {} /\ (Incoming(r) <=> r.id # NoId)
        /\ \A j \in Keys : j > Cutoff => \A q \in CopySet(j) : Incoming(q) \/ Incoming(r) => q.id # r.id
  /\ KeepsAll /\ k \in proved \ deleted => r.state = "delivered"

LEMMA BeginKeeps ==
  ASSUME DeviceInv, CardInv, NEW k \in Keys, NEW r \in Records, BeginStep(k, r)
  PROVE  CardInv'
<1> USE DEF BeginStep
<1>1. Cutoff' = Cutoff /\ (KeepsAll' <=> KeepsAll) /\ card' = card
  BY DEF Cutoff, KeepsAll
<1>2. \A j \in Keys : CopySet(j)' = CopySet(j)
  BY DEF CopySet
<1>3. ASSUME NEW j \in Keys
      PROVE  /\ CopyOrRecord(j) = CopySet(j) /\ CopySet(j) \subseteq Records
             /\ CopyOrRecord(j)' = CopySet(j) \cup {q \in {r} : j = k}
  <2>1. \A q : q \in CopyOrRecord(j)' <=> q \in CopySet(j) \/ (q \in Records /\ Committing(j)' /\ q = op'.record)
    BY <1>2 DEF CopyOrRecord
  <2>2. Committing(j)' <=> j = k
    BY DEF Committing
  <2>3. \A q : q \in CopyOrRecord(j)' <=> q \in CopySet(j) \/ (q = r /\ j = k)
    BY <2>1, <2>2
  <2>4. CopyOrRecord(j) = CopySet(j) /\ CopySet(j) \subseteq Records
    BY CopyFacts DEF Committing
  <2>5. QED
    BY <2>3, <2>4
<1>4. RevisionsInv'
  <2>1. \A q \in CopySet(k) : q.rev \in Nat /\ r.rev \in Nat
    BY <1>3, Revisions
  <2>2. \A j \in Keys : \A p, q \in CopySet(j) : p.rev = q.rev => p = q
    BY <1>3 DEF CardInv, RevisionsInv
  <2>3. \A q \in CopySet(k) : q.rev = r.rev => q = r
    BY <2>1, <2>2
  <2>4. ASSUME NEW j \in Keys, NEW p \in CopyOrRecord(j)', NEW q \in CopyOrRecord(j)', p.rev = q.rev PROVE p = q
    BY <1>3, <2>2, <2>3, <2>4
  <2>5. \A q \in CopySet(k) : q.rev <= r.rev
    BY <2>1
  <2>6. \A q \in CopySet(op.key)' : q.rev <= op'.record.rev
    <3>1. ASSUME NEW j \in Keys, j = op'.key PROVE \A q \in CopySet(j)' : q.rev <= op'.record.rev
      BY <1>2, <2>5, <3>1
    <3>2. QED
      BY <3>1
  <2>7. \A m \in Media, j \in Keys : Ordered(file'[m][j])
    BY DEF CardInv, RevisionsInv
  <2>8. QED
    BY <2>4, <2>6, <2>7 DEF RevisionsInv
<1>5. MessageInv'
  <2>1. /\ \A j \in Keys : \A p, q \in CopySet(j) : p.id = q.id
        /\ \A j \in Keys : \A q \in CopySet(j) : Incoming(q) <=> q.id # NoId
        /\ \A i, j \in Keys : i > Cutoff /\ j > Cutoff =>
             \A p \in CopySet(i), q \in CopySet(j) : Incoming(p) /\ p.id = q.id => i = j
    BY <1>3 DEF CardInv, MessageInv
  <2>2. CASE \E p \in CopySet(k) : p.id = r.id /\ (Incoming(p) <=> Incoming(r))
    <3>1. PICK p \in CopySet(k) : p.id = r.id /\ (Incoming(p) <=> Incoming(r))
      BY <2>2
    <3>2. ASSUME NEW j \in Keys, NEW q \in CopyOrRecord(j)'
          PROVE  \E c \in CopySet(j) : c.id = q.id /\ (Incoming(c) <=> Incoming(q))
      BY <1>3, <3>1
    <3>3. QED
      BY <1>1, <2>1, <3>2 DEF MessageInv
  <2>3. CASE /\ CopySet(k) = {} /\ (Incoming(r) <=> r.id # NoId)
             /\ \A j \in Keys : j > Cutoff => \A q \in CopySet(j) : Incoming(q) \/ Incoming(r) => q.id # r.id
    <3>1. \A j \in Keys : \A q \in CopyOrRecord(j)' : (j = k /\ q = r) \/ (j # k /\ q \in CopySet(j))
      BY <1>3, <2>3
    <3>2. \A j \in Keys : \A p, q \in CopyOrRecord(j)' : p.id = q.id
      BY <2>1, <3>1
    <3>3. \A j \in Keys : \A q \in CopyOrRecord(j)' : Incoming(q) <=> q.id # NoId
      BY <2>1, <2>3, <3>1
    <3>4. ASSUME NEW i \in Keys, NEW j \in Keys, i > Cutoff, j > Cutoff,
                 NEW p \in CopyOrRecord(i)', NEW q \in CopyOrRecord(j)', Incoming(p), p.id = q.id
          PROVE  i = j
      BY <2>1, <2>3, <3>1, <3>4
    <3>5. QED
      BY <1>1, <3>2, <3>3, <3>4 DEF MessageInv
  <2>4. QED
    BY <2>2, <2>3
<1>6. AckInv'
  BY <1>2 DEF CardInv, AckInv, history
<1>7. KeepsAll => ProvedInv'
  <2>1. KeepsAll => \A j \in proved' \ deleted' : \E q \in CopySet(j)' : q.state = "delivered" /\ \A p \in CopySet(j)' : p.rev <= q.rev
    <3>1. proved \subseteq Keys
      BY DEF DeviceInv, TypeInv, RecordsTypeOK
    <3>2. QED
      BY <1>2, <3>1 DEF CardInv, ProvedInv, history
  <2>2. QED
    BY <2>1 DEF CardInv, ProvedInv, history
<1>8. QED
  BY <1>1, <1>4, <1>5, <1>6, <1>7 DEF CardInv

\* What a change of the files does to the copies of a record.
LEMMA PreservedCopies ==
  ASSUME DeviceInv, CardInv, NEW k \in Keys, \A m \in Media : Preserves(file[m][k], file'[m][k])
  PROVE  CopySet(k)' \subseteq CopySet(k) /\ Lasting(k) /\ \A m \in Media : Ordered(file'[m][k])
<1>1. \A m \in Media : Ordered(file[m][k])
  BY DEF CardInv, RevisionsInv
<1>2. ASSUME NEW m \in Media
      PROVE  /\ FileCopies(file'[m][k]) \subseteq FileCopies(file[m][k]) /\ Ordered(file'[m][k])
             /\ \A q \in FileCopies(file[m][k]) : \E r \in FileCopies(file'[m][k]) : q.rev <= r.rev
  BY <1>1 DEF Preserves
<1>3. "flash" \in Media /\ "card" \in Media
  BY DEF Media
<1>4. CopySet(k)' = FileCopies(file'["flash"][k]) \cup FileCopies(file'["card"][k])
  BY DEF CopySet, FileCopies
<1>5. QED
  BY <1>2, <1>3, <1>4 DEF CopySet, Lasting

LEMMA SelfPreserves == ASSUME NEW f \in Copies PROVE Preserves(f, f)
  BY FailedPreserves DEF WriteFailed

LEMMA RenewedCopies ==
  ASSUME DeviceInv, CardInv, NEW k \in Keys, NEW m \in Media, NEW v \in Records,
         Renews(file[m][k], file'[m][k], v), \A n \in Media : n # m => file'[n][k] = file[n][k],
         \A q \in CopySet(k) : q.rev <= v.rev
  PROVE  /\ CopySet(k)' \subseteq CopySet(k) \cup {v} /\ v \in CopySet(k)' /\ Lasting(k)
         /\ \A n \in Media : Ordered(file'[n][k])
<1>1. \A n \in Media : Ordered(file[n][k])
  BY DEF CardInv, RevisionsInv
<1>2. /\ CopySet(k)' = FileCopies(file'["flash"][k]) \cup FileCopies(file'["card"][k])
      /\ CopySet(k) = FileCopies(file["flash"][k]) \cup FileCopies(file["card"][k])
  BY DEF CopySet, FileCopies
<1>3. m = "flash" \/ m = "card"
  BY DEF Media
<1>4. /\ FileCopies(file'[m][k]) \subseteq FileCopies(file[m][k]) \cup {v} /\ v \in FileCopies(file'[m][k])
      /\ FileCopies(file[m][k]) \subseteq CopySet(k)
  BY <1>2, <1>3 DEF Renews
<1>5. Ordered(file'[m][k])
  BY <1>4 DEF Renews
<1>6. CopySet(k)' \subseteq CopySet(k) \cup {v} /\ v \in CopySet(k)'
  BY <1>2, <1>3, <1>4 DEF Media
<1>7. QED
  BY <1>1, <1>5, <1>6 DEF Lasting

LEMMA RemovedCopies ==
  ASSUME DeviceInv, CardInv, NEW k \in Keys, \A m \in Media : file'[m][k] \in Removals(file[m][k])
  PROVE  CopySet(k)' \subseteq CopySet(k) /\ \A m \in Media : Ordered(file'[m][k])
<1>1. \A m \in Media : Ordered(file[m][k]) /\ file[m][k] \in Copies
  BY DEF CardInv, RevisionsInv, DeviceInv, TypeInv, RecordsTypeOK
<1>2. \A m \in Media : FileCopies(file'[m][k]) \subseteq FileCopies(file[m][k]) /\ Ordered(file'[m][k])
  BY <1>1, RemovalFacts
<1>3. "flash" \in Media /\ "card" \in Media
  BY DEF Media
<1>4. CopySet(k)' = FileCopies(file'["flash"][k]) \cup FileCopies(file'["card"][k])
  BY DEF CopySet, FileCopies
<1>5. QED
  BY <1>2, <1>3, <1>4 DEF CopySet

LEMMA UntouchedCopies ==
  ASSUME DeviceInv, CardInv, NEW k \in Keys, \A m \in Media : file'[m][k] = file[m][k]
  PROVE  CopySet(k)' = CopySet(k) /\ Lasting(k) /\ \A m \in Media : Ordered(file'[m][k])
<1>1. CopySet(k)' = CopySet(k)
  BY DEF CopySet, FileCopies, Media
<1>2. \A q \in CopySet(k) : q.rev <= q.rev
  BY CopyFacts, Revisions
<1>3. QED
  BY <1>1, <1>2 DEF Lasting, CardInv, RevisionsInv

\* A step outside a commit that keeps the newest copy of every record.
LEMMA QuietKeeps ==
  ASSUME DeviceInv, DeviceInv', CardInv, UNCHANGED <<card, device, acked, proved>>,
         Cutoff <= Cutoff', deleted \subseteq deleted', written \subseteq written',
         \A k \in Keys : CopySet(k)' \subseteq CopyOrRecord(k) /\ Lasting(k) /\ \A m \in Media : Ordered(file'[m][k]),
         op'.kind \notin {"commit", "expire"}
  PROVE  CardInv'
<1>1. CardStep
  BY DEF CardStep
<1>2. QED
  BY <1>1, CardStepKeeps

LEMMA CardLoad ==
  ASSUME DeviceInv, CardInv, NEW k \in Visible
  PROVE  /\ k \in Keys /\ k > Cutoff /\ k \notin deleted
         /\ Load(k) \in CopySet(k) /\ Load(k) \in Records
         /\ \A q \in CopySet(k) : q.rev <= Load(k).rev
<1>1. k \in Keys /\ k > Cutoff /\ Load(k) \in CopySet(k) /\ Load(k) \in Records
      /\ \A q \in CopySet(k) : q.rev <= Load(k).rev
  <2>1. k \in Keys /\ card /\ TypeInv
    BY VisibleLoad DEF DeviceInv, CardInv
  <2>2. CopiesOf(k) \ {Absent} = CopySet(k)
    BY <2>1, ReadCopies
  <2>3. QED
    BY <2>1, <2>2, VisibleLoad
<1>2. k \notin deleted
  BY <1>1, Basics DEF DeviceInv, DeletionInv
<1>3. QED
  BY <1>1, <1>2

LEMMA CopyVisible ==
  ASSUME DeviceInv, CardInv, NEW k \in Keys, CopySet(k) # {}, k > Cutoff
  PROVE  k \in Visible
<1>1. ASSUME NEW m \in Media, file[m][k] = NoFile PROVE FileCopies(file[m][k]) = {}
  BY <1>1 DEF NoFile, FileCopies
<1>2. "flash" \in Media /\ "card" \in Media
  BY DEF Media
<1>3. \E m \in Media : file[m][k] # NoFile
  BY <1>1, <1>2 DEF CopySet
<1>4. QED
  BY <1>3 DEF Visible, Found, Ready, CardInv

-----------------------------------------------------------------------------
(* Steps that write no record.                                             *)

LEMMA StillKeeps ==
  ASSUME DeviceInv, DeviceInv', CardInv, UNCHANGED <<file, card, device, acked, proved, written>>,
         Cutoff <= Cutoff', deleted \subseteq deleted', op'.kind \notin {"commit", "expire"}
  PROVE  CardInv'
<1>1. \A k \in Keys : CopySet(k)' \subseteq CopyOrRecord(k) /\ Lasting(k) /\ \A m \in Media : Ordered(file'[m][k])
  BY UntouchedCopies, CopyFacts
<1>2. QED
  BY <1>1, QuietKeeps

LEMMA SameCutoff == ASSUME DeviceInv, marker' = marker PROVE Cutoff' = Cutoff /\ Cutoff <= Cutoff'
  BY Basics DEF DeviceInv, Cutoff

LEMMA QuietCard ==
  ASSUME DeviceInv, DeviceInv', CardInv, ReserveFails \/ MarkRead \/ Erase \/ EraseMark \/ EraseRefused \/ TrimNext
  PROVE  CardInv'
<1>1. CASE ReserveFails
  BY <1>1, SameCutoff, StillKeeps DEF ReserveFails, store, hardware, history, Idle
<1>2. CASE MarkRead
  BY <1>2, SameCutoff, StillKeeps DEF MarkRead, store, hardware, history
<1>3. CASE Erase
  BY <1>3, SameCutoff, StillKeeps DEF Erase, store, hardware, history
<1>4. CASE EraseMark
  <2>1. Cutoff <= Cutoff'
    <3>1. op.through \in Nat /\ Cutoff <= op.through
      BY <1>4, TombstoneFacts DEF EraseMark
    <3>2. Through(marker') = op.through
      BY <1>4, <3>1, Basics, MarkOk DEF EraseMark, Cutoff, DeviceInv
    <3>3. QED
      BY <3>1, <3>2 DEF Cutoff
  <2>2. QED
    BY <1>4, <2>1, StillKeeps DEF EraseMark, hardware
<1>5. CASE EraseRefused
  <2>1. Cutoff <= Cutoff'
    <3>1. Through(marker') = Through(marker)
      BY <1>5, Basics, MarkFailed DEF EraseRefused, DeviceInv
    <3>2. QED
      BY <3>1, Basics DEF Cutoff, DeviceInv
  <2>2. QED
    BY <1>5, <2>1, StillKeeps DEF EraseRefused, hardware, history, Idle
<1>6. CASE TrimNext
  <2>1. op'.kind \in {"trim", "idle"}
    <3>1. op \in TrimOps
      BY <1>6, OpKinds DEF TrimNext, DeviceInv, TypeInv
    <3>2. QED
      BY <1>6, <3>1 DEF TrimNext, TrimOps, Idle
  <2>2. QED
    BY <1>6, <2>1, SameCutoff, StillKeeps DEF TrimNext, store, hardware, history
<1>7. QED
  BY <1>1, <1>2, <1>3, <1>4, <1>5, <1>6

-----------------------------------------------------------------------------
(* The beginning of a commit.                                              *)

LEMMA CreateIncomingCard == ASSUME DeviceInv, CardInv, NEW id \in Ids, CreateIncoming(id) PROVE CardInv'
<1> DEFINE r == [rev |-> 1, state |-> "unread", id |-> id]
<1>1. Fresh \in Keys /\ Fresh \notin written /\ CopySet(Fresh) = {}
  <2>1. Fresh \in Keys /\ Fresh \notin written
    BY FreshFacts, Basics DEF CreateIncoming, Reserve, Keys, DeviceInv
  <2>2. QED
    BY <2>1, CopyFacts
<1>2. r \in Records /\ Incoming(r) /\ r.id # NoId /\ r.id = id
  BY DEF Records, Incoming, IncomingStates
<1>3. \A j \in Keys : j > Cutoff => \A q \in CopySet(j) : q.id # id
  <2>1. ASSUME NEW j \in Keys, j > Cutoff, NEW q \in CopySet(j), q.id = id PROVE FALSE
    <3>1. j \in Visible
      BY <2>1, CopyVisible
    <3>2. Load(j) \in CopySet(j)
      BY <3>1, CardLoad
    <3>3. Load(j).id = id
      BY <2>1, <3>2, CopyFacts DEF CardInv, MessageInv
    <3>4. QED
      BY <3>1, <3>3 DEF CreateIncoming, SameMessage
  <2>2. QED
    BY <2>1
<1>4. KeepsAll /\ Fresh \in proved \ deleted => r.state = "delivered"
  BY <1>1 DEF CardInv, ProvedInv
<1>5. BeginStep(Fresh, r)
  <2> HIDE DEF r
  <2>1. Commit(Fresh, r, TRUE, {}) /\ op = Idle /\ UNCHANGED <<file, marker, hardware, history>>
    BY DEF CreateIncoming, r
  <2>2. op.kind # "commit" /\ op'.kind = "commit" /\ ~op'.done /\ op'.key = Fresh /\ op'.record = r
    BY <2>1 DEF Commit, Idle
  <2>3. QED
    BY <1>1, <1>2, <1>3, <1>4, <2>1, <2>2 DEF BeginStep, hardware
<1>6. QED
  <2> HIDE DEF r
  <2>1. QED
    BY <1>1, <1>2, <1>5, BeginKeeps

LEMMA CreateOutgoingCard == ASSUME DeviceInv, CardInv, CreateOutgoing PROVE CardInv'
<1> DEFINE r == [rev |-> 1, state |-> "sent", id |-> NoId]
<1>1. Fresh \in Keys /\ Fresh \notin written /\ CopySet(Fresh) = {}
  <2>1. Fresh \in Keys /\ Fresh \notin written
    BY FreshFacts, Basics DEF CreateOutgoing, Reserve, Keys, DeviceInv
  <2>2. QED
    BY <2>1, CopyFacts
<1>2. r \in Records /\ ~Incoming(r) /\ r.id = NoId
  BY DEF Records, Incoming, IncomingStates, OutgoingStates
<1>3. \A j \in Keys : j > Cutoff => \A q \in CopySet(j) : Incoming(q) => q.id # NoId
  BY CopyFacts DEF CardInv, MessageInv
<1>4. KeepsAll /\ Fresh \in proved \ deleted => r.state = "delivered"
  BY <1>1 DEF CardInv, ProvedInv
<1>5. BeginStep(Fresh, r)
  <2> HIDE DEF r
  <2>1. Commit(Fresh, r, TRUE, {}) /\ op = Idle /\ UNCHANGED <<file, marker, hardware, history>>
    BY DEF CreateOutgoing, r
  <2>2. op.kind # "commit" /\ op'.kind = "commit" /\ ~op'.done /\ op'.key = Fresh /\ op'.record = r
    BY <2>1 DEF Commit, Idle
  <2>3. QED
    BY <1>1, <1>2, <1>3, <1>4, <2>1, <2>2 DEF BeginStep, hardware
<1>6. QED
  <2> HIDE DEF r
  <2>1. QED
    BY <1>1, <1>2, <1>5, BeginKeeps

\* A record that is committed again as it was read.
LEMMA AgainCard ==
  ASSUME DeviceInv, CardInv, op.kind # "commit", NEW k \in Visible, Commit(k, Load(k), FALSE, {}),
         UNCHANGED <<store, counters, hardware, history>>
  PROVE  CardInv'
<1>1. k \in Keys /\ k \notin deleted /\ Load(k) \in CopySet(k) /\ Load(k) \in Records
      /\ \A q \in CopySet(k) : q.rev <= Load(k).rev
  BY CardLoad
<1>2. KeepsAll /\ k \in proved \ deleted => Load(k).state = "delivered"
  <2>1. ASSUME KeepsAll, k \in proved \ deleted PROVE Load(k).state = "delivered"
    <3>1. PICK q \in CopySet(k) : q.state = "delivered" /\ \A p \in CopySet(k) : p.rev <= q.rev
      BY <2>1 DEF CardInv, ProvedInv
    <3>2. q.rev = Load(k).rev
      BY <1>1, <3>1, CopyFacts, Revisions
    <3>3. QED
      BY <1>1, <3>1, <3>2, CopyFacts DEF CardInv, RevisionsInv
  <2>2. QED
    BY <2>1
<1>3. BeginStep(k, Load(k))
  <2>1. op'.kind = "commit" /\ ~op'.done /\ op'.key = k /\ op'.record = Load(k)
    BY DEF Commit
  <2>2. QED
    BY <1>1, <1>2, <2>1 DEF BeginStep, store, hardware
<1>4. QED
  BY <1>1, <1>3, BeginKeeps

\* A record that is committed with a new status.
LEMMA BumpCard ==
  ASSUME DeviceInv, CardInv, op.kind # "commit", NEW k \in Visible, NEW s \in IncomingStates \cup OutgoingStates,
         NEW left, Load(k).rev < device.lastRevision, Load(k).state # "delivered",
         Incoming(Load(k)) <=> s \in IncomingStates,
         Commit(k, [Load(k) EXCEPT !.state = s, !.rev = @ + 1], FALSE, left),
         UNCHANGED <<store, counters, hardware, history>>
  PROVE  CardInv'
<1> DEFINE r == [Load(k) EXCEPT !.state = s, !.rev = @ + 1]
<1>1. k \in Keys /\ k \notin deleted /\ Load(k) \in CopySet(k) /\ Load(k) \in Records
      /\ \A q \in CopySet(k) : q.rev <= Load(k).rev
  BY CardLoad
<1>2. r \in Records
  BY <1>1, BumpTyped
<1>3. r.id = Load(k).id /\ r.state = s /\ r.rev = Load(k).rev + 1
  BY <1>1 DEF Records
<1>4. \A q \in CopySet(k) : q.rev < r.rev
  BY <1>1, <1>3, CopyFacts, Revisions
<1>5. Incoming(r) <=> Incoming(Load(k))
  BY <1>3 DEF Incoming
<1>6. ~(KeepsAll /\ k \in proved \ deleted)
  <2>1. ASSUME KeepsAll, k \in proved \ deleted PROVE FALSE
    <3>1. PICK q \in CopySet(k) : q.state = "delivered" /\ \A p \in CopySet(k) : p.rev <= q.rev
      BY <2>1 DEF CardInv, ProvedInv
    <3>2. q.rev = Load(k).rev
      BY <1>1, <3>1, CopyFacts, Revisions
    <3>3. QED
      BY <1>1, <3>1, <3>2, CopyFacts DEF CardInv, RevisionsInv
  <2>2. QED
    BY <2>1
<1>7. BeginStep(k, r)
  <2> HIDE DEF r
  <2>1. op'.kind = "commit" /\ ~op'.done /\ op'.key = k /\ op'.record = r
    BY DEF Commit, r
  <2>2. QED
    BY <1>1, <1>3, <1>4, <1>5, <1>6, <2>1 DEF BeginStep, store, hardware
<1>8. QED
  <2> HIDE DEF r
  <2>1. QED
    BY <1>1, <1>2, <1>7, BeginKeeps

LEMMA UpdateCard == ASSUME DeviceInv, CardInv, NEW k \in Keys, NEW s \in OutgoingStates, Update(k, s) PROVE CardInv'
<1>1. /\ k \in Visible /\ ~Incoming(Load(k)) /\ op.kind # "commit" /\ s \notin IncomingStates
      /\ UNCHANGED <<store, counters, hardware, history>>
  BY DEF Update, Idle, IncomingStates, OutgoingStates
<1>2. CASE Load(k).state = s
  BY <1>1, <1>2, AgainCard DEF Update
<1>3. CASE Load(k).state # s
  BY <1>1, <1>3, BumpCard DEF Update, MayBecome
<1>4. QED
  BY <1>2, <1>3

LEMMA DuplicateCard == ASSUME DeviceInv, CardInv, NEW id \in Ids, CreateDuplicate(id) PROVE CardInv'
<1>1. PICK k \in Visible : Commit(k, Load(k), FALSE, {})
  BY DEF CreateDuplicate, SameMessage
<1>2. op.kind # "commit" /\ UNCHANGED <<store, counters, hardware, history>>
  BY DEF CreateDuplicate, Idle
<1>3. QED
  BY <1>1, <1>2, AgainCard

LEMMA MarkNextCard == ASSUME DeviceInv, DeviceInv', CardInv, MarkNext PROVE CardInv'
<1>0. op \in MarkOps /\ op.left \subseteq Visible /\ op.kind # "commit" /\ UNCHANGED <<store, counters, hardware, history>>
  BY OpKinds DEF MarkNext, DeviceInv, TypeInv, OpInv
<1>1. PICK k \in op.left :
       IF Load(k).state = "unread" /\ Load(k).rev < device.lastRevision
       THEN Commit(k, [Load(k) EXCEPT !.state = "read", !.rev = @ + 1], FALSE, op.left \ {k})
       ELSE op' = IF op.left = {k} THEN Idle ELSE [op EXCEPT !.left = @ \ {k}]
  BY DEF MarkNext
<1>2. CASE Load(k).state = "unread" /\ Load(k).rev < device.lastRevision
  <2>1. k \in Visible /\ Incoming(Load(k)) /\ "read" \in IncomingStates /\ Load(k).state # "delivered"
    BY <1>0, <1>2 DEF Incoming, IncomingStates
  <2>2. QED
    BY <1>0, <1>1, <1>2, <2>1, BumpCard
<1>3. CASE ~(Load(k).state = "unread" /\ Load(k).rev < device.lastRevision)
  <2>1. op'.kind \in {"idle", "markRead"}
    <3>1. op' = Idle \/ op' \in MarkOps
      BY <1>0, <1>1, <1>3 DEF MarkOps
    <3>2. QED
      BY <3>1 DEF MarkOps, Idle
  <2>2. QED
    BY <1>0, <2>1, SameCutoff, StillKeeps DEF store, hardware, history
<1>4. QED
  BY <1>2, <1>3

-----------------------------------------------------------------------------
(* The steps of a commit.                                                  *)

LEMMA CommitCard ==
  ASSUME DeviceInv, DeviceInv', CardInv, op \in CommitOps, NEW done \in BOOLEAN, AfterMedium(done), Acknowledge(done),
         UNCHANGED <<marker, card, device, deleted>>, written \subseteq written',
         \A k \in Keys : CopySet(k)' \subseteq CopyOrRecord(k) /\ Lasting(k) /\ \A m \in Media : Ordered(file'[m][k]),
         done => \A k \in Keys : k = op.key => op.record \in CopySet(k)'
  PROVE  CardInv'
<1>1. op.kind = "commit" /\ op.key \in Keys
  BY DEF CommitOps
<1>2. done => \A k \in Keys : Committing(k) => Committed(k)
  BY DEF Committed, Committing
<1>3. op'.kind # "expire" /\ (op'.kind = "commit" => op'.key = op.key /\ op'.record = op.record /\ op'.done = done)
  <2>1. \/ op' = [op EXCEPT !.medium = "card", !.done = done]
        \/ op' = Idle
        \/ op' = [kind |-> "markRead", left |-> op.left]
    BY DEF AfterMedium
  <2>2. CASE op' = [op EXCEPT !.medium = "card", !.done = done]
    BY <2>2 DEF CommitOps
  <2>3. CASE op' = Idle \/ op' = [kind |-> "markRead", left |-> op.left]
    <3>1. op'.kind \in {"idle", "markRead"}
      BY <2>3 DEF Idle
    <3>2. QED
      BY <3>1
  <2>4. QED
    BY <2>1, <2>2, <2>3
<1>4. \A k \in Keys : acked'[k] \in {0, acked[k]} \/ (Committed(k) /\ acked'[k] = op.record.rev)
  BY <1>1, <1>2 DEF Acknowledge, Committing, DeviceInv, TypeInv, RecordsTypeOK
<1>5. \A k \in proved' : k \in proved \/ (Committed(k) /\ op.record.state = "delivered")
  BY <1>1, <1>2 DEF Acknowledge, Committing
<1>6. Cutoff <= Cutoff'
  BY SameCutoff
<1>7. CardStep
  BY <1>1, <1>2, <1>3, <1>4, <1>5, <1>6 DEF CardStep
<1>8. QED
  BY <1>7, CardStepKeeps

\* The file of the record that is committed, written or left after a failure.
LEMMA CommitFile ==
  ASSUME DeviceInv, CardInv, op \in CommitOps, NEW g,
         file' = [file EXCEPT ![op.medium][op.key] = g],
         Preserves(file[op.medium][op.key], g) \/ Renews(file[op.medium][op.key], g, op.record)
  PROVE  /\ \A k \in Keys : CopySet(k)' \subseteq CopyOrRecord(k) /\ Lasting(k) /\ \A m \in Media : Ordered(file'[m][k])
         /\ op.record \in CopySet(op.key) \/ Renews(file[op.medium][op.key], g, op.record)
              => \A k \in Keys : k = op.key => op.record \in CopySet(k)'
<1>0. /\ op.kind = "commit" /\ op.medium \in Media /\ op.key \in Keys /\ op.record \in Records
      /\ file \in [Media -> [Keys -> Copies]] /\ g \in Copies
  BY DEF CommitOps, DeviceInv, TypeInv, RecordsTypeOK, Preserves, Renews
<1>1. \A q \in CopySet(op.key) : q.rev <= op.record.rev
  BY <1>0 DEF CardInv, RevisionsInv
<1>2. /\ file'[op.medium][op.key] = g
      /\ \A m \in Media : m # op.medium => file'[m][op.key] = file[m][op.key]
      /\ \A m \in Media, k \in Keys : k # op.key => file'[m][k] = file[m][k]
  BY <1>0
<1>3. ASSUME NEW k \in Keys, k # op.key
      PROVE  CopySet(k)' \subseteq CopyOrRecord(k) /\ Lasting(k) /\ \A m \in Media : Ordered(file'[m][k])
  BY <1>2, <1>3, UntouchedCopies, CopyFacts
<1>4. ASSUME NEW k \in Keys, k = op.key
      PROVE  /\ CopySet(k)' \subseteq CopyOrRecord(k) /\ Lasting(k) /\ \A m \in Media : Ordered(file'[m][k])
             /\ op.record \in CopySet(k) \/ Renews(file[op.medium][k], g, op.record) => op.record \in CopySet(k)'
  <2>0. op.record \in CopyOrRecord(k) /\ CopySet(k) \subseteq CopyOrRecord(k)
    BY <1>0, <1>4, CopyFacts DEF Committing
  <2>1. CASE Renews(file[op.medium][k], g, op.record)
    BY <1>0, <1>1, <1>2, <1>4, <2>0, <2>1, RenewedCopies
  <2>2. CASE Preserves(file[op.medium][k], g) /\ ~Renews(file[op.medium][k], g, op.record)
    <3>1. \A m \in Media : Preserves(file[m][k], file'[m][k])
      <4>1. \A m \in Media : file[m][k] \in Copies
        BY <1>0
      <4>2. QED
        BY <1>0, <1>2, <1>4, <2>2, <4>1, SelfPreserves
    <3>2. CopySet(k)' \subseteq CopySet(k) /\ Lasting(k) /\ \A m \in Media : Ordered(file'[m][k])
      BY <3>1, PreservedCopies
    <3>3. op.record \in CopySet(k) => op.record \in CopySet(k)'
      <4>1. ASSUME op.record \in CopySet(k) PROVE op.record \in CopySet(k)'
        <5>1. PICK r \in CopySet(k)' : op.record.rev <= r.rev
          BY <3>2, <4>1 DEF Lasting
        <5>2. r \in CopySet(k) /\ r.rev <= op.record.rev /\ r.rev \in Nat /\ op.record.rev \in Nat
          BY <1>0, <1>1, <1>4, <3>2, <5>1, CopyFacts, Revisions
        <5>3. r.rev = op.record.rev
          BY <5>1, <5>2
        <5>4. QED
          BY <2>0, <4>1, <5>1, <5>2, <5>3 DEF CardInv, RevisionsInv
      <4>2. QED
        BY <4>1
    <3>4. QED
      BY <2>0, <2>2, <3>2, <3>3
  <2>3. QED
    BY <1>4, <2>1, <2>2
<1>5. QED
  BY <1>3, <1>4

LEMMA CommitStepsCard ==
  ASSUME DeviceInv, DeviceInv', CardInv, CommitKept \/ CommitSkip \/ CommitWrite \/ CommitFail
  PROVE  CardInv'
<1>0. /\ op \in CommitOps /\ op.kind = "commit" /\ op.medium \in Media /\ op.key \in Keys /\ op.record \in Records
      /\ op.done \in BOOLEAN /\ file[op.medium][op.key] \in Copies
      /\ (op.done => op.record \in CopySet(op.key))
  <2>1. op.kind = "commit"
    BY DEF CommitKept, CommitSkip, CommitWrite, CommitFail
  <2>2. op \in CommitOps
    BY <2>1, OpKinds DEF DeviceInv, TypeInv
  <2>3. QED
    BY <2>1, <2>2 DEF CommitOps, DeviceInv, TypeInv, RecordsTypeOK, CardInv, AckInv
<1>1. CASE CommitKept
  <2>1. op.record \in CopySet(op.key)
    <3>1. op.record # Absent
      BY <1>0
    <3>2. QED
      BY <1>0, <1>1, <3>1 DEF CommitKept, Retained, CopySet, FileCopies, Media
  <2>2. UNCHANGED <<file, marker, card, device, written, deleted>>
    BY <1>1 DEF CommitKept, store, hardware
  <2>3. \A k \in Keys : CopySet(k)' = CopySet(k) /\ Lasting(k) /\ \A m \in Media : Ordered(file'[m][k])
    BY <2>2, UntouchedCopies
  <2>4. \A k \in Keys : CopySet(k)' \subseteq CopyOrRecord(k)
    BY <2>3, CopyFacts
  <2>5. \A k \in Keys : k = op.key => op.record \in CopySet(k)'
    BY <2>1, <2>3
  <2>6. AfterMedium(TRUE) /\ Acknowledge(TRUE)
    BY <1>1 DEF CommitKept
  <2>7. QED
    BY <1>0, <2>2, <2>3, <2>4, <2>5, <2>6, CommitCard
<1>2. CASE CommitSkip
  <2>2. UNCHANGED <<file, marker, card, device, written, deleted>>
    BY <1>2 DEF CommitSkip, store, hardware
  <2>3. \A k \in Keys : CopySet(k)' = CopySet(k) /\ Lasting(k) /\ \A m \in Media : Ordered(file'[m][k])
    BY <2>2, UntouchedCopies
  <2>4. \A k \in Keys : CopySet(k)' \subseteq CopyOrRecord(k)
    BY <2>3, CopyFacts
  <2>5. op.done => \A k \in Keys : k = op.key => op.record \in CopySet(k)'
    BY <1>0, <2>3
  <2>6. AfterMedium(op.done) /\ Acknowledge(op.done)
    BY <1>2 DEF CommitSkip
  <2>7. QED
    BY <1>0, <2>2, <2>3, <2>4, <2>5, <2>6, CommitCard
<1>3. CASE CommitWrite
  <2>1. PICK g \in WriteOk(file[op.medium][op.key], op.record) : file' = [file EXCEPT ![op.medium][op.key] = g]
    BY <1>3 DEF CommitWrite
  <2>2. Renews(file[op.medium][op.key], g, op.record)
    BY <1>0, WriteRenews
  <2>3. /\ \A k \in Keys : CopySet(k)' \subseteq CopyOrRecord(k) /\ Lasting(k) /\ \A m \in Media : Ordered(file'[m][k])
        /\ \A k \in Keys : k = op.key => op.record \in CopySet(k)'
    BY <1>0, <2>1, <2>2, CommitFile
  <2>4. AfterMedium(TRUE) /\ Acknowledge(TRUE) /\ UNCHANGED <<marker, card, device, deleted>> /\ written \subseteq written'
    BY <1>3 DEF CommitWrite, hardware
  <2>5. QED
    BY <1>0, <2>3, <2>4, CommitCard
<1>4. CASE CommitFail
  <2>1. PICK g \in WriteFailed(file[op.medium][op.key]) : file' = [file EXCEPT ![op.medium][op.key] = g]
    BY <1>4 DEF CommitFail
  <2>2. Preserves(file[op.medium][op.key], g)
    BY <1>0, FailedPreserves
  <2>3. /\ \A k \in Keys : CopySet(k)' \subseteq CopyOrRecord(k) /\ Lasting(k) /\ \A m \in Media : Ordered(file'[m][k])
        /\ op.done => \A k \in Keys : k = op.key => op.record \in CopySet(k)'
    BY <1>0, <2>1, <2>2, CommitFile
  <2>4. AfterMedium(op.done) /\ Acknowledge(op.done) /\ UNCHANGED <<marker, card, device, deleted, written>>
    BY <1>4 DEF CommitFail, hardware
  <2>5. QED
    BY <1>0, <2>3, <2>4, CommitCard
<1>5. QED
  BY <1>1, <1>2, <1>3, <1>4

-----------------------------------------------------------------------------
(* Deletion, trimming and loss of power.                                   *)

LEMMA EraseFilesCard == ASSUME DeviceInv, DeviceInv', CardInv, EraseFiles PROVE CardInv'
<1>1. \A k \in Keys : CopySet(k)' \subseteq CopySet(k) /\ \A m \in Media : Ordered(file'[m][k])
  <2>1. \A m \in Media, k \in Keys : file'[m][k] \in Removals(file[m][k])
    BY EraseFilesDevice
  <2>2. QED
    BY <2>1, RemovedCopies
<1>2. \A k \in Keys \ deleted' : acked'[k] # 0 \/ (KeepsAll /\ k \in proved) => Lasting(k)
  BY DEF EraseFiles, history, DeviceInv, OpInv, CardInv, AckInv, ProvedInv
<1>3. op'.kind \in {"remove", "idle"}
  <2>1. op \in RemoveOps
    BY OpKinds DEF EraseFiles, DeviceInv, TypeInv
  <2>2. QED
    BY <2>1 DEF EraseFiles, RemoveOps, Idle
<1>4. CardStep
  <2>1. Cutoff <= Cutoff' /\ UNCHANGED <<card, device, written, acked, proved, deleted>>
    BY SameCutoff DEF EraseFiles, history, hardware
  <2>2. \A k \in Keys : CopySet(k)' \subseteq CopyOrRecord(k)
    BY <1>1, CopyFacts
  <2>3. QED
    BY <1>1, <1>2, <1>3, <2>1, <2>2 DEF CardStep
<1>5. QED
  BY <1>4, CardStepKeeps

LEMMA TrimCard == ASSUME DeviceInv, DeviceInv', CardInv, Trim PROVE CardInv'
<1>1. \A k \in Keys : CopySet(k)' \subseteq CopySet(k) /\ Lasting(k) /\ \A m \in Media : Ordered(file'[m][k])
  <2>1. \A m \in Media, k \in Keys : Preserves(file[m][k], file'[m][k])
    BY TrimDevice
  <2>2. QED
    BY <2>1, PreservedCopies
<1>2. \A k \in Keys : CopySet(k)' \subseteq CopyOrRecord(k)
  BY <1>1, CopyFacts
<1>3. Cutoff <= Cutoff' /\ UNCHANGED <<card, device, written, acked, proved, deleted>> /\ op'.kind = "trim"
  BY SameCutoff DEF Trim, history, hardware
<1>4. QED
  BY <1>1, <1>2, <1>3, QuietKeeps

LEMMA TrimRepairCard == ASSUME DeviceInv, DeviceInv', CardInv, NEW k \in Keys, TrimRepair(k) PROVE CardInv'
<1>0. /\ op \in TrimOps /\ k \in Visible /\ "card" \in Media /\ file["card"][k] \in Copies /\ file \in [Media -> [Keys -> Copies]]
      /\ Load(k) \in CopySet(k) /\ Load(k) \in Records /\ \A q \in CopySet(k) : q.rev <= Load(k).rev
  BY DropFacts, CardLoad DEF TrimRepair, DeviceInv, TypeInv, RecordsTypeOK, Media
<1>1. PICK g : /\ Preserves(file["card"][k], g) \/ Renews(file["card"][k], g, Load(k))
               /\ file' = [file EXCEPT !["card"][k] = g]
  BY <1>0, WriteRenews, FailedPreserves DEF TrimRepair
<1>2. /\ file'["card"][k] = g /\ \A m \in Media : m # "card" => file'[m][k] = file[m][k]
      /\ \A m \in Media, j \in Keys : j # k => file'[m][j] = file[m][j]
  BY <1>0, <1>1
<1>3. CopySet(k)' \subseteq CopySet(k) /\ Lasting(k) /\ \A m \in Media : Ordered(file'[m][k])
  <2>1. CASE Renews(file["card"][k], g, Load(k))
    BY <1>0, <1>2, <2>1, RenewedCopies
  <2>2. CASE Preserves(file["card"][k], g)
    <3>1. \A m \in Media : Preserves(file[m][k], file'[m][k])
      <4>1. \A m \in Media : file[m][k] \in Copies
        BY <1>0
      <4>2. QED
        BY <1>2, <2>2, <4>1, SelfPreserves
    <3>2. QED
      BY <3>1, PreservedCopies
  <2>3. QED
    BY <1>1, <2>1, <2>2
<1>4. \A j \in Keys : CopySet(j)' \subseteq CopyOrRecord(j) /\ Lasting(j) /\ \A m \in Media : Ordered(file'[m][j])
  BY <1>2, <1>3, UntouchedCopies, CopyFacts
<1>5. op'.kind = "trim"
  <2>1. op' = op \/ op' = [op EXCEPT !.tried = @ \cup {k}]
    BY DEF TrimRepair
  <2>2. QED
    BY <1>0, <2>1 DEF TrimOps
<1>6. Cutoff <= Cutoff' /\ UNCHANGED <<card, device, written, acked, proved, deleted>>
  BY SameCutoff DEF TrimRepair, history, hardware
<1>7. QED
  BY <1>4, <1>5, <1>6, QuietKeeps

\* Where the card keeps every record, none of its records is dropped.
LEMMA DropsNone == ASSUME DeviceInv, CardInv, KeepsAll, NEW k \in Keys, MustDrop(k) PROVE op.target = "flash"
<1>1. op.target = "flash" \/ op.target = "card"
  BY DropFacts DEF Media
<1>2. CASE op.target = "card"
  <2>1. Limit = device.cardLimit
    BY <1>2 DEF Limit, CacheOnly
  <2>2. Held \subseteq Keys
    BY DEF Held, Visible
  <2>3. IsFiniteSet(Keys)
    BY FS_Interval DEF Keys
  <2>4. Cardinality(Held) <= Cardinality(Keys) /\ Cardinality(Held) \in Nat /\ Cardinality(Keys) \in Nat
    BY <2>2, <2>3, FS_Subset, FS_CardinalityType
  <2>5. device.cardLimit \in Nat
    BY DEF DeviceInv, TypeInv
  <2>6. QED
    BY <2>1, <2>4, <2>5 DEF MustDrop, KeepsAll
<1>3. QED
  BY <1>1, <1>2

LEMMA TrimDropCard == ASSUME DeviceInv, DeviceInv', CardInv, NEW k \in Keys, TrimDrop(k) PROVE CardInv'
<1>0. /\ op \in TrimOps /\ op.target \in Media /\ k \in Visible /\ Completed(Load(k)) /\ file \in [Media -> [Keys -> Copies]]
      /\ Load(k) \in CopySet(k) /\ Load(k) \in Records /\ \A q \in CopySet(k) : q.rev <= Load(k).rev
  BY DropFacts, CardLoad DEF TrimDrop, DeviceInv, TypeInv, RecordsTypeOK
<1>1. PICK f \in Removals(file[op.target][k]) :
       /\ file' = [file EXCEPT ![op.target][k] = f]
       /\ op' = IF f # NoFile THEN [op EXCEPT !.tried = @ \cup {k}]
                ELSE IF op.target = "card" THEN [kind |-> "expire", key |-> k]
                ELSE [op EXCEPT !.tried = {}]
  BY DEF TrimDrop
<1>2. /\ file'[op.target][k] = f /\ \A m \in Media : m # op.target => file'[m][k] = file[m][k]
      /\ \A m \in Media, j \in Keys : j # k => file'[m][j] = file[m][j]
  BY <1>0, <1>1
<1>3. CopySet(k)' \subseteq CopySet(k) /\ \A m \in Media : Ordered(file'[m][k])
  <2>1. \A m \in Media : file'[m][k] \in Removals(file[m][k])
    BY <1>1, <1>2 DEF Removals
  <2>2. QED
    BY <2>1, RemovedCopies
<1>4. \A j \in Keys : /\ CopySet(j)' \subseteq CopyOrRecord(j) /\ \A m \in Media : Ordered(file'[m][j])
                      /\ j # k => Lasting(j)
  BY <1>2, <1>3, UntouchedCopies, CopyFacts
<1>5. Load(k).state # "sent"
  BY <1>0 DEF Completed, Incoming, IncomingStates
<1>6. \A j \in Keys : acked'[j] \in {0, acked[j]}
  BY DEF TrimDrop, DeviceInv, TypeInv, RecordsTypeOK
<1>7. acked'[k] = 0 \/ (op.target = "flash" /\ CacheOnly)
  BY <1>5 DEF TrimDrop, DeviceInv, TypeInv, RecordsTypeOK, CacheOnly
<1>8. CASE op.target = "flash"
  <2>1. Load(k) \in FileCopies(file["card"][k])
    <3>1. Mirrored(k)
      BY <1>8 DEF TrimDrop, CacheOnly, CardInv
    <3>2. Load(k) # Absent
      BY <1>0
    <3>3. QED
      BY <3>1, <3>2 DEF Mirrored, Retained, FileCopies
  <2>2. Load(k) \in CopySet(k)'
    BY <1>2, <1>8, <2>1 DEF CopySet, FileCopies, Media
  <2>3. Lasting(k)
    BY <1>0, <2>2 DEF Lasting
  <2>4. op'.kind = "trim"
    BY <1>0, <1>1, <1>8 DEF TrimOps
  <2>5. CardStep
    <3>1. Cutoff <= Cutoff' /\ UNCHANGED <<card, device, written, proved, deleted>>
      BY SameCutoff DEF TrimDrop, hardware
    <3>2. QED
      BY <1>4, <1>6, <2>3, <2>4, <3>1 DEF CardStep
  <2>6. QED
    BY <2>5, CardStepKeeps
<1>9. CASE op.target # "flash"
  <2>1. ~KeepsAll
    BY <1>9, DropsNone DEF TrimDrop
  <2>2. acked'[k] = 0
    BY <1>7, <1>9
  <2>3. op'.kind = "trim" \/ (op'.kind = "expire" /\ op'.key = k)
    BY <1>0, <1>1 DEF TrimOps
  <2>4. CardStep
    <3>1. Cutoff <= Cutoff' /\ UNCHANGED <<card, device, written, proved, deleted>>
      BY SameCutoff DEF TrimDrop, hardware
    <3>2. \A j \in Keys \ deleted' : acked'[j] # 0 \/ (KeepsAll /\ j \in proved) => Lasting(j)
      BY <1>4, <2>1, <2>2
    <3>3. QED
      BY <1>4, <1>6, <2>1, <2>2, <2>3, <3>1, <3>2 DEF CardStep
  <2>5. QED
    BY <2>4, CardStepKeeps
<1>10. QED
  BY <1>8, <1>9

LEMMA ExpireCard == ASSUME DeviceInv, DeviceInv', CardInv, ExpireCached PROVE CardInv'
<1>0. op \in ExpireOps /\ op.key \in Keys /\ "flash" \in Media /\ file \in [Media -> [Keys -> Copies]]
  BY OpKinds DEF ExpireCached, DeviceInv, TypeInv, ExpireOps, Media, RecordsTypeOK
<1>1. ~KeepsAll /\ acked[op.key] = 0
  BY DEF ExpireCached, CardInv, ProvedInv, AckInv
<1>2. PICK f \in Removals(file["flash"][op.key]) : file' = [file EXCEPT !["flash"][op.key] = f]
  BY DEF ExpireCached
<1>3. /\ \A m \in Media : file'[m][op.key] \in Removals(file[m][op.key])
      /\ \A m \in Media, j \in Keys : j # op.key => file'[m][j] = file[m][j]
  BY <1>0, <1>2 DEF Removals
<1>4. ASSUME NEW j \in Keys
      PROVE  /\ CopySet(j)' \subseteq CopyOrRecord(j) /\ \A m \in Media : Ordered(file'[m][j])
             /\ j # op.key => Lasting(j)
  <2>1. CASE j = op.key
    <3>1. \A m \in Media : file'[m][j] \in Removals(file[m][j])
      BY <1>3, <2>1
    <3>2. QED
      BY <2>1, <3>1, RemovedCopies, CopyFacts
  <2>2. CASE j # op.key
    BY <1>3, <2>2, UntouchedCopies, CopyFacts
  <2>3. QED
    BY <2>1, <2>2
<1>5. CardStep
  <2>1. Cutoff <= Cutoff' /\ UNCHANGED <<card, device, written, acked, proved, deleted>> /\ op'.kind = "trim"
    BY SameCutoff DEF ExpireCached, history, hardware
  <2>2. QED
    BY <1>1, <1>4, <2>1 DEF CardStep
<1>6. QED
  BY <1>5, CardStepKeeps

LEMMA PowerCard == ASSUME DeviceInv, DeviceInv', CardInv, ~device.cardLeaves, PowerCycle PROVE CardInv'
<1>0. UNCHANGED <<card, device, acked, proved>> /\ op'.kind = "idle"
  BY DEF PowerCycle, Idle
<1>1. ASSUME NEW g, CutCommit(g) PROVE CardInv'
  <2>1. op \in CommitOps /\ op.medium \in Media /\ op.key \in Keys /\ op.record \in Records /\ file[op.medium][op.key] \in Copies
    BY <1>1, OpKinds DEF CutCommit, DeviceInv, TypeInv, CommitOps, RecordsTypeOK
  <2>2. Preserves(file[op.medium][op.key], g) \/ Renews(file[op.medium][op.key], g, op.record)
    BY <1>1, <2>1, CutOutcome DEF CutCommit
  <2>3. file' = [file EXCEPT ![op.medium][op.key] = g]
    BY <1>1 DEF CutCommit
  <2>4. \A k \in Keys : CopySet(k)' \subseteq CopyOrRecord(k) /\ Lasting(k) /\ \A m \in Media : Ordered(file'[m][k])
    BY <2>1, <2>2, <2>3, CommitFile
  <2>5. Cutoff <= Cutoff' /\ deleted' = deleted /\ written \subseteq written'
    BY <1>1, SameCutoff DEF CutCommit
  <2>6. QED
    BY <1>0, <2>4, <2>5, QuietKeeps
<1>2. CASE CutTombstone
  BY <1>0, <1>2, CutTombstoneDevice, StillKeeps DEF CutTombstone
<1>3. CASE UNCHANGED <<file, marker, written, deleted>>
  BY <1>0, <1>3, SameCutoff, StillKeeps
<1>4. QED
  BY <1>1, <1>2, <1>3, PowerCases

LEMMA InitCard == Init /\ ~device.cardLeaves => CardInv
<1> SUFFICES ASSUME Init, ~device.cardLeaves PROVE CardInv
  OBVIOUS
<1>1. card /\ op.kind = "idle" /\ written = {} /\ proved = {} /\ \A k \in Keys : acked[k] = 0
  BY DEF Init, Idle
<1>2. \A m \in Media, k \in Keys : file[m][k] = NoFile
  BY DEF Init
<1>3. \A k \in Keys : CopyOrRecord(k) = {}
  <2>1. FileCopies(NoFile) = {}
    BY DEF FileCopies, NoFile
  <2>2. \A k \in Keys : CopySet(k) = {}
    BY <1>2, <2>1 DEF CopySet, Media
  <2>3. QED
    BY <1>1, <2>2 DEF CopyOrRecord, Committing
<1>4. \A m \in Media, k \in Keys : Ordered(file[m][k])
  BY <1>2 DEF Ordered, NoFile
<1>5. QED
  BY <1>1, <1>3, <1>4 DEF CardInv, RevisionsInv, MessageInv, AckInv, ProvedInv

LEMMA CardInvNext ==
  ASSUME DeviceInv, DeviceInv', CardInv, ~device.cardLeaves, [Next]_vars
  PROVE  CardInv'
<1>1. CASE UNCHANGED vars
  <2>1. UNCHANGED <<file, marker, msgctr, next, reserved, card, device, op, written, acked, proved, deleted>>
    BY <1>1 DEF vars, store, counters, hardware, history
  <2>2. /\ Cutoff' = Cutoff /\ (KeepsAll' <=> KeepsAll)
        /\ \A k : CopySet(k)' = CopySet(k) /\ CopyOrRecord(k)' = CopyOrRecord(k)
    BY <2>1 DEF Cutoff, KeepsAll, CopySet, CopyOrRecord, Committing
  <2>3. CopySet(op.key)' = CopySet(op.key)
    BY <2>1 DEF CopySet
  <2>4. QED
    BY <2>1, <2>2, <2>3 DEF CardInv, RevisionsInv, MessageInv, AckInv, ProvedInv
<1>2. CASE Next
  BY <1>2, CreateIncomingCard, CreateOutgoingCard, UpdateCard, DuplicateCard, MarkNextCard, QuietCard,
     CommitStepsCard, EraseFilesCard, TrimCard, TrimRepairCard, TrimDropCard, ExpireCard, PowerCard DEF Next
<1>3. QED
  BY <1>1, <1>2

LEMMA FullInvHolds == Spec => []FullInv
<1>1. Init => FullInv
  BY InitDevice, InitCard DEF FullInv
<1>2. FullInv /\ [Next]_vars => FullInv'
  <2> SUFFICES ASSUME FullInv, [Next]_vars PROVE FullInv'
    OBVIOUS
  <2>1. DeviceInv /\ DeviceInv'
    BY DeviceInvNext DEF FullInv
  <2>2. device' = device
    BY DEF Next, vars, CreateIncoming, CreateDuplicate, CreateOutgoing, ReserveFails, Update, MarkRead, MarkNext,
           CommitKept, CommitWrite, CommitFail, CommitSkip, Erase, EraseMark, EraseRefused, EraseFiles, Trim,
           TrimRepair, TrimDrop, ExpireCached, TrimNext, PowerCycle, hardware
  <2>3. ~device'.cardLeaves => CardInv'
    BY <2>1, <2>2, CardInvNext DEF FullInv
  <2>4. QED
    BY <2>1, <2>3 DEF FullInv
<1>3. QED
  BY <1>1, <1>2, PTL DEF Spec

\* While the card stays: a record whose commit was reported is found, at that
\* revision or a later one, although each commit needs only one medium and the
\* cache is trimmed (MessageTransactions.cpp:748-750).
THEOREM AckedRecords == Spec => []AckedIsDurable
<1>1. FullInv => AckedIsDurable
  <2> SUFFICES ASSUME FullInv, ~device.cardLeaves, NEW k \in Keys \ deleted, acked[k] # 0
               PROVE  k \in Visible /\ Load(k).rev >= acked[k]
    BY DEF AckedIsDurable
  <2>1. DeviceInv /\ CardInv
    BY DEF FullInv
  <2>2. PICK q \in CopySet(k) : acked[k] <= q.rev
    BY <2>1 DEF CardInv, AckInv
  <2>3. k \in written /\ k > Cutoff
    <3>1. k \in written /\ ~(k <= Cutoff)
      BY <2>1 DEF CardInv, AckInv, DeviceInv, DeletionInv
    <3>2. QED
      BY <2>1, <3>1, Basics DEF DeviceInv
  <2>4. k \in Visible
    BY <2>1, <2>2, <2>3, CopyVisible
  <2>5. q.rev <= Load(k).rev /\ q.rev \in Nat /\ Load(k).rev \in Nat /\ acked[k] \in Nat
    BY <2>1, <2>2, <2>4, CardLoad, CopyFacts, Revisions DEF DeviceInv, TypeInv, RecordsTypeOK
  <2>6. QED
    BY <2>2, <2>4, <2>5
<1>2. QED
  BY <1>1, FullInvHolds, PTL

\* While the card stays: a message that is delivered again does not become a
\* second record (MessageTransactions.cpp:325-342).
THEOREM OneRecord == Spec => []OneRecordPerMessage
<1>1. FullInv => OneRecordPerMessage
  <2> SUFFICES ASSUME FullInv, ~device.cardLeaves, NEW j \in Visible, NEW k \in Visible,
                      Incoming(Load(j)), Load(j).id = Load(k).id
               PROVE  j = k
    BY DEF OneRecordPerMessage
  <2>1. DeviceInv /\ CardInv
    BY DEF FullInv
  <2>2. j \in Keys /\ k \in Keys /\ j > Cutoff /\ k > Cutoff
        /\ Load(j) \in CopyOrRecord(j) /\ Load(k) \in CopyOrRecord(k)
    BY <2>1, CardLoad, CopyFacts
  <2>3. QED
    BY <2>1, <2>2 DEF CardInv, MessageInv
<1>2. QED
  BY <1>1, FullInvHolds, PTL

\* A proof-confirmed record does not regress (MessageTransactions.cpp:368) while
\* the card stays and keeps every record, although one of the two writes of each
\* commit may fail and the cache may be trimmed.
THEOREM DeliveredStays == Spec => []DeliveredStaysDelivered
<1>1. FullInv => DeliveredStaysDelivered
  <2> SUFFICES ASSUME FullInv, ~device.cardLeaves, KeepsAll, NEW k \in proved \cap Visible
               PROVE  Load(k).state = "delivered"
    BY DEF DeliveredStaysDelivered, DeliveredIsFinal, KeepsAll
  <2>1. DeviceInv /\ CardInv
    BY DEF FullInv
  <2>2. k \in Keys /\ k \notin deleted /\ Load(k) \in CopySet(k) /\ \A q \in CopySet(k) : q.rev <= Load(k).rev
    BY <2>1, CardLoad
  <2>3. PICK q \in CopySet(k) : q.state = "delivered" /\ \A r \in CopySet(k) : r.rev <= q.rev
    BY <2>1, <2>2 DEF CardInv, ProvedInv
  <2>4. q.rev = Load(k).rev
    BY <2>1, <2>2, <2>3, CopyFacts, Revisions
  <2>5. QED
    BY <2>1, <2>2, <2>3, <2>4, CopyFacts DEF CardInv, RevisionsInv
<1>2. QED
  BY <1>1, FullInvHolds, PTL
=============================================================================
