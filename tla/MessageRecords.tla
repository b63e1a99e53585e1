--------------------------- MODULE MessageRecords ---------------------------
(***************************************************************************)
(* The durable records of one conversation                                 *)
(* (core/storage/MessageTransactions.cpp): every record is kept on the     *)
(* flash and mirrored on the SD card, each copy in a file and perhaps a    *)
(* backup left by AtomicStream; deletions leave a tombstone on the flash;  *)
(* record numbers come from a counter whose ceiling is kept in NVS.  The   *)
(* worker runs one operation at a time under the storage lease, any write  *)
(* or removal may fail, and the power may be lost between any two.         *)
(*                                                                         *)
(* A card can be missing only from boot to boot.  Verified files keep      *)
(* their contents: a file that is neither whole nor absent is not          *)
(* modelled (see AtomicStream), nor are the record bodies.                 *)
(***************************************************************************)
EXTENDS Naturals, FiniteSets, FiniteSetsExt

CONSTANTS
  MaxCounter,   \* UINT32_MAX, the counter that says there is none left
  MaxRevision,  \* UINT32_MAX, the last store_revision
  Devices,      \* the devices looked at: limits, and whether the card may be away
  Ids,          \* message identifiers of incoming messages
  NoId,         \* an outgoing message: its identifier is not looked at
  Absent        \* no such file

\* Each device has its own small values for the limits of the code: the last
\* counter and revision (UINT32_MAX both), the numbers reserved at a time, the
\* records kept on flash beside a card (FLASH_MSG_CACHE_LIMIT) and on the card
\* (RSDECK_MAX_MESSAGES_PER_CONV).
ASSUME BoundsAssumption ==
  /\ MaxCounter \in Nat \ {0, 1} /\ MaxRevision \in Nat \ {0}
  /\ Devices \subseteq [lastCounter : 2 .. MaxCounter, block : Nat \ {0}, lastRevision : 1 .. MaxRevision,
                        cacheLimit : Nat, cardLimit : Nat, cardLeaves : BOOLEAN]

Keys == 1 .. (MaxCounter - 1)
IncomingStates == {"unread", "read"}
OutgoingStates == {"sent", "failed", "delivered"}
Records == [rev : 1 .. MaxRevision, state : IncomingStates \cup OutgoingStates, id : Ids \cup {NoId}]
Copies == [path : Records \cup {Absent}, bak : Records \cup {Absent}]
NoFile == [path |-> Absent, bak |-> Absent]
ASSUME MarksAssumption == Absent \notin Nat /\ Absent \notin Records /\ NoId \notin Ids
Media == {"flash", "card"}

VARIABLES
  file,        \* file[m][k]: the files of record k on medium m
  marker,      \* the tombstone .deleted and its .bak: counters, or Absent
  msgctr,      \* NVS: the first number that is not reserved
  next,        \* _nextCounter
  reserved,    \* _reservedThrough
  card,        \* an SD card is ready
  device,      \* the device at hand, never changed
  op,          \* the operation in progress and its next step
  written,     \* history: the numbers for which a record was ever written
  acked,       \* history: acked[k] is the revision last committed under k
  proved,      \* history: the records committed as delivered
  deleted      \* history: the records written before a deletion took effect

store == <<file, marker, msgctr>>
counters == <<next, reserved>>
hardware == <<card, device>>
history == <<written, acked, proved, deleted>>
vars == <<store, counters, hardware, op, history>>

Idle == [kind |-> "idle"]
-----------------------------------------------------------------------------
(* What a reader finds.                                                    *)

\* deletedThrough: the greater of the tombstone and its backup.
Through(files) == Max({c \in {files.path, files.bak} : c # Absent} \cup {0})
Cutoff == Through(marker)

Ready(m) == m = "flash" \/ card
Found(m, k) == Ready(m) /\ file[m][k] # NoFile
\* nextRecord: the records above the cutoff with a copy on a medium in use.
Visible == {k \in Keys : k > Cutoff /\ \E m \in Media : Found(m, k)}

CopiesOf(k) == {file[m][k].path : m \in {n \in Media : Ready(n)}}
               \cup {file[m][k].bak : m \in {n \in Media : Ready(n)}}
\* load: the copy with the highest revision, flash before card on a tie.
Load(k) ==
  LET copies == CopiesOf(k) \ {Absent}
      newest == {r \in copies : \A q \in copies : q.rev <= r.rev}
      flashed == newest \cap {file["flash"][k].path, file["flash"][k].bak}
  IN  IF flashed # {} THEN CHOOSE r \in flashed : TRUE ELSE CHOOSE r \in newest : TRUE

Incoming(r) == r.state \in IncomingStates
\* A record trim may drop: queued and sending ones stay pinned.
Completed(r) == Incoming(r) \/ r.state \in {"delivered", "failed"}
-----------------------------------------------------------------------------
(* writeAtomic on one file, seen through its two names (see AtomicStream). *)

WithoutOldBackup(f) == IF f.path # Absent THEN [f EXCEPT !.bak = Absent] ELSE f
Demoted(f) == IF f.path # Absent THEN [path |-> Absent, bak |-> f.path] ELSE f
Promoted(f, v) == [Demoted(f) EXCEPT !.path = v]
RolledBack(f) == [path |-> Demoted(f).bak, bak |-> Absent]

WriteOk(f, v) == {Promoted(f, v), [path |-> v, bak |-> Absent]}
WriteFailed(f) == {f, WithoutOldBackup(f), Demoted(f), RolledBack(f)}
\* Where a power loss can leave the files.
WriteCut(f, v) == {f, WithoutOldBackup(f), Demoted(f)} \cup WriteOk(f, v)

\* Every record's files are treated, each with one of its outcomes.
Outcomes(treated) ==
  {after \in [Keys -> UNION {treated[k] : k \in Keys}] : \A k \in Keys : after[k] \in treated[k]}

\* A removal takes the primary, then the backup; either may fail.
Removals(f) == {f, [f EXCEPT !.path = Absent], [f EXCEPT !.bak = Absent], NoFile}

Init ==
  /\ file = [m \in Media |-> [k \in Keys |-> NoFile]]
  /\ marker = NoFile
  /\ msgctr = 0
  /\ next = 1
  /\ reserved = 1
  /\ device \in Devices
  /\ card \in (IF device.cardLeaves THEN BOOLEAN ELSE {TRUE})
  /\ op = Idle
  /\ written = {}
  /\ acked = [k \in Keys |-> 0]
  /\ proved = {}
  /\ deleted = {}
-----------------------------------------------------------------------------
(* commit: first the flash, then the card; one success is enough.          *)

Commit(k, r, creating, left) ==
  op' = [kind |-> "commit", medium |-> "flash", key |-> k, record |-> r,
         creating |-> creating, done |-> FALSE, left |-> left]

\* retainedCopy: the medium already holds exactly this record.
Retained(m, k, r) == r \in {file[m][k].path, file[m][k].bak}

AfterMedium(done) ==
  IF op.medium = "flash" THEN op' = [op EXCEPT !.medium = "card", !.done = done]
  ELSE IF op.left = {} THEN op' = Idle
  ELSE op' = [kind |-> "markRead", left |-> op.left]

\* The record is acknowledged when commit returns with a copy committed.
Acknowledge(done) ==
  IF op.medium = "card" /\ done
  THEN /\ acked' = [acked EXCEPT ![op.key] = op.record.rev]
       /\ proved' = IF op.record.state = "delivered" THEN proved \cup {op.key} ELSE proved
  ELSE UNCHANGED <<acked, proved>>

CommitKept ==
  /\ op.kind = "commit"
  /\ ~op.creating
  /\ Ready(op.medium)
  /\ Retained(op.medium, op.key, op.record)
  /\ AfterMedium(TRUE)
  /\ Acknowledge(TRUE)
  /\ UNCHANGED <<store, counters, hardware, written, deleted>>

MustWrite ==
  /\ Ready(op.medium)
  /\ IF op.creating THEN file[op.medium][op.key] = NoFile
                    ELSE ~Retained(op.medium, op.key, op.record)

CommitWrite ==
  /\ op.kind = "commit"
  /\ MustWrite
  /\ \E f \in WriteOk(file[op.medium][op.key], op.record) : file' = [file EXCEPT ![op.medium][op.key] = f]
  /\ AfterMedium(TRUE)
  /\ Acknowledge(TRUE)
  /\ written' = written \cup {op.key}
  /\ UNCHANGED <<marker, msgctr, counters, hardware, deleted>>

CommitFail ==
  /\ op.kind = "commit"
  /\ MustWrite
  /\ \E f \in WriteFailed(file[op.medium][op.key]) : file' = [file EXCEPT ![op.medium][op.key] = f]
  /\ AfterMedium(op.done)
  /\ Acknowledge(op.done)
  /\ UNCHANGED <<marker, msgctr, counters, hardware, written, deleted>>

\* No card, or another record under the number of a new one.
CommitSkip ==
  /\ op.kind = "commit"
  /\ IF Ready(op.medium) THEN op.creating /\ file[op.medium][op.key] # NoFile ELSE TRUE
  /\ AfterMedium(op.done)
  /\ Acknowledge(op.done)
  /\ UNCHANGED <<store, counters, hardware, written, deleted>>
-----------------------------------------------------------------------------
(* create.                                                                 *)

\* Faulty variant: one number more than was reserved.
MustReserveLate(n) == n > reserved
MustReserve(n) == n >= reserved
\* Faulty variant: the ceiling may pass the last number.
CeilingUnclamped(n) == n + device.block
Ceiling(n) ==
  IF n > device.lastCounter - device.block THEN device.lastCounter ELSE n + device.block

\* reserveCounter: the new ceiling is durable before a number is used.
Reserve(n) ==
  /\ n # device.lastCounter
  /\ next' = n + 1
  /\ IF MustReserve(n) THEN msgctr' = Ceiling(n) /\ reserved' = Ceiling(n)
                       ELSE UNCHANGED <<msgctr, reserved>>

Fresh == Max({next, Cutoff + 1})

\* Faulty variant: a message is looked up on the flash alone.
SameMessageOnFlash(id) == {k \in Visible : Found("flash", k) /\ Load(k).id = id}
SameMessage(id) == {k \in Visible : Load(k).id = id}

CreateIncoming(id) ==
  /\ op = Idle
  /\ SameMessage(id) = {}
  /\ Reserve(Fresh)
  /\ Commit(Fresh, [rev |-> 1, state |-> "unread", id |-> id], TRUE, {})
  /\ UNCHANGED <<file, marker, hardware, history>>

\* A second delivery commits the record there is, which repairs its mirror.
CreateDuplicate(id) ==
  /\ op = Idle
  /\ \E k \in SameMessage(id) : Commit(k, Load(k), FALSE, {})
  /\ UNCHANGED <<store, counters, hardware, history>>

CreateOutgoing ==
  /\ op = Idle
  /\ Reserve(Fresh)
  /\ Commit(Fresh, [rev |-> 1, state |-> "sent", id |-> NoId], TRUE, {})
  /\ UNCHANGED <<file, marker, hardware, history>>

\* The ceiling could not be saved: the number is not used.  What stays is the
\* adjustment of the counter to the cutoff.
ReserveFails ==
  /\ op = Idle
  /\ Fresh # device.lastCounter
  /\ MustReserve(Fresh)
  /\ next' = Fresh
  /\ UNCHANGED <<store, reserved, hardware, op, history>>
-----------------------------------------------------------------------------
(* update and markRead.                                                    *)

\* Faulty variant: any status may follow.
MayBecomeAny(r) == r.rev < device.lastRevision
\* A record whose delivery was proved keeps its status.
MayBecome(r) == r.state # "delivered" /\ r.rev < device.lastRevision

Update(k, s) ==
  /\ op = Idle
  /\ k \in Visible
  /\ ~Incoming(Load(k))
  /\ IF Load(k).state = s THEN Commit(k, Load(k), FALSE, {})
     ELSE /\ MayBecome(Load(k))
          /\ Commit(k, [Load(k) EXCEPT !.state = s, !.rev = @ + 1], FALSE, {})
  /\ UNCHANGED <<store, counters, hardware, history>>

MarkRead ==
  /\ op = Idle
  /\ \E k \in Visible : Incoming(Load(k))
  /\ op' = [kind |-> "markRead", left |-> {k \in Visible : Incoming(Load(k))}]
  /\ UNCHANGED <<store, counters, hardware, history>>

\* The records are visited one by one; each is committed before the next.
MarkNext ==
  /\ op.kind = "markRead"
  /\ \E k \in op.left :
       IF Load(k).state = "unread" /\ Load(k).rev < device.lastRevision
       THEN Commit(k, [Load(k) EXCEPT !.state = "read", !.rev = @ + 1], FALSE, op.left \ {k})
       ELSE op' = IF op.left = {k} THEN Idle ELSE [op EXCEPT !.left = @ \ {k}]
  /\ UNCHANGED <<store, counters, hardware, history>>
-----------------------------------------------------------------------------
(* erase: the tombstone first, then the files.                             *)

\* Faulty variant: the records that are there, not the numbers handed out.
EraseCutoffOfFiles == Max(Visible \cup {Cutoff})
EraseCutoff == Max(Visible \cup {Cutoff, next - 1})

Erase ==
  /\ op = Idle
  /\ op' = [kind |-> "tombstone", through |-> EraseCutoff]
  /\ UNCHANGED <<store, counters, hardware, history>>

EraseMark ==
  /\ op.kind = "tombstone"
  /\ marker' \in WriteOk(marker, op.through)
  /\ op' = [kind |-> "remove", medium |-> "flash"]
  /\ deleted' = deleted \cup written
  /\ UNCHANGED <<file, msgctr, counters, hardware, written, acked, proved>>

EraseRefused ==
  /\ op.kind = "tombstone"
  /\ marker' \in WriteFailed(marker)
  /\ op' = Idle
  /\ UNCHANGED <<file, msgctr, counters, hardware, history>>

EraseFiles ==
  /\ op.kind = "remove"
  /\ IF Ready(op.medium)
     THEN \E after \in Outcomes([k \in Keys |-> Removals(file[op.medium][k])]) :
            file' = [file EXCEPT ![op.medium] = after]
     ELSE file' = file
  /\ op' = IF op.medium = "flash" THEN [op EXCEPT !.medium = "card"] ELSE Idle
  /\ UNCHANGED <<marker, msgctr, counters, hardware, history>>
-----------------------------------------------------------------------------
(* trim: tidy the backups, then drop old records beyond the limits, first  *)
(* from the card, then from the flash.                                     *)

\* A backup takes its missing primary's place; one that is not newer goes.
Tidied(f) ==
  IF f.bak = Absent THEN {f}
  ELSE IF f.path = Absent THEN {f, [path |-> f.bak, bak |-> Absent]}
  ELSE {f} \cup (IF f.path.rev >= f.bak.rev THEN {[f EXCEPT !.bak = Absent]} ELSE {})

Trim ==
  /\ op = Idle
  /\ \E flash \in Outcomes([k \in Keys |-> Tidied(file["flash"][k])]),
        mirror \in Outcomes([k \in Keys |-> Tidied(file["card"][k])]) :
       file' = [m \in Media |-> IF m = "flash" THEN flash ELSE IF card THEN mirror ELSE file["card"]]
  /\ op' = [kind |-> "trim", target |-> "card", tried |-> {}]
  /\ UNCHANGED <<marker, msgctr, counters, hardware, history>>

\* A flash copy beside a card is a cache; without one it is the record.
CacheOnly == op.target = "flash" /\ card
Limit == IF CacheOnly THEN device.cacheLimit ELSE device.cardLimit
Held == {k \in Visible : file[op.target][k] # NoFile}
Droppable == {k \in Held \ op.tried : Completed(Load(k))}
MustDrop(k) ==
  /\ op.kind = "trim"
  /\ Ready(op.target)
  /\ Cardinality(Held) > Limit
  /\ k \in Droppable
  /\ k = Min(Droppable)

\* Faulty variant: any copy on the card will do.
MirroredSomehow(k) == file["card"][k] # NoFile
\* The cache is dropped only after the card holds exactly the same record.
Mirrored(k) == Retained("card", k, Load(k))

TrimRepair(k) ==
  /\ MustDrop(k)
  /\ CacheOnly
  /\ ~Mirrored(k)
  /\ \/ /\ \E f \in WriteOk(file["card"][k], Load(k)) : file' = [file EXCEPT !["card"][k] = f]
        /\ op' = op
     \/ /\ \E f \in WriteFailed(file["card"][k]) : file' = [file EXCEPT !["card"][k] = f]
        /\ op' = [op EXCEPT !.tried = @ \cup {k}]
  /\ UNCHANGED <<marker, msgctr, counters, hardware, history>>

\* Success starts the selection over; a key that failed is passed by.  With its
\* last copy a record expires, and is no longer owed to the user, unless it is
\* still to be sent.
TrimDrop(k) ==
  /\ MustDrop(k)
  /\ CacheOnly => Mirrored(k)
  /\ \E f \in Removals(file[op.target][k]) :
       /\ file' = [file EXCEPT ![op.target][k] = f]
       /\ op' = IF f # NoFile THEN [op EXCEPT !.tried = @ \cup {k}]
                ELSE IF op.target = "card" THEN [kind |-> "expire", key |-> k]
                ELSE [op EXCEPT !.tried = {}]
  /\ acked' = IF CacheOnly \/ Load(k).state = "sent" THEN acked ELSE [acked EXCEPT ![k] = 0]
  /\ UNCHANGED <<marker, msgctr, counters, hardware, written, proved, deleted>>

\* A record that expired on the card leaves the cache too.
ExpireCached ==
  /\ op.kind = "expire"
  /\ \E f \in Removals(file["flash"][op.key]) :
       /\ file' = [file EXCEPT !["flash"][op.key] = f]
       /\ op' = [kind |-> "trim", target |-> "card", tried |-> {}]
  /\ UNCHANGED <<marker, msgctr, counters, hardware, history>>

TrimNext ==
  /\ op.kind = "trim"
  /\ ~\E k \in Keys : MustDrop(k)
  /\ op' = IF op.target = "card" THEN [op EXCEPT !.target = "flash", !.tried = {}] ELSE Idle
  /\ UNCHANGED <<store, counters, hardware, history>>
-----------------------------------------------------------------------------
\* The power fails, perhaps within a write, and the device boots: begin and
\* initializeCounter, which never goes below the saved ceiling.
PowerCycle ==
  /\ card' \in (IF device.cardLeaves THEN BOOLEAN ELSE {card})
  /\ \/ /\ op.kind = "commit"
        /\ MustWrite
        /\ \E f \in WriteCut(file[op.medium][op.key], op.record) : file' = [file EXCEPT ![op.medium][op.key] = f]
        /\ written' = written \cup {op.key}
        /\ UNCHANGED <<marker, deleted>>
     \/ /\ op.kind = "tombstone"
        /\ marker' \in WriteCut(marker, op.through)
        /\ deleted' = IF marker'.path = op.through THEN deleted \cup written ELSE deleted
        /\ UNCHANGED <<file, written>>
     \/ UNCHANGED <<file, marker, written, deleted>>
  /\ reserved' = Max({1, msgctr})
  /\ next' = Max({1, msgctr, Cutoff' + 1} \cup {k + 1 : k \in Visible'})
  /\ op' = Idle
  /\ UNCHANGED <<msgctr, device, acked, proved>>

Next ==
  \/ \E id \in Ids : CreateIncoming(id) \/ CreateDuplicate(id)
  \/ CreateOutgoing
  \/ ReserveFails
  \/ \E k \in Keys, s \in OutgoingStates : Update(k, s)
  \/ MarkRead
  \/ MarkNext
  \/ CommitKept
  \/ CommitWrite
  \/ CommitFail
  \/ CommitSkip
  \/ Erase
  \/ EraseMark
  \/ EraseRefused
  \/ EraseFiles
  \/ Trim
  \/ \E k \in Keys : TrimRepair(k) \/ TrimDrop(k)
  \/ ExpireCached
  \/ TrimNext
  \/ PowerCycle

Spec == Init /\ [][Next]_vars
-----------------------------------------------------------------------------
\* The tombstone and the revisions never reach the values that mean "none".
RecordsTypeOK ==
  /\ file \in [Media -> [Keys -> Copies]]
  /\ marker \in [path : Keys \cup {0, Absent}, bak : Keys \cup {0, Absent}]
  /\ msgctr \in 0 .. MaxCounter /\ next \in 1 .. MaxCounter /\ reserved \in 1 .. MaxCounter
  /\ card \in BOOLEAN
  /\ op.kind \in {"idle", "commit", "markRead", "tombstone", "remove", "trim", "expire"}
  /\ written \subseteq Keys /\ proved \subseteq Keys
  /\ acked \in [Keys -> 0 .. MaxRevision]
  /\ deleted \subseteq Keys

\* A new record never gets the number of an earlier one, whatever was lost with
\* the power and whichever medium is missing (MessageTransactions.cpp:252-288).
CountersFresh ==
  /\ RecordsTypeOK
  /\ op.kind = "commit" /\ op.creating /\ op.medium = "flash" => op.key \notin written

\* What a deletion covered never comes back, not with a power loss before its
\* files are removed nor with a card that was away (MessageTransactions.cpp:404-457).
DeletedStaysDeleted == Visible \cap deleted = {}

\* While the card stays: a record whose commit was reported is found, at that
\* revision or a later one, although each commit needs only one medium and the
\* cache is trimmed; one that is still to be sent even when the limit is
\* exceeded (MessageTransactions.cpp:748-750).
AckedIsDurable ==
  ~device.cardLeaves => \A k \in Keys \ deleted : acked[k] # 0 => k \in Visible /\ Load(k).rev >= acked[k]

\* "A proof-confirmed record cannot regress" (MessageTransactions.cpp:368): with
\* both media in use, a record that was committed as delivered still is.
DeliveredIsFinal == op = Idle /\ card => \A k \in proved \cap Visible : Load(k).state = "delivered"

\* That holds while the card never leaves and keeps every record, although one
\* of the two writes of each commit may fail and the cache may be trimmed.
DeliveredStaysDelivered ==
  ~device.cardLeaves /\ device.cardLimit >= Cardinality(Keys) => DeliveredIsFinal

\* While the card stays: a message that is delivered again does not become a
\* second record (MessageTransactions.cpp:325-342).
OneRecordPerMessage ==
  ~device.cardLeaves => \A j, k \in Visible : Incoming(Load(j)) /\ Load(j).id = Load(k).id => j = k

=============================================================================
