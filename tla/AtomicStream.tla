---------------------------- MODULE AtomicStream ----------------------------
(***************************************************************************)
(* The one write protocol of both media (core/storage/AtomicStream.h): the *)
(* new value goes to path.tmp, is read back and compared, the old primary  *)
(* is moved to path.bak, and path.tmp is renamed to path.  Every call to   *)
(* the file system may fail, and the power may be lost between any two of  *)
(* them.  A reader takes path, or path.bak when path does not exist        *)
(* (FlashStore::readFileFully).                                            *)
(*                                                                         *)
(* FlashStore::begin tidies the directories of small records at boot       *)
(* (recoverAtomicArtifact); the message directories are left as they are.  *)
(* Either may happen at each boot here.                                    *)
(***************************************************************************)
CONSTANTS
  Values,       \* the whole values a caller may write
  Absent,       \* no such file
  Torn          \* the contents of a file whose write did not complete

ASSUME ContentsAssumption ==
  /\ Absent \notin Values
  /\ Torn \notin Values
  /\ Torn # Absent

VARIABLES
  path, tmp, bak,  \* the contents of the three files
  step,            \* the next call of atomicStream, or "idle"
  value,           \* the value being written, or Absent
  outcome,         \* what the last call returned
  up               \* FALSE between a power loss and the end of begin()

files == <<path, tmp, bak>>
vars == <<files, step, value, outcome, up>>

Contents == Values \cup {Absent, Torn}
Steps == {"idle", "write", "verify", "demote", "move", "promote", "rollback", "dropBackup"}

Init ==
  /\ path = Absent
  /\ tmp = Absent
  /\ bak = Absent
  /\ step = "idle"
  /\ value = Absent
  /\ outcome = "none"
  /\ up = TRUE

\* A reader opens the primary and falls back to the backup.
ReadBack == IF path # Absent THEN path ELSE bak

Start(v) ==
  /\ up
  /\ step = "idle"
  /\ step' = "write"
  /\ value' = v
  /\ outcome' = "none"
  /\ UNCHANGED <<files, up>>

\* The call returns: "ok" or "failed".
Return(result) ==
  /\ step' = "idle"
  /\ value' = Absent
  /\ outcome' = result
  /\ UNCHANGED up

GoTo(next) ==
  /\ step' = next
  /\ UNCHANGED <<value, outcome, up>>

\* Removing path.tmp after a failure may itself fail.
DiscardTmp(contents) == tmp' \in {Absent, contents}

WriteTmp ==
  /\ step = "write"
  /\ \/ tmp' = value /\ GoTo("verify")
     \/ DiscardTmp(Torn) /\ Return("failed")
     \/ tmp' = tmp /\ Return("failed")   \* the file could not be opened
     \/ tmp' = Torn /\ GoTo("verify")    \* the medium kept less than it took
  /\ UNCHANGED <<path, bak>>

\* The read-back compares every byte.
Verified == tmp = value

VerifyTmp ==
  /\ step = "verify"
  /\ \/ Verified /\ tmp' = tmp /\ GoTo("demote")
     \/ DiscardTmp(tmp) /\ Return("failed")  \* different, or not readable
  /\ UNCHANGED <<path, bak>>

\* With a primary in place an older backup is in the way of the rename.
MustDropOldBackup == path # Absent /\ bak # Absent

DropOldBackup ==
  /\ step = "demote"
  /\ \/ MustDropOldBackup /\ bak' = Absent /\ tmp' = tmp /\ GoTo("move")
     \/ MustDropOldBackup /\ bak' = bak /\ tmp' = tmp /\ Return("failed")
     \/ ~MustDropOldBackup /\ bak' = bak /\ tmp' = tmp /\ GoTo("move")
  /\ UNCHANGED path

\* rename(path, path.bak), when there is a primary.
DemotePrimary ==
  /\ step = "move"
  /\ \/ /\ path # Absent
        /\ path' = Absent
        /\ bak' = path
        /\ tmp' = tmp
        /\ GoTo("promote")
     \/ /\ path # Absent
        /\ DiscardTmp(tmp)
        /\ Return("failed")
        /\ UNCHANGED <<path, bak>>
     \/ /\ path = Absent
        /\ GoTo("promote")
        /\ UNCHANGED files

PromoteTmp ==
  /\ step = "promote"
  /\ \/ /\ path' = tmp
        /\ tmp' = Absent
        /\ GoTo("dropBackup")
     \/ /\ GoTo("rollback")
        /\ UNCHANGED <<path, tmp>>
  /\ UNCHANGED bak

\* rename(path.bak, path) if there is a backup; the result is not looked at.
RolledBack ==
  \/ bak # Absent /\ path' = bak /\ bak' = Absent
  \/ UNCHANGED <<path, bak>>

Rollback ==
  /\ step = "rollback"
  /\ RolledBack
  /\ DiscardTmp(tmp)
  /\ Return("failed")

\* The committed value is in place; a backup that cannot be removed stays.
DropBackup ==
  /\ step = "dropBackup"
  /\ bak' \in {Absent, bak}
  /\ Return("ok")
  /\ UNCHANGED <<path, tmp>>

\* The power fails; a file being written is left in any state.
PowerLoss ==
  /\ up' = FALSE
  /\ tmp' \in IF step = "write" THEN {tmp, Absent, Torn, value} ELSE {tmp}
  /\ step' = "idle"
  /\ value' = Absent
  /\ outcome' = "none"
  /\ UNCHANGED <<path, bak>>

\* Faulty variant: boot puts a kept backup over the primary.
RestoredAlways == bak # Absent /\ path' = bak /\ bak' = Absent
\* recoverAtomicArtifact: a backup is renamed only when the primary is gone.
Restored ==
  \/ path = Absent /\ bak # Absent /\ path' = bak /\ bak' = Absent
  \/ UNCHANGED <<path, bak>>

Boot ==
  /\ ~up
  /\ up' = TRUE
  /\ \/ DiscardTmp(tmp) /\ Restored
     \/ UNCHANGED files
  /\ UNCHANGED <<step, value, outcome>>

Next ==
  \/ \E v \in Values : Start(v)
  \/ WriteTmp
  \/ VerifyTmp
  \/ DropOldBackup
  \/ DemotePrimary
  \/ PromoteTmp
  \/ Rollback
  \/ DropBackup
  \/ PowerLoss
  \/ Boot

Spec == Init /\ [][Next]_vars
-----------------------------------------------------------------------------
\* Readers never meet half a record: the primary and the backup are whole values.
TypeOK ==
  /\ path \in Values \cup {Absent}
  /\ bak \in Values \cup {Absent}
  /\ tmp \in Contents
  /\ step \in Steps
  /\ value \in Values \cup {Absent}
  /\ outcome \in {"none", "ok", "failed"}
  /\ up \in BOOLEAN

\* What each step of a write may rely on: path.tmp is the verified value until
\* it is promoted, the primary's name is free for it, and an older backup is
\* never in the way of, or overwritten by, the demotion (AtomicStream.h:101-112).
StepsInOrder ==
  /\ step # "idle" => value \in Values /\ up
  /\ step = "idle" => value = Absent
  /\ step \in {"demote", "move", "promote", "rollback"} => tmp = value
  /\ step = "move" /\ path # Absent => bak = Absent
  /\ step \in {"promote", "rollback"} => path = Absent
  /\ step = "dropBackup" => path = value

\* "Failure never removes the sole previous committed primary or backup"
\* (AtomicStream.h:75-76): once a value can be read, some value always can.
NeverLost == [][ReadBack # Absent => ReadBack' # Absent]_vars

Abstract == INSTANCE AtomicFile WITH
  contents <- ReadBack,
  writing <- value,
  replaced <- step = "dropBackup"

\* The protocol is an atomic write of the file as its readers see it: the value
\* changes at one instant, success means the new one and failure the old one.
ImplementsAtomicFile == Abstract!Spec
=============================================================================
