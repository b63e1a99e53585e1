------------------------- MODULE MaintenanceBarrier -------------------------
(***************************************************************************)
(* The policy that leads the device to a restart, power-off, wipe or reset *)
(* (core/runtime/MaintenanceBarrier.h): the operation is performed only    *)
(* after ordinary work has settled, the helpers have retired and storage   *)
(* has stopped, in this order; a deadline, or an owner that gives up,      *)
(* turns it into a failure that nothing undoes.  Kept by the service task  *)
(* alone.  The 32-bit clock is one bit: whether 120 seconds have passed    *)
(* since the request was admitted.                                         *)
(***************************************************************************)

VARIABLES
  phase,               \* _phase
  helpersStarted,      \* _helpersStarted
  storageStopStarted,  \* _storageStopStarted
  claimed              \* _operationClaimed

barrierVars == <<phase, helpersStarted, storageStopStarted, claimed>>

Phases == {"Running", "Quiescing", "Settling", "Performing", "Stopped", "Failed"}

BarrierTypeOK ==
  /\ phase \in Phases
  /\ helpersStarted \in BOOLEAN /\ storageStopStarted \in BOOLEAN /\ claimed \in BOOLEAN

BarrierInit ==
  /\ phase = "Running"
  /\ helpersStarted = FALSE /\ storageStopStarted = FALSE /\ claimed = FALSE

BarrierBegin ==
  /\ phase = "Running"
  /\ phase' = "Quiescing"
  /\ UNCHANGED <<helpersStarted, storageStopStarted, claimed>>

\* What a step does is decided by its snapshot v of the device: whether
\* ordinary work, the application or the helpers are pending, whether storage
\* has stopped, whether the owner gives up, and whether it is late.
Stepping == phase \in {"Quiescing", "Settling", "Failed"}
ReportsFailure(v) == phase # "Failed" /\ (v.unrecoverable \/ v.late)
FailsWith(v) == phase = "Failed" \/ ReportsFailure(v)
BeginsHelpers(v) == ~v.normal /\ ~helpersStarted
Retired(v) == ~v.normal /\ helpersStarted /\ ~v.application /\ ~v.helpers
StopsStorage(v) == Retired(v) /\ ~storageStopStarted

\* Faulty variant: a reported failure does not stop the operation.
PerformsAnyway(v) == Retired(v) /\ storageStopStarted /\ v.stopped /\ ~claimed
\* Faulty variant: storage is only asked to stop.
PerformsEarly(v) == Retired(v) /\ storageStopStarted /\ ~FailsWith(v)
Performs(v) == Retired(v) /\ storageStopStarted /\ v.stopped /\ ~FailsWith(v)

BarrierStep(v) ==
  /\ Stepping
  /\ phase' = CASE Performs(v) -> "Performing"
                [] ~Performs(v) /\ FailsWith(v) -> "Failed"
                [] ~Performs(v) /\ ~FailsWith(v) /\ BeginsHelpers(v) -> "Settling"
                [] OTHER -> phase
  /\ helpersStarted' = (helpersStarted \/ BeginsHelpers(v))
  /\ storageStopStarted' = (storageStopStarted \/ StopsStorage(v))
  /\ claimed' = (claimed \/ Performs(v))

\* complete: the operation has been carried out, or has failed.
BarrierComplete(ok) ==
  /\ phase = "Performing"
  /\ phase' = IF ok THEN "Stopped" ELSE "Failed"
  /\ UNCHANGED <<helpersStarted, storageStopStarted, claimed>>
=============================================================================
