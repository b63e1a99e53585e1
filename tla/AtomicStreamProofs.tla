------------------------- MODULE AtomicStreamProofs -------------------------
(***************************************************************************)
(* For every set of values: the write protocol keeps its type and step     *)
(* invariants, never loses the last readable value, and implements         *)
(* AtomicFile.                                                             *)
(***************************************************************************)
EXTENDS AtomicStream, TLAPS

Inv == TypeOK /\ StepsInOrder

USE ContentsAssumption

LEMMA InvInit == Init => Inv
  BY DEF Init, Inv, TypeOK, StepsInOrder, Steps, Contents

\* Every call of atomicStream, a power loss and a boot preserve the invariant.
LEMMA InvNext == Inv /\ [Next]_vars => Inv'
<1> SUFFICES ASSUME Inv, [Next]_vars PROVE Inv'
  OBVIOUS
<1> USE DEF Inv, TypeOK, StepsInOrder, Steps, Contents, files, GoTo, Return, DiscardTmp
<1>1. ASSUME NEW v \in Values, Start(v) PROVE Inv'
  BY <1>1 DEF Start
<1>2. CASE WriteTmp
  BY <1>2 DEF WriteTmp
<1>3. CASE VerifyTmp
  BY <1>3 DEF VerifyTmp, Verified
<1>4. CASE DropOldBackup
  BY <1>4 DEF DropOldBackup, MustDropOldBackup
<1>5. CASE DemotePrimary
  BY <1>5 DEF DemotePrimary
<1>6. CASE PromoteTmp
  BY <1>6 DEF PromoteTmp
<1>7. CASE Rollback
  BY <1>7 DEF Rollback, RolledBack
<1>8. CASE DropBackup
  BY <1>8 DEF DropBackup
<1>9. CASE PowerLoss
  BY <1>9 DEF PowerLoss
<1>10. CASE Boot
  BY <1>10 DEF Boot, Restored
<1>11. CASE UNCHANGED vars
  BY <1>11 DEF vars
<1>12. QED
  BY <1>1, <1>2, <1>3, <1>4, <1>5, <1>6, <1>7, <1>8, <1>9, <1>10, <1>11 DEF Next

\* Readers never meet a torn primary or backup, and each step of a write finds
\* the files as it expects them (AtomicStream.h:101-112).
THEOREM Invariance == Spec => [](TypeOK /\ StepsInOrder)
<1>1. Spec => []Inv
  BY InvInit, InvNext, PTL DEF Spec
<1>2. QED
  BY <1>1, PTL DEF Inv

\* Every step of the protocol is a step of the atomic file its readers see, or
\* changes nothing they can see.
LEMMA StepSimulation == Inv /\ [Next]_vars => [Abstract!Next]_(Abstract!vars)
<1> SUFFICES ASSUME Inv, [Next]_vars PROVE [Abstract!Next]_(Abstract!vars)
  OBVIOUS
<1> USE DEF Inv, TypeOK, StepsInOrder, Steps, Contents, files, GoTo, Return, DiscardTmp,
            ReadBack, Abstract!vars
<1>1. ASSUME NEW v \in Values, Start(v) PROVE Abstract!Start(v)
  BY <1>1 DEF Start, Abstract!Start
<1>2. CASE WriteTmp
  BY <1>2 DEF WriteTmp, Abstract!Next, Abstract!Finish
<1>3. CASE VerifyTmp
  BY <1>3 DEF VerifyTmp, Abstract!Next, Abstract!Finish
<1>4. CASE DropOldBackup
  BY <1>4 DEF DropOldBackup, MustDropOldBackup, Abstract!Next, Abstract!Finish
<1>5. CASE DemotePrimary
  BY <1>5 DEF DemotePrimary, Abstract!Next, Abstract!Finish
<1>6. CASE PromoteTmp
  <2>1. CASE path' = tmp /\ tmp' = Absent /\ GoTo("dropBackup")
    <3>1. step = "promote" /\ tmp = value /\ value \in Values
      BY <1>6 DEF PromoteTmp
    <3>2. value # Absent /\ ReadBack' = value
      BY <2>1, <3>1
    <3>3. ~(step = "dropBackup") /\ (step = "dropBackup")' = TRUE
      BY <2>1, <3>1
    <3>4. UNCHANGED <<value, outcome>>
      BY <2>1
    <3>5. Abstract!Replace
      BY <3>2, <3>3, <3>4, Zenon DEF Abstract!Replace
    <3>6. QED
      BY <3>5, Zenon DEF Abstract!Next
  <2>2. CASE GoTo("rollback") /\ UNCHANGED <<path, tmp>>
    BY <1>6, <2>2 DEF PromoteTmp
  <2>3. QED
    BY <1>6, <2>1, <2>2 DEF PromoteTmp
<1>7. CASE Rollback
  BY <1>7 DEF Rollback, RolledBack, Abstract!Next, Abstract!Finish
<1>8. CASE DropBackup
  BY <1>8 DEF DropBackup, Abstract!Next, Abstract!Finish
<1>9. CASE PowerLoss
  BY <1>9 DEF PowerLoss, Abstract!Next, Abstract!PowerLoss
<1>10. CASE Boot
  BY <1>10 DEF Boot, Restored
<1>11. CASE UNCHANGED vars
  BY <1>11 DEF vars
<1>12. QED
  BY <1>1, <1>2, <1>3, <1>4, <1>5, <1>6, <1>7, <1>8, <1>9, <1>10, <1>11 DEF Next, Abstract!Next

\* The protocol implements the atomic file: the value changes at one instant,
\* success means the new value, failure the old one.
THEOREM Refinement == Spec => ImplementsAtomicFile
<1>1. Init => Abstract!Init
  BY DEF Init, Abstract!Init, ReadBack
<1>2. Spec => []Inv
  BY InvInit, InvNext, PTL DEF Spec
<1>3. QED
  BY <1>1, <1>2, StepSimulation, PTL DEF Spec, ImplementsAtomicFile, Abstract!Spec

\* No failure and no power loss removes the sole readable copy
\* (AtomicStream.h:75-76).
LEMMA KeepsACopy == Inv /\ [Next]_vars => (ReadBack # Absent => ReadBack' # Absent)
<1> SUFFICES ASSUME Inv, [Next]_vars, ReadBack # Absent PROVE ReadBack' # Absent
  OBVIOUS
<1> USE DEF Inv, TypeOK, StepsInOrder, Steps, Contents, files, GoTo, Return, DiscardTmp, ReadBack
<1>1. CASE PromoteTmp
  BY <1>1 DEF PromoteTmp
<1>2. CASE Rollback
  BY <1>2 DEF Rollback, RolledBack
<1>3. CASE DropOldBackup
  BY <1>3 DEF DropOldBackup, MustDropOldBackup
<1>4. CASE DemotePrimary
  BY <1>4 DEF DemotePrimary
<1>5. CASE DropBackup
  BY <1>5 DEF DropBackup
<1>6. CASE Boot
  BY <1>6 DEF Boot, Restored
<1>7. CASE (\E v \in Values : Start(v)) \/ WriteTmp \/ VerifyTmp \/ PowerLoss \/ UNCHANGED vars
  BY <1>7 DEF Start, WriteTmp, VerifyTmp, PowerLoss, vars
<1>8. QED
  BY <1>1, <1>2, <1>3, <1>4, <1>5, <1>6, <1>7 DEF Next

THEOREM CopySafety == Spec => NeverLost
<1>1. Spec => []Inv
  BY InvInit, InvNext, PTL DEF Spec
<1>2. QED
  BY <1>1, KeepsACopy, PTL DEF Spec, NeverLost
=============================================================================
