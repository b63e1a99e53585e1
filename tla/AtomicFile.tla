----------------------------- MODULE AtomicFile -----------------------------
(***************************************************************************)
(* What a caller of an atomic file write may rely on: the file holds one   *)
(* whole value; a write replaces it at one instant; a write that reports   *)
(* success has replaced it and one that reports failure has not; after a   *)
(* power loss it is either replaced or not.                                *)
(***************************************************************************)
CONSTANTS Values, Absent

VARIABLES
  contents,  \* what a reader of the file gets
  writing,   \* the value being written, or Absent
  replaced,  \* the write under way has taken effect
  outcome    \* what the last call reported: "none", "ok" or "failed"

vars == <<contents, writing, replaced, outcome>>

Init ==
  /\ contents = Absent
  /\ writing = Absent
  /\ replaced = FALSE
  /\ outcome = "none"

Start(v) ==
  /\ writing = Absent
  /\ writing' = v
  /\ outcome' = "none"
  /\ UNCHANGED <<contents, replaced>>

Replace ==
  /\ writing # Absent
  /\ ~replaced
  /\ contents' = writing
  /\ replaced' = TRUE
  /\ UNCHANGED <<writing, outcome>>

Finish ==
  /\ writing # Absent
  /\ outcome' = IF replaced THEN "ok" ELSE "failed"
  /\ writing' = Absent
  /\ replaced' = FALSE
  /\ UNCHANGED contents

PowerLoss ==
  /\ writing' = Absent
  /\ replaced' = FALSE
  /\ outcome' = "none"
  /\ UNCHANGED contents

Next == (\E v \in Values : Start(v)) \/ Replace \/ Finish \/ PowerLoss

Spec == Init /\ [][Next]_vars
=============================================================================
