---------------------------- MODULE MCLxmfEngine ----------------------------
(* The devices of the run: one row whose message may be sent twice or as a *)
(* resource; one row with what may happen to its conversation, which may   *)
(* have a message left to recover; and two rows that compete for the       *)
(* workspace.                                                              *)
EXTENDS LxmfEngine
CONSTANTS r1, r2

MCRows == {r1, r2}
MCLoads ==
  {[rows |-> {r1}, attempts |-> 2, pending |-> 0, uses |-> {"resource", "stop"}],
   [rows |-> {r1}, attempts |-> 1, pending |-> 1, uses |-> {"cancel", "delete", "stop"}],
   [rows |-> {r1, r2}, attempts |-> 1, pending |-> 0, uses |-> {}]}
=============================================================================
