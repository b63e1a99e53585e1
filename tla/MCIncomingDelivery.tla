------------------------- MODULE MCIncomingDelivery -------------------------
(* Two rows and two receipts for a message and a reaction of one peer and a *)
(* message of another: a second copy takes the credit a control frame or a  *)
(* reservation needs, and every receipt slot is used again until it is      *)
(* worn out.                                                                *)
EXTENDS IncomingDelivery

MCSource == [m \in Messages |-> IF m = "smile" THEN "bob" ELSE "ann"]
=============================================================================
