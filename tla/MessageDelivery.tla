-------------------------- MODULE MessageDelivery --------------------------
(***************************************************************************)
(* What the delivery of a message promises, whatever carries it: each      *)
(* message gets at most one outcome, for good; it is called delivered only *)
(* when the receiver holds it durably; and what the receiver holds, it     *)
(* keeps.  A failure promises nothing: the message may have arrived.       *)
(***************************************************************************)
CONSTANT Messages

VARIABLES
  verdict,  \* what the sender was told of each message
  held      \* the messages the receiver holds durably

Init == verdict = [m \in Messages |-> "none"] /\ held = {}

Hold(m) == held' = held \cup {m} /\ UNCHANGED verdict

Deliver(m) ==
  /\ verdict[m] = "none" /\ m \in held
  /\ verdict' = [verdict EXCEPT ![m] = "delivered"] /\ UNCHANGED held

Fail(m) == verdict[m] = "none" /\ verdict' = [verdict EXCEPT ![m] = "failed"] /\ UNCHANGED held

Next == \E m \in Messages : Hold(m) \/ Deliver(m) \/ Fail(m)

Spec == Init /\ [][Next]_<<verdict, held>>
=============================================================================
