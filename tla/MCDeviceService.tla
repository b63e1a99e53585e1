--------------------------- MODULE MCDeviceService --------------------------
(* The loads of the run.                                                   *)
EXTENDS DeviceService

\* Slots are used again before the device restarts; every kind of request in a
\* world of which nothing is asked; every kind in one that answers.
MCLoads ==
  {[requests |-> 3, ops |-> {"Write", "Query"}, endings |-> {"Restart"}, answering |-> FALSE],
   [requests |-> 2, ops |-> NormalOps, endings |-> {"Restart", "PowerOff"}, answering |-> FALSE],
   [requests |-> 2, ops |-> NormalOps, endings |-> {"Restart"}, answering |-> TRUE]}
=============================================================================
