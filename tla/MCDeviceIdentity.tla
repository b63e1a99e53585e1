-------------------------- MODULE MCDeviceIdentity --------------------------
(* The loads the runs look at.                                             *)
EXTENDS DeviceIdentity, TLC

Like(device, faults, losable) == [device |-> device, faults |-> faults, losable |-> losable]

\* Failing writes on a new device and on old ones; losses on a healthy flash.
MCLoads ==
  {Like("new", TRUE, {}), Like("preslot", TRUE, {}), Like("legacy", TRUE, {})}
  \cup {Like("new", FALSE, files) : files \in {{"key"}, {"nvs"}, {"config"}, {"catalogue", "mirror"}}}

MCLostLoads == {Like("new", FALSE, {"key", "mirror"})}

MCSymmetry == Permutations(Identities)
=============================================================================
