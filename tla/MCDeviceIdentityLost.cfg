SPECIFICATION Spec
CONSTANTS
  Identities = {a, b, c}
  Names = {"n"}
  MaxIdentities = 3
  KeyFiles = {0, 1, 2, 3}
  Loads <- MCLostLoads
  None = None
  Absent = Absent
INVARIANTS
  FallsBackToNvs
