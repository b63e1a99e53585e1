SPECIFICATION Spec
CONSTANTS
  Identities = {a, b, c}
  Names = {"n"}
  MaxIdentities = 2
  KeyFiles = {0, 1, 2}
  Loads <- MCLoads
  None = None
  Absent = Absent
SYMMETRY MCSymmetry
INVARIANTS
  Consistent
  NamesAreKept
  AlwaysComesUp
PROPERTIES
  RunsAsChosen
