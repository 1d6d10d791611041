SPECIFICATION Spec
CONSTANTS
  k1 = k1
  k2 = k2
  Keys = {k1, k2}
  Columns = {"seen", "count"}
  Kinds = {"named", "bumped"}
  Programs <- MCPrograms
  MaxLog = 3
  MaxBoots = 3
  MaxReformats = 1
CHECK_DEADLOCK FALSE
INVARIANTS
  ServesWhole
