SPECIFICATION FairSpec
CONSTANTS
  Old = Old
  New = New
  Plain = Plain
  Other = Other
  Odd = Odd
  NoDefinition = NoDefinition
  Definitions = {Old, New}
  Kinds = {Plain, Other, Odd}
  Selects <- MCSelects
  Fails <- MCFails
  Readers = {r1}
  MaxLog = 2
  BatchCap = 2
  MaxBoots = 2
  MaxReplays = 1
  MaxFaults = 0
  Formats = {1}
CHECK_DEADLOCK FALSE
INVARIANTS
  ReadsAlwaysTrue
