SPECIFICATION Spec
CONSTANTS
  Order = Order
  Refund = Refund
  L1 = L1
  L2 = L2
  Types = {Order, Refund}
  Keys = {"customer"}
  NoArm = NoArm
  Lanes = {L1, L2}
  Events <- KeyedEvents
  Programs <- ArmChanges
  NoScheme = NoScheme
  PoolSize = 2
  MaxLog = 3
  MaxBoots = 2
  MaxRewinds = 0
CHECK_DEADLOCK FALSE
INVARIANTS
  SkipsOnlyWhatIsDone
