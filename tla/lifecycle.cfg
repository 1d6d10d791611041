SPECIFICATION FairSpec
CONSTANTS
  Order = Order
  Refund = Refund
  L1 = L1
  L2 = L2
  Types = {Order, Refund}
  Keys = {"customer", "product"}
  NoArm = NoArm
  Lanes = {L1, L2}
  Events <- MixedEvents
  Programs <- KeyChanges
  NoScheme = NoScheme
  PoolSize = 2
  MaxLog = 3
  MaxBoots = 2
  MaxRewinds = 1
CHECK_DEADLOCK FALSE
INVARIANTS
  TypeOK
  ResumesWhereItStopped
PROPERTIES
  DrainEnds
