SPECIFICATION Spec
CONSTANTS
  Order = Order
  Customer = Customer
  Shop = Shop
  Before = Before
  Deep = Deep
  Adopt = Adopt
  NoSubject = NoSubject
  Old = Old
  New = New
  NoMaster = NoMaster
  Subjects = {Order, Customer, Shop}
  Writers = {Before, Deep}
  Adopter = Adopt
  Chain <- MCChain
  Depth = 3
  ServerMaster = New
  Founded = {Customer}
  MintAttempts = 2
  SweepLimit = 1
  MaxNumbers = 6
  MaxWrites = 2
  MaxErases = 2
  MaxAdoptions = 1
  MaxRotations = 1
CHECK_DEADLOCK FALSE
INVARIANTS
  AdoptionLosesNothing
