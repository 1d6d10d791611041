SPECIFICATION Spec
CONSTANTS
  LaneA = LaneA
  LaneB = LaneB
  W1 = W1
  W2 = W2
  NoArm = NoArm
  Lanes = {LaneA, LaneB}
  Delivery <- DeliveryByName
  Workers = {W1, W2}
  Arms = {"on", "latest"}
  Unreadable = "unreadable"
  Flaky = {}
  Wedged = {}
  Events <- MixedEvents
  MaxLog = 3
  BatchCap = 3
  MaxInflight = 4
  RecordedMax = 3
  Skippable = {}
  Verify = FALSE
  StoreFails = FALSE
  MaxCrashes = 1
  MaxRewinds = 0
SYMMETRY Symmetry
INVARIANTS
  TypeOK
  OneWorkerPerLane
  NoLaneLost
  FrozenHead
  RecordsSound
PROPERTIES
  LatestNeverOlder
  ImplementsDelivery
