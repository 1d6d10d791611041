SPECIFICATION Spec
CONSTANTS
  LaneA = LaneA
  LaneB = LaneB
  W1 = W1
  W2 = W2
  NoArm = NoArm
  Lanes = {LaneA, LaneB}
  Delivery <- DeliveryByName
  Workers = {W1}
  Arms = {"on", "latest"}
  Unreadable = "unreadable"
  Flaky = {}
  Wedged = {}
  Events <- TwoLaneEvents
  MaxLog = 3
  BatchCap = 3
  MaxInflight = 4
  RecordedMax = 0
  Skippable = {}
  Verify = TRUE
  StoreFails = TRUE
  MaxCrashes = 1
  MaxRewinds = 0
CHECK_DEADLOCK FALSE
INVARIANTS
  MarkSound
PROPERTIES
  ReservesSoundly
