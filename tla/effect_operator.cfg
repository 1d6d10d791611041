SPECIFICATION Spec
CONSTANTS
  LaneA = LaneA
  LaneB = LaneB
  W1 = W1
  W2 = W2
  NoArm = NoArm
  Lanes = {LaneA, LaneB}
  Delivery <- DeliveryByName
  Workers = {W1}
  Arms = {"on", "live"}
  Unreadable = "unreadable"
  Flaky = {LaneA}
  Wedged = {}
  Events <- LiveEvents
  MaxLog = 2
  BatchCap = 1
  MaxInflight = 2
  RecordedMax = 3
  Skippable = {2}
  Verify = FALSE
  StoreFails = TRUE
  MaxCrashes = 1
  MaxRewinds = 1
PROPERTIES
  OperatorBound
