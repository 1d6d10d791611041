SPECIFICATION FairSpec
CONSTANTS
  LaneA = LaneA
  LaneB = LaneB
  W1 = W1
  W2 = W2
  NoArm = NoArm
  Lanes = {LaneA, LaneB}
  Delivery <- DeliveryByName
  Workers = {W1}
  Arms = {"on", "latest"}
  Unreadable = "unreadable"
  Flaky = {LaneA}
  Wedged = {}
  Events <- TwoLaneEvents
  MaxLog = 3
  BatchCap = 3
  MaxInflight = 1
  RecordedMax = 3
  Skippable = {}
  Verify = FALSE
  StoreFails = FALSE
  MaxCrashes = 1
  MaxRewinds = 0
PROPERTIES
  Drains
