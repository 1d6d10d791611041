SPECIFICATION FairSpec
CONSTANTS
  LaneA = LaneA
  LaneB = LaneB
  W1 = W1
  W2 = W2
  NoArm = NoArm
  Lanes = {LaneA, LaneB}
  Delivery <- DeliveryByName
  Workers = {W1}
  Arms = {"on", "latest"}
  Unreadable = LaneA
  Flaky = {LaneA}
  Wedged = {LaneA}
  Events <- PlainEvents
  MaxLog = 3
  BatchCap = 1
  MaxInflight = 2
  RecordedMax = 3
  Skippable = {1, 2}
  Verify = FALSE
  StoreFails = FALSE
  MaxCrashes = 0
  MaxRewinds = 0
PROPERTIES
  HealthyLanesFlow
  SkipsRelease
