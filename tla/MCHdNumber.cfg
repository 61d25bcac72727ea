SPECIFICATION HdLifeSpec
CONSTANTS
  HdThreads = {"primary", "blending"}
  MaxHdInits = 1
  MaxHdFails = 0
  MaxFrames = 0
  MaxLeft = 0
INVARIANTS PrimaryIsFirst
CHECK_DEADLOCK FALSE
