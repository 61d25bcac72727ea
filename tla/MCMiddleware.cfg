SPECIFICATION MCSpec
CONSTANTS
  thread1 = thread1
  thread2 = thread2
  Senders = {thread1, thread2}
  Receiver = service
  NoOne = none
  MSGQ_SIZE = 3
  MaxSends = 4
  MaxInits = 2
  MaxFails = 1
  HdThreads = {"bbin", "primary", "manager"}
  MaxHdInits = 2
  MaxHdFails = 1
  MaxFrames = 1
  MaxLeft = 1
  MaxOpens = 4
INVARIANTS Whole HdWhole FlagTells
PROPERTIES ImplementsFifo DeinitStops HdStops
CHECK_DEADLOCK FALSE
