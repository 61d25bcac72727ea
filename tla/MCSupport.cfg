SPECIFICATION MCSpec
CONSTANTS
  S_MAX = 15
  SIZE = 3
  WORD = 8
  Elements = {sound, silence}
  Zero = silence
  RING_SIZE = 4
  Bytes = {x, y}
  NoData = NoData
  Airs <- MCAirs
  Unprintable = {stray}
  NAMELEN = 3
  TEXTLEN = 3
  PIMAX = 2
  BATCH = 1
  STEPS = 3
  JOINS = 1
  Ending = {4, 5, 6, stray}
  Strays = {stray}
  PARTS = {"arithmetic", "buffer", "ring", "rds"}
INVARIANTS ExactOrSaturated 
PROPERTIES ImplementsStream ImplementsByteQueue 
CHECK_DEADLOCK FALSE
