SPECIFICATION MCSpec
CONSTANTS
  SIZE = 4
  WORD = 16
  Elements = {0, 1, 2, 3, 4, 5, 6}
  Zero = 0
  FRAME = 1
  FILL = 2
  LAST = 6
  SESSIONS = 2
  ANALOG_FRAME = 2
  Samples = {1}
  Chunks = {1, 2}
  POSTS = 2
  Station <- MCStation
  PROGRAMS = 8
  Masks <- MCMasks
  LOT = 2
  STATUS = 1
  OBJECTS = 2
  REQUESTS = 2
  LAG = 1
  TONE = 2
  AudioModes = {"blend", "split"}
  PARTS = {"output", "input", "objects", "blending"}
INVARIANTS BufferSound OnlyResetsRace SlotHeld ToldOnce AlertKept
PROPERTIES PlayedInOrder ObjectsServed PortsOpened AlignedOrCarried
CHECK_DEADLOCK FALSE
