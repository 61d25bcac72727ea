SPECIFICATION MCSpec
CONSTANTS
  FM = FM
  AM = AM
  None = None
  Bands <- MCBands
  Default = AM
  Conf <- MCConf
  Initial <- MCInitial
  SETTLE = 2
  PAUSE = 2
  CALLS = 4
  FOUND = 4
  STATIONS = 3
  OPENS = 2
  EVENTS = 0
  DELAY = 0
  REQS = 0
  NEWS = 1
  PARTS = {"session"}
PROPERTIES NotSetWhenClosed
CHECK_DEADLOCK FALSE
