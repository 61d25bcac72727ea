SPECIFICATION MCSpec
CONSTANTS
  FM = FM
  AM = AM
  None = None
  Bands <- MCBands
  Default = AM
  Conf <- MCConf
  Initial <- MCInitial
  SETTLE = 2
  PAUSE = 2
  CALLS = 4
  FOUND = 4
  STATIONS = 2
  OPENS = 3
  EVENTS = 1
  DELAY = 1
  REQS = 4
  NEWS = 1
  PARTS = {"session", "scan", "manager"}
INVARIANTS DriversAgree StationsCounted StopRestores EachAnswered BandFollows
PROPERTIES OpeningsAnswered PassEnds
CHECK_DEADLOCK FALSE
