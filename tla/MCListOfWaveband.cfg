SPECIFICATION MCSpec
CONSTANTS
  FM = FM
  AM = AM
  None = None
  Bands <- MCBands
  Configs <- MCConfigs
  Defaults <- MCDefaults
  Tunable <- MCTunable
  Starts = {0}
  REQUESTS = 4
  STATIONS = 1
  WAIT = 2
  TRIES = 0
  LISTEN = 1
  Types = {1}
  SiBands <- MCBands
  SiFreqs <- MCSiFreqs
  SEGMENTS = 1
  RETRIES = 1
  FAULTS = 0
  CALLS_SI = 0
  Nowhere = None
  PARTS = {"service"}
PROPERTY ListOfWaveband
