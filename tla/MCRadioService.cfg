SPECIFICATION MCSpec
CONSTANTS
  FM = FM
  AM = AM
  None = None
  Bands <- MCBands
  Configs <- MCConfigs
  Defaults <- MCDefaults
  Tunable <- MCTunable
  Starts = {0, 3}
  REQUESTS = 3
  STATIONS = 2
  WAIT = 2
  TRIES = 1
  LISTEN = 1
  Types = {1, 2, 3, 4}
  SiBands <- MCBands
  SiFreqs <- MCSiFreqs
  SEGMENTS = 2
  RETRIES = 2
  FAULTS = 2
  CALLS_SI = 3
  Nowhere = None
  PARTS = {"service", "tuner"}
INVARIANTS OnGrid OnePass Settled AnswersTrue TuneWorks
PROPERTIES SeekEnds
CHECK_DEADLOCK FALSE
