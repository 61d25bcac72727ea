SPECIFICATION MCSpec
CONSTANTS
  Programs = {0, 1}
  Freqs = {98, 102}
  Pty <- Table
  Home = 98
  Torn = Torn
  PSD = 2
  SIS = 2
  STATUS = 1
  BURST = 2
  Plans <- MCPlans
  LAG = 0
  SIZE = 8
  WORD = 32
  Zero = Zero
  Elements <- MCElements
  LOOP = 2
  AHEAD = 4
  PART = 2
  OPENS_IQ = 2
  FAULTS_IQ = 1
  LOOP_V = 2
  SAMPLES = 8
  WORD_V = 16
  POSTS_V = 3
  OPENS_V = 2
  EVENTS_V = 2
  PARTS = {"service"}
CHECK_DEADLOCK FALSE
INVARIANT BusyMeansReacquiring
