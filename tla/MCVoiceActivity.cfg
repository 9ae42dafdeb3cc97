CONSTANTS
  MaxTalks = 1
  MaxChunks = 1
  MaxDrops = 0
  MaxPushed = 2
  MaxReports = 1
SPECIFICATION Spec
PROPERTY SpeechIsHeard
CHECK_DEADLOCK FALSE
