\* Two utterances, a chunk being half of what is flushed at once; two pairs of starts
\* that overlap.
CONSTANTS
  MaxChunks = 6
  MaxUtterances = 2
  MaxFails = 2
  FlushAt = 2
  Window = 3
  MaxStreams = 4
  MaxReports = 3
  MaxTests = 1
  TalkLimit = 2
  ChunkLimit = 2
  DropLimit = 1
  PushLimit = 3
  ReportLimit = 2
SPECIFICATION MCSpec
INVARIANTS HeardInOrder
INVARIANTS OffReleasesTheDevice ListeningIsCapture EndsFollowSilence
PROPERTY EndsAreHeard
CHECK_DEADLOCK FALSE
