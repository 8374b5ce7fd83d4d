CONSTANTS
  Buffer <- MCBuffer
  MaxOutput <- MCMaxOutput
  MaxInput <- MCMaxInput
SPECIFICATION FairSpec
INVARIANTS
  TypeOK
  OutputInOrder
  EndsWithWebSocket
PROPERTIES
  SessionEnds
  NoTaskLeft
\* A session that has returned, with everything ended, stops.
CHECK_DEADLOCK FALSE
