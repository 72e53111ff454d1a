SPECIFICATION MCSpec
CONSTANTS
  Workers = {w1}
  Joined = FALSE
  Size = 2
  Incr = 1
  MaxW = 2
  MaxFrames = 3
  MaxZooms = 1
  Clients = {c1}
  Backlog = 4
  LastPhase = 2
INVARIANTS AnalyzerBooks
PROPERTIES WholeAndForward WisdomArrives
