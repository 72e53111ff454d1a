SPECIFICATION Spec
CONSTANTS
  Ingest = ingest
  Callers = {ingest}
  Ratio = 1
  DownBlocks = 2
  FlushMax = 1
  Overlap = FALSE
INVARIANTS TxaTypeOK RingBooks RingsHold
PROPERTIES ComesUpClean CallReturns ImplementsPipe
