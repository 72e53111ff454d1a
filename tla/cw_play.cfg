SPECIFICATION FairCwSpec
CONSTANTS
  Worker = cw
  Callers = {cw, ui}
  Ops = {"mox"}
  Sources = {"UI", "Cwx"}
  Protocols = {"P2"}
  Reconnects = FALSE
  MaxJobs = 2
  Chunks = 2
  MaxAborts = 1
  MaxLost = 1
INVARIANTS CwTypeOK PendingCounts NoCwCarrierLeft PlaysUnderMox OneChunkAfterCancel
PROPERTIES QueueDrains
