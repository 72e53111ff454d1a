SPECIFICATION CwSpec
CONSTANTS
  Worker = cw
  Callers = {cw}
  Ops = {"mox"}
  Sources = {"UI", "Cwx"}
  Protocols = {"P1"}
  Reconnects = FALSE
  MaxJobs = 1
  Chunks = 1
  MaxAborts = 1
  MaxLost = 0
INVARIANTS NoPlayAfterAbort
CHECK_DEADLOCK FALSE
