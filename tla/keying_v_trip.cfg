SPECIFICATION Spec
CONSTANTS
  Callers = {c1, c2}
  Ops = {"mox", "trip"}
  Sources = {"UI", "Cwx"}
  Protocols = {"P1"}
  Reconnects = FALSE
INVARIANTS TripAlwaysWins
