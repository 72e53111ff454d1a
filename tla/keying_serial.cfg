SPECIFICATION Spec
CONSTANTS
  Callers = {c1}
  Ops = {"mox", "tun", "twotone", "trip"}
  Sources = {"UI", "Hardware", "Cwx"}
  Protocols = {"P1", "P2"}
  Reconnects = TRUE
INVARIANTS SettledAgreement NoUnwatchedCarrier
PROPERTIES EngineBeforeWire
