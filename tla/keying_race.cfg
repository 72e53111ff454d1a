SPECIFICATION Spec
CONSTANTS
  Callers = {c1, c2}
  Ops = {"mox", "tun", "twotone", "trip"}
  Sources = {"UI", "Hardware", "Cwx"}
  Protocols = {"P2"}
  Reconnects = FALSE
SYMMETRY Perms
INVARIANTS KeyInv
PROPERTIES NoForeignTakeover
