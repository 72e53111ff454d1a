SPECIFICATION PttSpec
CONSTANTS
  RxThread = rx
  HangThread = hang
  Callers = {rx, hang}
  Ops = {"mox"}
  Sources = {"UI", "Hardware"}
  Protocols = {"P1"}
  Reconnects = FALSE
INVARIANTS OutstandingMoxIsClaimed
