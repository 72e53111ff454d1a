SPECIFICATION MCSpec
CONSTANTS
  RxThread = rx
  HangThread = hang
  Callers = {rx, hang, ui}
  Ops = {"mox"}
  Sources = {"UI", "Hardware"}
  Protocols = {"P1"}
  Reconnects = TRUE
INVARIANTS ClaimMatchesCarrier HeldKeyKeepsMox
PROPERTIES KeyReleaseEndsTx HangReleasesOnlyOwnMox
