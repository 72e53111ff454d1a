--------------------------- MODULE MCDisplayPath ---------------------------
(* Instance of DisplayPath for TLC, see display.cfg.                       *)
EXTENDS DisplayPath

\* Bound: the FFT planning begins when the last frame has been made, the samples
\* are skipped, no frame has been read and no zoom has been or will be changed.
Settled ==
  /\ made' = MaxFrames /\ have' = MaxW + 1 /\ dpc' = "scan"
  /\ \A k \in Workers : wpc'[k] = "idle"
PlanningLast ==
  /\ phase' # Idle => Settled /\ cfg' = 0 /\ lock' # "zoom"
  /\ phase # phase' /\ phase = Idle => got' = NoFrame

MCSpec == Init /\ [][Next /\ PlanningLast]_vars /\ Fairness
=============================================================================
