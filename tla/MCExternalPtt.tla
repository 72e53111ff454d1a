--------------------------- MODULE MCExternalPtt ---------------------------
(* Instance of ExternalPtt for TLC, see ptt.cfg.                           *)
EXTENDS ExternalPtt

\* Bound: somebody else uses the transmitter only in a first connection whose
\* edges have all been heard, and the link stays up from then on.
SharedStaysUp == shared' => link' = "p1up" /\ ~missed' /\ ~upset'

MCSpec == PttInit /\ [][PttNext /\ SharedStaysUp]_allVars /\ PttFairness
=============================================================================
