---------------------------- MODULE MCPureSignal ----------------------------
(* Instance of PureSignal for TLC, see puresig.cfg.                        *)
EXTENDS PureSignal
=============================================================================
