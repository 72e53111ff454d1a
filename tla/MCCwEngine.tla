----------------------------- MODULE MCCwEngine -----------------------------
(* Instances of CwEngine for TLC.                                          *)
EXTENDS CwEngine
=============================================================================
