--------------------------- MODULE MCTxProtection ---------------------------
(* Instances of TxProtection for TLC.                                      *)
EXTENDS TxProtection
=============================================================================
