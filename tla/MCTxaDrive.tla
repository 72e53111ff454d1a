----------------------------- MODULE MCTxaDrive -----------------------------
(* Instance of TxaDrive for TLC, see txa.cfg.                              *)
EXTENDS TxaDrive
=============================================================================
