----------------------------- MODULE MCTxKeying -----------------------------
(* Instances of TxKeying for TLC: one caller or two, see the .cfg files.   *)
EXTENDS TxKeying, TLC

\* Threads are interchangeable.
Perms == Permutations(Callers)
=============================================================================
