----------------------------- MODULE MCTxSender -----------------------------
(* TxSender with the code's max_retries = 2; constants come from the .cfg.  *)
EXTENDS TxSender
=============================================================================
