---------------------------- MODULE SendOutcome ----------------------------
(* The answers of _send_transaction_with_retry (executor.py:666-688), as   *)
(* module Executor assumes them and module TxSender gives them.            *)
EXTENDS Naturals

(* o.receipt: the call returned; o.mined: copies of the transaction mined  *)
(* by then; o.late: one more is still in the mempool.                      *)
OutcomeAllowed(o, maxSends, mayLose) ==
  /\ o.mined + (IF o.late THEN 1 ELSE 0) <= maxSends
  /\ o.receipt => o.mined >= 1 /\ ~o.late
  /\ o.mined > (IF o.receipt THEN 1 ELSE 0) \/ o.late => mayLose
=============================================================================
