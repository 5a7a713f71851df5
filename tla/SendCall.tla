------------------------------ MODULE SendCall ------------------------------
(***************************************************************************)
(* What a caller of _send_transaction_with_retry (executor.py:666-688) can *)
(* rely on: some copies of its transaction are mined, at most one at a     *)
(* time is in the mempool, and the call answers with a receipt only when   *)
(* nothing it sent is left there.  The set Outcomes of module Executor is  *)
(* the set of answers this specification allows.                           *)
(***************************************************************************)
EXTENDS Naturals

CONSTANTS MaxSends,      \* broadcasts one call may make
          MayLose        \* whether an answer may be lost after a broadcast

VARIABLES answer,    \* "none" while the call runs, then "receipt" or "error"
          sends,     \* broadcasts so far
          copies,    \* copies mined
          inflight   \* whether a copy is in the mempool

callVars == <<answer, sends, copies, inflight>>

Start ==
  /\ answer = "none"
  /\ sends = 0
  /\ copies = 0
  /\ inflight = FALSE

(* A second broadcast needs a lost answer; it may replace the copy in the  *)
(* mempool.                                                                *)
Broadcast ==
  /\ answer = "none"
  /\ sends < MaxSends
  /\ sends > 0 => MayLose
  /\ sends' = sends + 1
  /\ inflight' = TRUE
  /\ UNCHANGED copies
  /\ answer' = "none" \/ (MayLose /\ answer' = "error")

Mined ==
  /\ inflight
  /\ copies' = copies + 1
  /\ inflight' = FALSE
  /\ UNCHANGED <<answer, sends>>

Dropped ==
  /\ inflight /\ MayLose
  /\ inflight' = FALSE
  /\ UNCHANGED <<answer, sends, copies>>

Receipt ==
  /\ answer = "none"
  /\ copies > 0 /\ ~inflight
  /\ answer' = "receipt"
  /\ UNCHANGED <<sends, copies, inflight>>

Error ==
  /\ answer = "none"
  /\ sends > 0 => MayLose
  /\ answer' = "error"
  /\ UNCHANGED <<sends, copies, inflight>>

Step == Broadcast \/ Mined \/ Dropped \/ Receipt \/ Error

CallSpec == Start /\ [][Step]_callVars
=============================================================================
