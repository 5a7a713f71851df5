---------------------------- MODULE DailyVolume ----------------------------
(***************************************************************************)
(* Module Executor with a history variable: how much of today's deposits   *)
(* the trade table does not tell of.  The daily cap of executor.py:441-468 *)
(* adds up rows of that table, so it can be no better than they are.       *)
(***************************************************************************)
EXTENDS Executor

VARIABLE unbooked   \* USDC of today's deposits that no row tells of

Excess(moved, told) == IF moved > told THEN moved - told ELSE 0

(* What a step adds to it: a row that is not written (or dies with the     *)
(* process), a deposit let through with the cap exceeded because the table *)
(* cannot be read, and what a deposit moves beyond the amount its row will *)
(* give, twice mined, mined late or mined without a receipt.               *)
Escaped ==
  IF \/ pc = "record" /\ pc' = "idle" /\ trades' = trades
     \/ pc = "limits" /\ pc' = "funds" /\ DailyCapExceeded(amt)
  THEN amt
  ELSE Excess(spent' - spent, IF pc = "deposit" /\ pc' = "record" THEN amt' ELSE 0)

(* At midnight the count starts again, but for a deposit under way that    *)
(* exceeds the cap all by itself: it was let through the day before.       *)
UnderWay ==
  IF pc \in {"funds", "approve", "deposit"} /\ amt > DailyCap THEN amt ELSE 0

Watch == unbooked' = IF Midnight THEN UnderWay ELSE unbooked + Escaped

WatchedInit == Init /\ unbooked = 0

WatchedNext == Next /\ Watch

WatchedSpec == WatchedInit /\ [][WatchedNext]_<<vars, unbooked>>

-----------------------------------------------------------------------------
(* The USDC deposited in one day stays within DAILY_TX_LIMIT, but for what *)
(* the rows of the trade table do not tell of: reverts, failing calls, gas *)
(* shortage, overestimates, retries and restarts do not stretch the cap by *)
(* themselves (executor.py:441-468, 498-512).                              *)
DailyVolumeWithinCap == spent <= DailyCap + unbooked
=============================================================================
