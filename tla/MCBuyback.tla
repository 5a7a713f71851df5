----------------------------- MODULE MCBuyback -----------------------------
(***************************************************************************)
(* Values for TLC.  The node's profit, the threshold and the share stand   *)
(* to one another as the code's 2, 10 and 10% do, so that the reserve is   *)
(* Share - 1 cycles' profit; the PnLs hold a loss and profits whose share  *)
(* is rounded up and half-way.                                             *)
(***************************************************************************)
EXTENDS Buyback

SomePnLs == {-20, 0, 6, 15}
=============================================================================
