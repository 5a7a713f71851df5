----------------------------- MODULE MCRiskGate -----------------------------
(* Instances of RiskGate for TLC: a limit of one unit, so that one loss of  *)
(* two units or two of one reach beyond it, and the 0 that run_agent gives. *)
EXTENDS RiskGate

Both == {-2, -1, 0, 1}
=============================================================================
