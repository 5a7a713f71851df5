----------------------------- MODULE MCExecutor -----------------------------
(* Instances of Executor for TLC: aave has both calls, morpho an address    *)
(* but no calls, and the name aave-v3 of a collected pool neither.          *)
EXTENDS DailyVolume

Aave == {"aave"}
AaveCompound == {"aave", "compound"}
AaveMorpho == {"aave", "morpho"}
AllNames == {"aave", "morpho", "aave-v3"}
OnePool == {"USDC"}
TwoPools == {"USDC", "USDC.e"}
NoFaults == {}
AnyFault == FaultKinds

Deep == [k \in Key |-> 0]
Mixed == [k \in Key |-> IF k[1] = "aave" THEN 3 ELSE 1]
=============================================================================
