---------------------------- MODULE MCDecision ----------------------------
(* Instances of Decision for TLC: two targeted protocols with pools of the  *)
(* same and of different symbols and APYs, one pool of another protocol and *)
(* one on another chain.                                                    *)
EXTENDS Decision

P(protocol, pool, apy, chain) ==
  [protocol |-> protocol, pool |-> pool, apy |-> apy, chain |-> chain]

Listed == { P("aave-v3", "USDC", 2, "Base"), P("aave-v3", "WETH", 0, "Base"),
            P("compound-v3", "USDC", 2, "Base"), P("compound-v3", "USDC", 3, "Base"),
            P("lido", "WETH", 5, "Base"), P("aave-v3", "USDC", 5, "Ethereum") }

Lending == {"aave-v3", "compound-v3"}
=============================================================================
