----------------------------- MODULE MCCommands -----------------------------
(* Two commands.  A shell exports a key and the limits, or the passphrase  *)
(* of a keystore, or nothing; .env may add the limits.                     *)
EXTENDS Commands, TLC

CONSTANTS p1, p2, k1, k2, w1

MCProc == {p1, p2}

Symmetry == Permutations(MCProc)

MCKeys == {k1, k2}

MCPassphrases == {w1}

Shell(k, w, l) ==
  [PRIVATE_KEY |-> k, KEYSTORE_PASSPHRASE |-> w, LIMITS |-> l]

MCShells == { Shell(k1, None, "on"), Shell(None, w1, None), Shell(k2, w1, "on") }

MCEnvFiles == { <<>>, ConfigSet(<<Line("LIMITS", None)>>, "LIMITS", "on") }

MCKeystores == { None, [key |-> k1, passphrase |-> w1] }

MCEarlier == { <<>>, <<1>> }
=============================================================================
