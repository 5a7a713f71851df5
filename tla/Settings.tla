------------------------------ MODULE Settings ------------------------------
(***************************************************************************)
(* Where a command gets its settings and its private key from: the shell's *)
(* environment, the .env file (config.go, load_dotenv of cli/main.py), and *)
(* the encrypted keystore (keystore.go, runner.go).  Functions only: a key *)
(* stands for itself and for its address.                                  *)
(***************************************************************************)
EXTENDS Naturals, FiniteSetsExt, SequencesExt

CONSTANTS PrivateKey, Passphrase,
          None              \* no value: an empty line, an unset variable

ASSUME NoneAssumption == None \notin PrivateKey \cup Passphrase

(* KEYSTORE_FILE goes with its passphrase, LIMITS stands for MAX_TX_AMOUNT *)
(* and DAILY_TX_LIMIT.                                                     *)
Setting == {"PRIVATE_KEY", "KEYSTORE_PASSPHRASE", "LIMITS"}

Value == PrivateKey \cup Passphrase \cup {"on", None}

Environment == [Setting -> Value]

-----------------------------------------------------------------------------
(* The .env file: its lines NAME=value, in order.                          *)

Line(n, v) == [name |-> n, value |-> v]

EnvFile == Seq([name : Setting, value : Value])

Lines(f, n) == { i \in 1..Len(f) : f[i].name = n }

ConfigSet(f, n, v) ==         \* the first line of that name, or a new one
  IF Lines(f, n) # {} THEN [f EXCEPT ![Min(Lines(f, n))] = Line(n, v)]
                      ELSE Append(f, Line(n, v))

(* load_dotenv: the last line of a name counts, and a variable that the    *)
(* environment has already is left as it is.                               *)
Loads(f, n) == IF Lines(f, n) = {} THEN None ELSE f[Max(Lines(f, n))].value

Environ(shell, f) ==
  [n \in Setting |-> IF shell[n] # None THEN shell[n] ELSE Loads(f, n)]

-----------------------------------------------------------------------------
(* The keystore file: a key sealed with a passphrase, or None where it is  *)
(* missing, torn or something else.                                        *)

Sealed == [key : PrivateKey, passphrase : Passphrase]

Opens(w, ks) == w # None /\ ks # None /\ ks.passphrase = w

(* What agent-heap wallet balance shows the balance of.                    *)
BalanceKey(env, ks) ==
  IF env["PRIVATE_KEY"] # None THEN env["PRIVATE_KEY"]
  ELSE IF Opens(env["KEYSTORE_PASSPHRASE"], ks) THEN ks.key ELSE None

(* ResolvePrivateKey: a keystore that is configured and does not open is   *)
(* an error, whatever PRIVATE_KEY says.                                    *)
ResolvePrivateKey(env, ks) ==
  LET w == env["KEYSTORE_PASSPHRASE"]
  IN IF w = None THEN env["PRIVATE_KEY"]
     ELSE IF Opens(w, ks) THEN ks.key ELSE None

(* What the agent signs with.  RunWithKey: after every error of the above  *)
(* the subprocess runs in the environment of its parent, PRIVATE_KEY       *)
(* included.  The Python loop knows no keystore.                           *)
RunKey(env, ks) ==
  IF ResolvePrivateKey(env, ks) # None THEN ResolvePrivateKey(env, ks)
  ELSE env["PRIVATE_KEY"]
=============================================================================
