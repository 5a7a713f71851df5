------------------------------ MODULE Commands ------------------------------
(***************************************************************************)
(* The agent commands of one host side by side, over one day: agent-heap   *)
(* start (each iteration), agent-heap run, and the Python start command.   *)
(* They share the positions file and the trade table; the settings each    *)
(* finds when it is launched and the keystore at each cycle are inputs.  A *)
(* process is a command together with the subprocess it runs.              *)
(***************************************************************************)
EXTENDS PositionFile, Settings

CONSTANTS Shells,        \* environments a command may be launched in
          EnvFiles,      \* .env files there may be at that time
          Keystores,     \* what the keystore may hold at a cycle, or None
          SignalAmount,  \* what a signal may ask to deposit
          Accrued,       \* yield a harvest may find on a position
          Earlier,       \* rows there may be of earlier that day
          MaxTx,         \* MAX_TX_AMOUNT, where it is set
          DailyCap,      \* DAILY_TX_LIMIT, where it is set
          TradeWindow,   \* rows get_recent_trades returns: 100
          MaxCycles      \* bound: cycles begun

ASSUME InputAssumption ==
  /\ Shells \subseteq Environment
  /\ EnvFiles \subseteq EnvFile
  /\ Keystores \subseteq Sealed \cup {None}

Volume(s) == FoldFunction(+, 0, s)

ASSUME LimitAssumption ==
  /\ IsFiniteSet(Proc)
  /\ MaxTx \in Nat /\ DailyCap \in Nat /\ MaxCycles \in Nat
  /\ TradeWindow \in Nat \ {0}
  /\ SignalAmount \subseteq Nat /\ Accrued \subseteq Nat
  /\ Earlier \subseteq Seq(Nat) /\ \A s \in Earlier : Volume(s) <= DailyCap

VARIABLES
  proc,       \* what each process knows: see Process
  rows,       \* amounts of today's rows of the trade table, oldest first
  sent,       \* observer: USDC deposited today
  escaped,    \* observer: of it, what no row tells of or no check held back
  overlaps,   \* observer: checks passed between check and row of another
  cycles      \* observer: cycles begun

hostVars == <<proc, rows, sent, escaped, overlaps, cycles>>

vars == <<fileVars, hostVars>>

Kind == {"run", "start", "loop"}

(* env is the environment of the command, ks the keystore its cycle found, *)
(* key what it signs with.  at is the place of the signal, own its amount, *)
(* amt that and the capital withdrawn from a position: plan at from.       *)
(* moved is what the cycle has deposited.  Observers: promised tells how   *)
(* much of moved a row is to tell of, excused that a check had no effect,  *)
(* overtaken that a row was booked since the check, refused that run       *)
(* turned the trade down.                                                  *)
Process ==
  [kind : Kind, env : Environment, ks : Sealed \cup {None}, key : Value,
   pc : {"off", "ready", "withdraw", "gate", "simulate", "track", "limits",
         "send", "answer", "done"},
   plan : Nat, from : Place, at : Place, own : Nat, amt : Nat,
   moved : Nat, promised : Nat,
   excused : BOOLEAN, overtaken : BOOLEAN, refused : BOOLEAN]

TypeOK ==
  /\ FileTypeOK
  /\ proc \in [Proc -> Process]
  /\ rows \in Seq(Nat)
  /\ overlaps \in Nat /\ cycles \in Nat

Somewhere == CHOOSE k \in Place : TRUE

NoSettings == [n \in Setting |-> None]

Idle == [kind |-> "run", env |-> NoSettings, ks |-> None,
         key |-> None, pc |-> "off",
         plan |-> 0, from |-> Somewhere, at |-> Somewhere, own |-> 0, amt |-> 0,
         moved |-> 0, promised |-> 0,
         excused |-> FALSE, overtaken |-> FALSE, refused |-> FALSE]

Waiting(p) == [Idle EXCEPT !.kind = proc[p].kind, !.env = proc[p].env,
                           !.pc = "ready"]

Init ==
  /\ FileInit
  /\ proc = [p \in Proc |-> Idle]
  /\ rows \in Earlier /\ sent = Volume(rows)
  /\ escaped = 0 /\ overlaps = 0 /\ cycles = 0

At(p, l) == proc[p].pc = l /\ ~Busy(p)

Moves(p, r) == proc' = [proc EXCEPT ![p] = r]

Goto(p, l) == Moves(p, [proc[p] EXCEPT !.pc = l])

Answers(p, a) == Moves(p, [proc[p] EXCEPT !.pc = "answer", !.amt = a])

-----------------------------------------------------------------------------
(* Commands begin and end.                                                 *)

Launch(p, kind, shell, f) ==      \* cli/main.py loads .env, agent-heap not
  /\ At(p, "off") /\ cycles < MaxCycles
  /\ Moves(p, [Idle EXCEPT
       !.kind = kind, !.pc = "ready",
       !.env = IF kind = "loop" THEN Environ(shell, f) ELSE shell])
  /\ UNCHANGED <<fileVars, rows, sent, escaped, overlaps, cycles>>

(* A cycle: RunWithKey resolves the key anew, the Python loop has the one  *)
(* of its environment.  harvest() may plan to withdraw what the file shows *)
(* and its yield; the signal comes from the analysis.                      *)
Begin(p, ks, from, y, at, a) ==
  /\ At(p, "ready") /\ cycles < MaxCycles
  /\ LET plans == IF file[from] > 0 THEN {0, file[from] + y} ELSE {0}
     IN \E w \in plans :
          Moves(p, [proc[p] EXCEPT
            !.ks = IF proc[p].kind = "loop" THEN None ELSE ks,
            !.key = IF proc[p].kind = "loop" THEN proc[p].env["PRIVATE_KEY"]
                    ELSE RunKey(proc[p].env, ks),
            !.pc = IF w > 0 THEN "withdraw" ELSE "gate",
            !.plan = w, !.from = from, !.at = at, !.own = a, !.amt = a])
  /\ cycles' = cycles + 1
  /\ UNCHANGED <<fileVars, rows, sent, escaped, overlaps>>

Halt(p) ==                        \* killed, stopped or failed anywhere
  /\ proc[p].pc # "off"
  /\ Die(p)
  /\ Moves(p, Idle)
  /\ escaped' = escaped + proc[p].promised
  /\ UNCHANGED <<rows, sent, overlaps, cycles>>

-----------------------------------------------------------------------------
(* The calls on the positions file, from withdraw, simulate and track.     *)

Tracked(p) ==
  CASE proc[p].pc = "withdraw" ->
         [op |-> "withdrawal", at |-> proc[p].from, amount |-> proc[p].plan]
    [] proc[p].pc = "simulate" ->
         [op |-> "deposit", at |-> proc[p].at, amount |-> proc[p].own]
    [] proc[p].pc = "track" ->
         [op |-> "deposit", at |-> proc[p].at, amount |-> proc[p].amt]

LoadFile(p) ==
  /\ proc[p].pc \in {"withdraw", "simulate", "track"}
  /\ Load(p, Tracked(p))
  /\ UNCHANGED hostVars

TruncateFile(p) ==
  /\ Truncate(p)
  /\ UNCHANGED hostVars

WriteFile(p) ==            \* the withdrawn capital joins the signal's amount
  /\ Write(p)
  /\ \/ /\ proc[p].pc = "withdraw"
        /\ Moves(p, [proc[p] EXCEPT !.pc = "gate", !.plan = 0,
                                    !.amt = proc[p].own + proc[p].plan])
     \/ proc[p].pc = "simulate" /\ Answers(p, proc[p].own)
     \/ proc[p].pc = "track" /\ Goto(p, "limits")
  /\ UNCHANGED <<rows, sent, escaped, overlaps, cycles>>

-----------------------------------------------------------------------------
(* execute(), in the subprocess or in the loop.                            *)

(* Too much slippage, and the withdrawal is skipped; a transaction that    *)
(* fails counts into the total, but not in the file.                       *)
NoWithdrawal(p) ==
  /\ At(p, "withdraw")
  /\ \E a \in {proc[p].own, proc[p].own + proc[p].plan} :
       Moves(p, [proc[p] EXCEPT !.pc = "gate", !.plan = 0, !.amt = a])
  /\ UNCHANGED <<fileVars, rows, sent, escaped, overlaps, cycles>>

(* No tx_result, or one blocked by slippage: it has no amount, and no      *)
(* action, which the Python loop stumbles over before it saves a row.      *)
NoTrade(p) ==
  /\ At(p, "gate")
  /\ \/ Goto(p, IF proc[p].kind = "run" THEN "done" ELSE "ready")
     \/ /\ proc[p].kind # "loop"
        /\ Answers(p, 0)
  /\ UNCHANGED <<fileVars, rows, sent, escaped, overlaps, cycles>>

Gate(p) ==                              \* without a key it is a simulation
  /\ At(p, "gate")
  /\ Goto(p, IF proc[p].key = None THEN "simulate" ELSE "track")
  /\ UNCHANGED <<fileVars, rows, sent, escaped, overlaps, cycles>>

Limited(p) == proc[p].env["LIMITS"] # None     \* the two limits are set

Recent ==
  SubSeq(rows, IF Len(rows) > TradeWindow THEN Len(rows) - TradeWindow + 1
                                          ELSE 1, Len(rows))

OverTx(a) == a > MaxTx                        \* _spending_limits_exceeded

OverTxAlone(a, s) == a > DailyCap             \* a mutant: the rows not added

OverDaily(a, s) == Volume(s) + a > DailyCap   \* _daily_cap_exceeded

SignalAlone(p) == proc[p].own             \* a mutant: without it

Checked(p) == proc[p].amt                 \* with the capital withdrawn

LimitBlocked(p) ==                          \* a tx_result that is not sent
  /\ At(p, "limits") /\ Limited(p)
  /\ OverTx(Checked(p)) \/ OverDaily(Checked(p), Recent)
  /\ Goto(p, "answer")
  /\ UNCHANGED <<fileVars, rows, sent, escaped, overlaps, cycles>>

Unbooked(q) == proc[q].pc \in {"send", "simulate", "answer"}

(* No limit is set, or none is reached by the last rows; when the table    *)
(* cannot be read (a lock, a row another driver wrote), only the first     *)
(* limit counts.                                                           *)
LimitsPassed(p) ==
  /\ At(p, "limits")
  /\ \E readable \in BOOLEAN :
       /\ Limited(p) => /\ ~OverTx(Checked(p))
                        /\ readable => ~OverDaily(Checked(p), Recent)
       /\ Moves(p, [proc[p] EXCEPT !.pc = "send",
                      !.excused = ~Limited(p) \/ ~readable
                                  \/ Len(rows) > TradeWindow])
  /\ overlaps' = IF (\E q \in Proc \ {p} : Unbooked(q) /\ proc[q].kind # "run")
                    /\ overlaps + 1 < Cardinality(Proc)
                 THEN overlaps + 1 ELSE overlaps
  /\ UNCHANGED <<fileVars, rows, sent, escaped, cycles>>

(* No node to talk to, no gas, an exception: the except clause tells own.  *)
NotSent(p) ==
  /\ \/ At(p, "track") /\ Answers(p, proc[p].own)
     \/ /\ At(p, "send")
        /\ \E a \in {proc[p].own, proc[p].amt} : Answers(p, a)
  /\ UNCHANGED <<fileVars, rows, sent, escaped, overlaps, cycles>>

NoHandler(p) ==                       \* _simulate, with a second track_deposit
  /\ At(p, "send")
  /\ Goto(p, "simulate")
  /\ UNCHANGED <<fileVars, rows, sent, escaped, overlaps, cycles>>

Send(p) ==              \* told in full, or, after an exception, without extra
  /\ At(p, "send")
  /\ sent' = sent + proc[p].amt
  /\ \E a \in {proc[p].own, proc[p].amt} :
       LET t == IF proc[p].excused \/ proc[p].kind = "run" THEN 0 ELSE a
       IN /\ Moves(p, [proc[p] EXCEPT !.pc = "answer", !.amt = a,
                         !.moved = proc[p].amt, !.promised = t])
          /\ escaped' = escaped + (proc[p].amt - t)
  /\ UNCHANGED <<fileVars, rows, overlaps, cycles>>

-----------------------------------------------------------------------------
(* What the caller does with the answer.                                   *)

Booked(p) ==         \* p goes on to its next cycle, and others hear of its row
  [q \in Proc |->
     IF q = p THEN Waiting(p)
     ELSE [proc[q] EXCEPT !.overtaken =
             @ \/ (proc[q].kind = "run" /\ Unbooked(q))]]

SaveTrade(p) ==            \* start and loop: a row for every tx_result
  /\ At(p, "answer") /\ proc[p].kind # "run"
  /\ rows' = Append(rows, proc[p].amt)
  /\ proc' = Booked(p)
  /\ UNCHANGED <<fileVars, sent, escaped, overlaps, cycles>>

Unsaved(p) ==              \* an answer that is lost, a row that is not written
  /\ At(p, "answer") /\ proc[p].kind # "run"
  /\ Moves(p, Waiting(p))
  /\ escaped' = escaped + proc[p].promised
  /\ UNCHANGED <<fileVars, rows, sent, overlaps, cycles>>

(* checkSpendingLimits, after the fact, on all of today's rows; an error   *)
(* of the table refuses as well.                                           *)
CheckSpendingLimits(p) ==
  /\ At(p, "answer") /\ proc[p].kind = "run"
  /\ \E broken \in BOOLEAN :
       Moves(p, [proc[p] EXCEPT !.pc = "done", !.excused = @ \/ broken,
                   !.refused = /\ Limited(p)
                               /\ \/ OverTx(proc[p].amt)
                                  \/ broken \/ OverDaily(proc[p].amt, rows)])
  /\ UNCHANGED <<fileVars, rows, sent, escaped, overlaps, cycles>>

Quit(p) ==                                                  \* run returns
  /\ At(p, "done")
  /\ Moves(p, Idle)
  /\ UNCHANGED <<fileVars, rows, sent, escaped, overlaps, cycles>>

Next ==
  \E p \in Proc :
       \/ \E kind \in Kind, shell \in Shells, f \in EnvFiles :
            Launch(p, kind, shell, f)
       \/ \E ks \in Keystores, from, at \in Place, y \in Accrued,
             a \in SignalAmount : Begin(p, ks, from, y, at, a)
       \/ Halt(p)
       \/ LoadFile(p) \/ TruncateFile(p) \/ WriteFile(p)
       \/ NoWithdrawal(p) \/ NoTrade(p) \/ Gate(p)
       \/ LimitBlocked(p) \/ LimitsPassed(p)
       \/ NotSent(p) \/ NoHandler(p) \/ Send(p)
       \/ SaveTrade(p) \/ Unsaved(p) \/ CheckSpendingLimits(p)
       \/ Quit(p)

Spec == Init /\ [][Next]_vars

-----------------------------------------------------------------------------
(* When agent-heap run refuses a trade it has sent nothing, although it    *)
(* looks after the trade: but for a row another command booked since the   *)
(* executor's own check, or a check that had no effect (run.go:45-51       *)
(* against executor.py:498-512).                                           *)
RefusedMeansUnsent ==
  \A p \in Proc : proc[p].refused /\ proc[p].moved > 0 =>
                    proc[p].excused \/ proc[p].overtaken

(* Commands overrun the daily limit only where one checks it while another *)
(* has checked and not yet booked its row, each time by one transaction    *)
(* and never by more than the commands but one (overlaps stops there); all *)
(* else that goes beyond it is what no row tells of (every trade of run    *)
(* among it) or no check looked at (executor.py:441, start.go:111).        *)
OvershootBounded ==
  sent <= DailyCap + overlaps * MaxTx + escaped

(* While a cycle is under way, agent-heap wallet balance, asked in the same *)
(* shell, looks at another address than the cycle signs with just when the *)
(* shell exports a key and a keystore with a different one opens (it takes *)
(* the two in the other order; wallet.go:200-220 against runner.go:45-71   *)
(* and 99-107).                                                            *)
SignerIsShown ==
  \A p \in Proc : proc[p].kind # "loop" /\ proc[p].pc \notin {"off", "ready"} =>
    LET env   == proc[p].env
        ks    == proc[p].ks
        opens == Opens(env["KEYSTORE_PASSPHRASE"], ks)
        raw   == env["PRIVATE_KEY"]
    IN BalanceKey(env, ks) # proc[p].key <=> opens /\ raw # None /\ raw # ks.key
=============================================================================
