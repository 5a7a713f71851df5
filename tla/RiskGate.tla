------------------------------ MODULE RiskGate ------------------------------
(***************************************************************************)
(* The risk gate: CircuitBreaker of src/risk/circuit_breaker.py, and       *)
(* check_risks and record_pnl of src/agent/nodes/risk_check.py with the    *)
(* helpers of src/risk/.                                                   *)
(*                                                                         *)
(* At this commit the pipeline has no node that calls check_risks          *)
(* (src/agent/graph.py:45-70), and run_agent records a PnL of 0 for every  *)
(* pass, in a breaker of its own that nobody asks (lines 37, 132-137).  So *)
(* the calls come here in any order, from whoever makes them, as in        *)
(* src/tests/test_agent.py.                                                *)
(*                                                                         *)
(* The breaker lives in the memory of its process.  Time is in steps of    *)
(* the clock, PnL and limit in the same whole units.                       *)
(***************************************************************************)
EXTENDS Integers, Sequences, SequencesExt, Filters

CONSTANTS
  PnLs,        \* what a trade may gain or lose
  Limit,       \* max_daily_drawdown
  Window,      \* 24 hours, in steps of the clock
  Capitals,    \* capital a check may see, in units of 50
  TVLs,        \* TVL figures a check may see
  MayRestart,  \* the process may end and another take over
  MaxTime,     \* bound on the clock
  MaxTrades    \* bound on the number of trades

ASSUME RiskAssumption ==
  /\ PnLs \subseteq Int
  /\ {Limit, MaxTime, MaxTrades} \subseteq Nat /\ Window \in Nat \ {0}
  /\ Capitals \subseteq Nat /\ TVLs \subseteq Nat
  /\ MayRestart \in BOOLEAN

Trades == [at: 0..MaxTime, pnl: Int]

VARIABLES
  now,           \* datetime.now
  daily_trades,  \* what the breaker keeps
  sized_amount,  \* sized_amount of the last check, 0 when it was not ok
  log,           \* observer: every trade since the last reset and its PnL
  earlier        \* observer: how many of them an earlier process made

gateVars == <<now, daily_trades, sized_amount, log, earlier>>

GateTypeOK ==
  /\ now \in 0..MaxTime
  /\ daily_trades \in Seq(Trades)
  /\ sized_amount \in Capitals \cup {0}
  /\ log \in Seq(Trades)
  /\ earlier \in 0..Len(log)

GateInit ==
  /\ now = 0 /\ daily_trades = <<>> /\ log = <<>>
  /\ sized_amount = 0 /\ earlier = 0

-----------------------------------------------------------------------------
(* CircuitBreaker                                                          *)

Total(ts) == FoldFunction(+, 0, [i \in DOMAIN ts |-> ts[i].pnl])

Recent(ts) == Filtered(ts, { t \in Trades : t.at > now - Window })

NothingPruned(pnl) ==                          \* a mutant
  Append(daily_trades, [at |-> now, pnl |-> pnl])

TimesShifted(pnl) ==   \* a mutant: the times read as UTC are not, by one step
  Append(Filtered(daily_trades, { t \in Trades : t.at > now + 1 - Window }),
         [at |-> now, pnl |-> pnl])

Recorded(pnl) == Append(Recent(daily_trades), [at |-> now, pnl |-> pnl])

IsTripped == Total(daily_trades) < -Limit

Reset ==
  /\ daily_trades # <<>>
  /\ daily_trades' = <<>> /\ log' = <<>> /\ earlier' = 0
  /\ UNCHANGED <<now, sized_amount>>

-----------------------------------------------------------------------------
(* check_risks and record_pnl.  capital counts in units of 50: its 2%      *)
(* fraction is a whole number.                                             *)

FourPercent(capital) == 2 * capital            \* a mutant: twice the fraction

FixedFraction(capital) == capital

Acceptable(liquidity, amount) ==       \* 100 bps; no liquidity, no trade
  liquidity > 0 /\ amount * 10000 <= 100 * liquidity

CheckRisks(capital, tvl) ==                        \* sized_amount iff risk_ok
  /\ sized_amount' =
       IF ~IsTripped /\ Acceptable(tvl, FixedFraction(capital))
       THEN FixedFraction(capital) ELSE 0
  /\ UNCHANGED <<now, daily_trades, log, earlier>>

RecordPnl(pnl) ==
  /\ Len(log) < MaxTrades
  /\ daily_trades' = Recorded(pnl)
  /\ log' = Append(log, [at |-> now, pnl |-> pnl])
  /\ UNCHANGED <<now, sized_amount, earlier>>

Tick ==
  /\ now < MaxTime
  /\ now' = now + 1
  /\ UNCHANGED <<daily_trades, sized_amount, log, earlier>>

Restart ==
  /\ MayRestart
  /\ daily_trades' = <<>> /\ sized_amount' = 0
  /\ earlier' = Len(log)
  /\ UNCHANGED <<now, log>>

GateNext ==
  \/ \E capital \in Capitals, tvl \in TVLs : CheckRisks(capital, tvl)
  \/ \E pnl \in PnLs : RecordPnl(pnl)
  \/ Reset \/ Tick \/ Restart

GateSpec == GateInit /\ [][GateNext]_gateVars

-----------------------------------------------------------------------------
DailyPnL == Total(Recent(log))

(* In the process that made all the trades the breaker's answer right      *)
(* after a trade is the right one: it is tripped just when the PnL of the  *)
(* last 24 hours is below the limit (circuit_breaker.py:19-21).            *)
ExactAfterTrade ==
  earlier = 0 /\ log # <<>> /\ Last(log).at = now
    => (IsTripped <=> DailyPnL < -Limit)

(* Trades older than a day stay in the sum until the next one is recorded. *)
(* That is the only thing the breaker errs by: when it is not tripped with *)
(* the PnL of the last 24 hours below the limit, an old gain hides the     *)
(* loss, and when it is tripped without that, an old loss is held against  *)
(* it (circuit_breaker.py:10-21).                                          *)
Old(t) == t.at <= now - Window

ErrsByOldTrades ==
  earlier = 0 =>
    /\ ~IsTripped /\ DailyPnL < -Limit
         => \E t \in Range(daily_trades) : Old(t) /\ t.pnl > 0
    /\ IsTripped /\ DailyPnL >= -Limit
         => \E t \in Range(daily_trades) : Old(t) /\ t.pnl < 0
=============================================================================
