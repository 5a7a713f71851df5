------------------------------ MODULE Buyback ------------------------------
(***************************************************************************)
(* The two buyback paths: BuybackEngine of src/heap_token/buyback.py with  *)
(* the node src/agent/nodes/buyback_node.py that drives it cycle after     *)
(* cycle, and the stateless node src/agent/nodes/buyback.py, which is the  *)
(* one the graph is built with.                                            *)
(*                                                                         *)
(* Money is counted in units of the fourth decimal, to which the stateless *)
(* node rounds.  The engine does not round: its \div drops what is finer   *)
(* than a unit, from the event and from the deduction alike.               *)
(***************************************************************************)
EXTENDS Integers, Sequences, SequencesExt

CONSTANTS
  CycleProfit,   \* what the engine's node takes a cycle to have earned
  Profits,       \* profits another caller of the engine may record
  PnLs,          \* tx_result["pnl"] as the stateless node finds it
  MinProfit,     \* min_profit_usd
  Share,         \* 1 / allocation_pct
  MayRestart,    \* the process may end and another take over
  MaxProfit      \* bound on the profit recorded with one engine

ASSUME BuybackAssumption ==
  /\ CycleProfit \in Nat /\ Profits \subseteq Nat /\ PnLs \subseteq Int
  /\ MinProfit \in Nat /\ Share \in Nat \ {0} /\ MaxProfit \in Nat
  /\ MayRestart \in BOOLEAN

VARIABLES
  simulated,  \* the engine's flag
  accrued,    \* accrued_profit
  history,    \* amount_usd of every buyback event
  action,     \* what the engine's last call answered
  profit,     \* observer: profit recorded with this engine
  others,     \* observer: the part of it its node did not record
  swept,      \* observer: profit taken out by reset
  allocated   \* "amount" of the stateless node's last result, 0 if it has none

engine == <<accrued, history, action, profit, others, swept>>
vars   == <<simulated, engine, allocated>>

Bought == FoldSeq(+, 0, history)

(* "due" is record_profit's BUYBACK, "buyback" that of execute().          *)
Answers == {"none", "due", "hold", "buyback", "raised"}

(* A buyback set aside is never negative, whatever was lost.               *)
TypeOK ==
  /\ simulated \in BOOLEAN
  /\ accrued \in 0..MaxProfit
  /\ history \in Seq(0..MaxProfit)
  /\ action \in Answers
  /\ profit \in 0..MaxProfit /\ others \in 0..MaxProfit
  /\ swept \in 0..MaxProfit
  /\ allocated \in Nat

Init ==
  /\ simulated \in BOOLEAN
  /\ accrued = 0 /\ history = <<>> /\ action = "none"
  /\ profit = 0 /\ others = 0 /\ swept = 0
  /\ allocated = 0

-----------------------------------------------------------------------------
(* BuybackEngine                                                           *)

Record(p) ==                             \* accrued_profit += profit_usd
  /\ profit + p <= MaxProfit
  /\ profit' = profit + p

TriggersAbove(a) == a > MinProfit                \* a mutant

(* The comparison of record_profit, and the one of execute().              *)
Triggers(a) == a >= MinProfit
TooSmall(a) == a < MinProfit

NeverDeducts(a) ==                               \* a mutant
  history' = Append(history, a \div Share) /\ accrued' = a

(* The event, and the allocation taken from the accrued profit: what is    *)
(* left counts towards the next buyback.                                   *)
Buy(a) ==
  /\ history' = Append(history, a \div Share)
  /\ accrued' = a - a \div Share

DeductBeforeSwap(a) ==                           \* a mutant
  IF TooSmall(a) THEN accrued' = a /\ UNCHANGED history /\ action' = "hold"
  ELSE IF simulated THEN Buy(a) /\ action' = "buyback"
       ELSE accrued' = a - a \div Share /\ UNCHANGED history /\ action' = "raised"

(* execute() with a accrued: the live swap is not implemented and raises   *)
(* before anything is changed.                                             *)
Settle(a) ==
  IF TooSmall(a) THEN accrued' = a /\ UNCHANGED history /\ action' = "hold"
  ELSE IF simulated THEN Buy(a) /\ action' = "buyback"
       ELSE accrued' = a /\ UNCHANGED history /\ action' = "raised"

RecordProfit(p) ==
  /\ Record(p)
  /\ accrued' = accrued + p
  /\ action' = IF Triggers(accrued') THEN "due" ELSE "hold"
  /\ others' = others + p
  /\ UNCHANGED <<simulated, history, swept, allocated>>

Execute ==
  /\ Settle(accrued)
  /\ UNCHANGED <<simulated, profit, others, swept, allocated>>

Reset ==
  /\ accrued' = 0
  /\ swept' = swept + accrued
  /\ action' = "none"
  /\ UNCHANGED <<simulated, history, profit, others, allocated>>

(* run_buyback of buyback_node.py for a cycle with a tx_result, whatever   *)
(* became of the transaction: record_profit, then execute() when told so.  *)
RunEngineNode ==
  LET a == accrued + CycleProfit
  IN /\ simulated                        \* the node's engine always is
     /\ Record(CycleProfit)
     /\ IF Triggers(a) THEN Settle(a)
        ELSE accrued' = a /\ UNCHANGED history /\ action' = "hold"
     /\ UNCHANGED <<simulated, others, swept, allocated>>

(* A new process starts with a new engine, always a simulating one; the    *)
(* profit the old one had accrued is gone.                                 *)
Restart ==
  /\ MayRestart
  /\ simulated' = TRUE
  /\ accrued' = 0 /\ history' = <<>> /\ action' = "none"
  /\ profit' = 0 /\ others' = 0 /\ swept' = 0
  /\ UNCHANGED allocated

-----------------------------------------------------------------------------
(* run_buyback of buyback.py with a tx_result: calculate_buyback of the    *)
(* pnl of this transaction alone.                                          *)

(* round(n / d), either way when n lies half-way: the amount is a float.   *)
Nearest(n, d) ==
  {r \in {n \div d, n \div d + 1} : 2 * (n - r * d) \in (-d)..d}

AnyChange(pnl) == pnl # 0                        \* a mutant

Profitable(pnl) == pnl > 0

RunStatelessNode(pnl) ==
  /\ IF Profitable(pnl) THEN allocated' \in Nearest(pnl, Share)
                        ELSE allocated' = 0
  /\ UNCHANGED <<simulated, engine>>

Next ==
  \/ \E p \in Profits : RecordProfit(p)
  \/ Execute \/ Reset \/ RunEngineNode \/ Restart
  \/ \E pnl \in PnLs : RunStatelessNode(pnl)

Spec == Init /\ [][Next]_vars

-----------------------------------------------------------------------------
(* Every unit of profit recorded with an engine is still accrued, was      *)
(* spent on a buyback of its history or was swept out by a reset; an       *)
(* execute that raised half-way has lost none (buyback.py:78-113).         *)
NothingLost == profit = accrued + Bought + swept

(* The two comparisons agree on the threshold itself: after record_profit  *)
(* answered BUYBACK the next call of execute() does not hold, after it     *)
(* answered HOLD it does not buy, and the node never reports a hold with   *)
(* enough accrued (buyback.py:74, :80; buyback_node.py:32-42).             *)
AnswerCarriedOut ==
  [][/\ Execute /\ action = "due" => action' \in {"buyback", "raised"}
     /\ Execute /\ action = "hold" => action' = "hold"
     /\ RunEngineNode /\ action' = "hold" => accrued' < MinProfit]_vars

(* What is not spent counts again (buyback.py:104), so an engine driven by *)
(* its node holds back no more than the threshold or Share - 1 cycles'     *)
(* profit, besides what others recorded: in the long run all of the profit *)
(* goes into buybacks, and not the share the settings name.                *)
Reserve ==
  IF MinProfit > (Share - 1) * CycleProfit THEN MinProfit
  ELSE (Share - 1) * CycleProfit

ReserveBounded == accrued <= Reserve + others
=============================================================================
