------------------------------ MODULE Decision ------------------------------
(***************************************************************************)
(* How a cycle comes to its deposit signal: collect_yields, analyze and    *)
(* generate_signal of src/agent/nodes, with the Kelly sizing of            *)
(* src/risk/position_sizing.py, and the decisions the vector memory gives  *)
(* back to the collector of a later cycle.                                 *)
(*                                                                         *)
(* A pool is [protocol, pool, apy, chain].  Fractions are pairs            *)
(* <<numerator, denominator>> with a positive denominator, and exact where *)
(* the code has floats.                                                    *)
(***************************************************************************)
EXTENDS Integers, Sequences, SequencesExt, Filters

CONSTANTS
  Pools,         \* pools DeFiLlama may list
  MaxListed,     \* bound on the length of its list
  Targeted,      \* protocol names that start with one of TARGET_PROTOCOLS
  TargetChains,  \* TARGET_CHAINS
  PromptSize,    \* yields[:20], the pools the prompt shows
  Capital,       \* _get_capital
  None           \* Python's None

ASSUME DecisionAssumption ==
  /\ \A p \in Pools : p.apy \in Nat
  /\ None \notin Pools
  /\ MaxListed \in Nat /\ PromptSize \in Nat \ {0} /\ Capital \in Nat \ {0}

VARIABLES
  stage,     \* the node that comes next
  listed,    \* observer: what DeFiLlama listed in this cycle
  yields, analysis, signal,  \* the keys of the graph's state
  choice,    \* observer: the pool the model decided for, or None
  heard,     \* observer: the name its answer parsed to is a symbol
  recalled,  \* observer: what the memory gave this cycle
  memory     \* protocols of the stored decisions with action "deposit",
             \* whatever became of the deposit, and None for one without action

input == <<listed, recalled>>
answer == <<choice, heard>>
vars  == <<stage, input, yields, analysis, signal, answer, memory>>

Protocols == { p.protocol : p \in Pools }
Feeds == UNION { [1..n -> Pools] : n \in 0..MaxListed }

TypeOK ==
  /\ stage \in {"collector", "analyzer", "signaler", "store"}
  /\ listed \in Feeds
  /\ yields \in Feeds
  /\ analysis \in Pools \cup {None}
  /\ choice \in Pools \cup {None} /\ heard \in BOOLEAN
  /\ signal = None \/ signal \in [protocol: Protocols, pool: { p.pool : p \in Pools },
                                  amount: Nat \X (Nat \ {0})]
  /\ memory \subseteq Protocols \cup {None}
  /\ recalled \subseteq memory

Init ==
  /\ stage = "collector"
  /\ listed = <<>> /\ yields = <<>>
  /\ analysis = None /\ signal = None /\ choice = None /\ heard = FALSE
  /\ recalled = {} /\ memory = {}

-----------------------------------------------------------------------------
(* Collector: the pools of the targeted protocols and chains.  When the    *)
(* memory gave anything, those of a protocol with a deposit come first,    *)
(* then the higher APY, ties in the listed order.                          *)

Collected(feed) ==
  Filtered(feed, { p \in Pools : p.protocol \in Targeted /\ p.chain \in TargetChains })

ByYieldOnly(first, p, q) == p.apy > q.apy                 \* a mutant

Before(first, p, q) ==
  \/ p.protocol \in first /\ q.protocol \notin first
  \/ (p.protocol \in first <=> q.protocol \in first) /\ p.apy > q.apy

Insert(first, sorted, p) ==
  LET ahead == Filtered(sorted, { q \in Pools : ~Before(first, p, q) })
      behind == Filtered(sorted, { q \in Pools : Before(first, p, q) })
  IN  ahead \o <<p>> \o behind

Sorted(first, ps) ==
  LET sorted[n \in 0..Len(ps)] ==
        IF n = 0 THEN <<>> ELSE Insert(first, sorted[n - 1], ps[n])
  IN  IF first = {} THEN ps ELSE sorted[Len(ps)]

(* The graph is invoked with an empty state for every cycle.               *)
EndCycle ==
  /\ stage' = "collector"
  /\ listed' = <<>> /\ recalled' = {} /\ yields' = <<>>
  /\ analysis' = None /\ signal' = None /\ choice' = None /\ heard' = FALSE

(* query_similar returns up to k of the stored decisions, or none at all   *)
(* when it fails; a failing feed is an empty one.                          *)
Collect(feed, past) ==
  /\ stage = "collector"
  /\ listed' = feed /\ recalled' = past
  /\ yields' = Sorted(past, Collected(feed))
  /\ stage' = "analyzer"
  /\ UNCHANGED <<analysis, signal, answer, memory>>

-----------------------------------------------------------------------------
(* Analyzer.                                                               *)

FirstListed(ps) == ps[1]                                     \* a mutant

FirstBest(ps) ==                              \* max(yields, key=apy)
  ps[CHOOSE i \in 1..Len(ps) :
       /\ \A j \in 1..Len(ps) : ps[j].apy <= ps[i].apy
       /\ \A j \in 1..(i - 1) : ps[j].apy < ps[i].apy]

LastMatched(p, ps) ==                                        \* a mutant
  Last(Filtered(ps, { q \in Pools : q.pool = p.pool }))

(* A symbol stands for the first collected pool that has it, whatever its  *)
(* protocol.                                                               *)
Matched(p, ps) == Filtered(ps, { q \in Pools : q.pool = p.pool })[1]

(* The model decides for a pool the prompt shows.  Its name is found when   *)
(* the POOL line holds the symbol and nothing else; in the form the prompt *)
(* asks for, POOL: <symbol> REASON: <reason> on one line, it is the whole  *)
(* rest of the line, is no symbol, and the best pool is taken instead.     *)
Analyze(p) ==
  /\ stage = "analyzer"
  /\ \E i \in 1..Len(yields) : i <= PromptSize /\ yields[i] = p
  /\ choice' = p
  /\ \/ heard' = TRUE /\ analysis' = Matched(p, yields)
     \/ heard' = FALSE /\ analysis' = FirstBest(yields)
  /\ stage' = "signaler"
  /\ UNCHANGED <<input, yields, signal, memory>>

AnalyzeFallback ==             \* no model, a call that raises, or no answer
  /\ stage = "analyzer" /\ yields # <<>>
  /\ analysis' = FirstBest(yields)
  /\ stage' = "signaler"
  /\ UNCHANGED <<input, yields, signal, answer, memory>>

NothingToAnalyze ==            \* no analysis, no signal, no tx_result
  /\ stage = "analyzer" /\ yields = <<>>
  /\ EndCycle /\ UNCHANGED memory

-----------------------------------------------------------------------------
(* Signaler.                                                               *)

AtMost(f, g) == f[1] * g[2] <= g[1] * f[2]

Clip(f) ==                                    \* min(0.99, max(0.01, f))
  IF AtMost(f, <<1, 100>>) THEN <<1, 100>>
  ELSE IF AtMost(<<99, 100>>, f) THEN <<99, 100>> ELSE f

(* (w * r - (1 - w)) / r, or 0 when that is negative; r is not 0.          *)
KellyOfOdds(w, r) ==                          \* a mutant: the ratio upside down
  LET edge == w[1] * r[2] - (w[2] - w[1]) * r[1]
  IN  IF edge <= 0 THEN <<0, 1>> ELSE <<edge, w[2] * r[2]>>

KellyUnclamped(w, r) ==                       \* a mutant: no max(0, ...)
  <<w[1] * r[1] - (w[2] - w[1]) * r[2], w[2] * r[1]>>

KellyFraction(w, r) ==
  LET edge == w[1] * r[1] - (w[2] - w[1]) * r[2]
  IN  IF edge <= 0 THEN <<0, 1>> ELSE <<edge, w[2] * r[1]>>

SumAPY(ps) == FoldFunction(+, 0, [i \in DOMAIN ps |-> ps[i].apy])

KellyAmount(apy, ps) ==                       \* the average is sum / n
  LET n == Len(ps)
      sum == SumAPY(ps)
      f == KellyFraction(Clip(<<n * apy, n * apy + sum>>), <<n * apy, sum>>)
  IN  IF sum = 0 THEN <<Capital, 50>> ELSE <<Capital * f[1], f[2]>>

(* win_ratio is 0 for a pool without yield among pools with one, and       *)
(* kelly_fraction divides by it: the node raises and the cycle is over.    *)
DividesByZero == analysis.apy = 0 /\ SumAPY(yields) > 0

GenerateSignal ==
  /\ stage = "signaler" /\ ~DividesByZero
  /\ signal' = [protocol |-> analysis.protocol, pool |-> analysis.pool,
                amount |-> KellyAmount(analysis.apy, yields)]
  /\ stage' = "store"
  /\ UNCHANGED <<input, yields, analysis, answer, memory>>

SignalRaises ==
  /\ stage = "signaler" /\ DividesByZero
  /\ EndCycle /\ UNCHANGED memory

(* Whatever became of the deposit its decision is stored with the action   *)
(* of the signal; one blocked by the slippage gate has neither action nor  *)
(* protocol.  The store may fail.                                          *)
Store(blocked) ==
  /\ stage = "store"
  /\ \/ memory' = memory \cup {IF blocked THEN None ELSE signal.protocol}
     \/ UNCHANGED memory
  /\ EndCycle

Next ==
  \/ \E feed \in Feeds, past \in SUBSET memory : Collect(feed, past)
  \/ \E p \in Pools : Analyze(p)
  \/ AnalyzeFallback \/ NothingToAnalyze \/ GenerateSignal \/ SignalRaises
  \/ \E blocked \in BOOLEAN : Store(blocked)

Spec == Init /\ [][Next]_vars

-----------------------------------------------------------------------------
(* Unless the model's answer names a symbol no listed pool that may be     *)
(* used yields more than the chosen one, whatever the memory prefers       *)
(* (analyzer.py:76-93).                                                    *)
FallbackIsBest ==
  analysis # None /\ ~heard =>
    \A i \in 1..Len(listed) :
      listed[i].protocol \in Targeted /\ listed[i].chain \in TargetChains
      => listed[i].apy <= analysis.apy

(* ... while among pools of the same APY the memory does decide: a         *)
(* protocol with a stored deposit goes before one without, a deposit that  *)
(* failed, was simulated or was stopped at a limit counting like one that  *)
(* succeeded.  The comment of the code and FEATURES.md:125 speak of those  *)
(* that succeeded, but only the action is looked at (collector.py:17-25).  *)
AnyDepositBreaksTies ==
  analysis # None /\ ~heard =>
    \A i \in 1..Len(yields) :
      yields[i].apy = analysis.apy /\ yields[i].protocol \in recalled
      => analysis.protocol \in recalled

(* The deposit may go to another pool than the one the model decided for.  *)
(* A symbol it names is respected, but stands for the first pool that has  *)
(* it: that one yields less only where the memory prefers its protocol or, *)
(* having given nothing, has left the pools as they were listed, this one  *)
(* first.  An answer that names no symbol is replaced by one that yields   *)
(* no less (analyzer.py:66-81 on the order of collector.py:14-27).         *)
StandInIsNoWorse ==
  analysis # None /\ choice # None =>
    /\ heard => analysis.pool = choice.pool
    /\ analysis.apy < choice.apy =>
         /\ heard
         /\ IF recalled = {}
            THEN \E j \in 1..Len(listed) : \E i \in 1..j :
                   listed[i] = analysis /\ listed[j] = choice
            ELSE analysis.protocol \in recalled /\ choice.protocol \notin recalled

(* The size of a position is Kelly's: the capital times the share by which *)
(* the pool's APY exceeds the average, nothing for a pool at or below it,  *)
(* and 2% where nothing yields at all.  For a pool beyond 99 times the     *)
(* average, which takes a list of 100, the odds are clipped at 99 to 1     *)
(* (signal.py:23-39, position_sizing.py:4-8).                              *)
SizedByEdge ==
  signal # None =>
    LET gain == Len(yields) * analysis.apy
        sum == SumAPY(yields)
        a == signal.amount
    IN  IF sum = 0 THEN a[1] * 50 = Capital * a[2]
        ELSE IF gain <= sum THEN a[1] = 0
        ELSE IF gain <= 99 * sum THEN a[1] * gain = Capital * (gain - sum) * a[2]
        ELSE a[1] * 100 * gain = Capital * (99 * gain - sum) * a[2]
=============================================================================
