--------------------------- MODULE ExecutorProofs ---------------------------
(* The safety of Executor for every set of protocols and pools, every     *)
(* limit and every combination of faults.                                 *)
EXTENDS DailyVolume, Sums

(* What the code knows at each point of the cycle: a deposit is under way  *)
(* only for an amount that passed the limit check, and so is an approval   *)
(* left in the mempool.                                                    *)
AmountChecked == pc \in {"funds", "approve", "deposit"} => amt <= MaxTx

SignalPresent ==
  pc \in {"limits", "funds", "approve", "deposit", "record"} => sig \in Signals

WithdrawalPresent == pc = "untrack" => cur \in Withdrawals

PendingChecked ==
  pending # None /\ pending.kind = "approve" => pending.amount <= MaxTx

IInv ==
  /\ TypeOK
  /\ AmountChecked
  /\ SignalPresent
  /\ WithdrawalPresent
  /\ PendingChecked
  /\ DrawWithinLimit

-----------------------------------------------------------------------------
(* What a transaction's copies may move: a natural number within the limit *)
(* the chain sets (executor.py sends, the chain decides).                  *)
LEMMA MovesBounded ==
  ASSUME NEW n \in Nat, NEW a \in Nat, NEW limit \in Nat, NEW m \in Moves(n, a, limit)
  PROVE  m \in Nat /\ m <= limit
<1>1. PICK e \in 0..n : m = e * a /\ e * a <= limit
  BY DEF Moves
<1>2. e \in Nat
  BY <1>1
<1>3. e * a \in Nat
  BY <1>2
<1> QED BY <1>1, <1>3

(* The smaller of two amounts is below both.                               *)
LEMMA LeastBounded ==
  ASSUME NEW a \in Nat, NEW b \in Nat
  PROVE  Least(a, b) \in Nat /\ Least(a, b) <= a /\ Least(a, b) <= b
BY DEF Least

(* The fields of an answer of _send_transaction_with_retry.                *)
LEMMA OutcomeFields ==
  ASSUME NEW o \in Outcomes
  PROVE  o.receipt \in BOOLEAN /\ o.mined \in Nat /\ o.late \in BOOLEAN
BY ExecutorAssumption DEF Outcomes

(* The two ledger operations keep a ledger a ledger (harvester.py:72-101). *)
LEMMA LedgerOps ==
  ASSUME NEW l \in [Key -> Nat], NEW k \in Key, NEW n \in Nat
  PROVE  Tracked(l, k, n) \in [Key -> Nat] /\ Untracked(l, k, n) \in [Key -> Nat]
BY DEF Tracked, Untracked

-----------------------------------------------------------------------------
(* The chain's share of the invariant, and what each kind of transaction   *)
(* makes of it.                                                            *)
ChainInv ==
  /\ wallet \in Nat
  /\ supplied \in [Protocol -> Nat]
  /\ allowance \in [Protocol -> Nat]
  /\ drawn \in [Protocol -> Nat]
  /\ spent \in Nat
  /\ interest \in [Protocol -> Nat]
  /\ DrawWithinLimit

(* A deposit moves from the allowance to the sum drawn under it.           *)
LEMMA SupplyKeeps ==
  ASSUME ChainInv, NEW p \in Protocol, NEW n \in Nat, NEW a \in Nat,
         NEW m \in DepositMoves(n, p, a), Supply(p, m)
  PROVE  ChainInv'
<1>1. m \in Nat /\ m <= wallet /\ m <= allowance[p]
  <2>1. /\ Least(wallet, allowance[p]) \in Nat
        /\ Least(wallet, allowance[p]) <= wallet
        /\ Least(wallet, allowance[p]) <= allowance[p]
    BY LeastBounded DEF ChainInv
  <2>2. m \in Nat /\ m <= Least(wallet, allowance[p])
    BY <2>1, MovesBounded DEF DepositMoves
  <2> QED BY <2>1, <2>2 DEF ChainInv
<1> QED BY <1>1, ExecutorAssumption
        DEF ChainInv, Supply, DrawWithinLimit

(* A withdrawal takes no more than the protocol holds.                     *)
LEMMA RedeemKeeps ==
  ASSUME ChainInv, NEW p \in Protocol, NEW n \in Nat, NEW a \in Nat,
         NEW yield \in Nat, NEW m \in WithdrawMoves(n, p, a), Redeem(p, m, yield)
  PROVE  ChainInv' /\ m \in Nat
<1>1. m \in Nat /\ m <= supplied[p]
  BY MovesBounded DEF WithdrawMoves, ChainInv
<1>2. interest[p] - Least(interest[p], yield) \in Nat
  <2>1. interest[p] \in Nat
    BY DEF ChainInv
  <2> QED BY <2>1 DEF Least
<1> QED BY <1>1, <1>2 DEF ChainInv, Redeem, DrawWithinLimit

(* An approval starts a new account of what was drawn.                     *)
LEMMA AllowKeeps ==
  ASSUME ChainInv, NEW p \in Protocol, NEW a \in Nat, a <= MaxTx, Allow(p, a)
  PROVE  ChainInv'
BY DEF ChainInv, Allow, DrawWithinLimit

(* A step that leaves the chain alone keeps its share.                     *)
LEMMA ChainUnchanged ==
  ASSUME ChainInv, UNCHANGED <<wallet, supplied, allowance, drawn, spent, interest>>
  PROVE  ChainInv'
BY DEF ChainInv, DrawWithinLimit

(* The chain's share is part of the invariant.                             *)
LEMMA ChainPart == IInv => ChainInv
BY DEF IInv, TypeOK, ChainInv

(* What the process and its files contribute.                              *)
ProcessInv ==
  /\ ledger \in [Key -> Nat]
  /\ pending \in Txs \cup {None}
  /\ trades \in Seq(Nat)
  /\ key \in BOOLEAN
  /\ pc \in {"idle", "withdraw", "untrack", "limits", "funds", "approve",
             "deposit", "record"}
  /\ todo \subseteq Withdrawals
  /\ cur \in Withdrawals \cup {None}
  /\ total \in Nat
  /\ sig \in Signals \cup {None}
  /\ amt \in Nat
  /\ back \in Nat
  /\ cycles \in Nat
  /\ AmountChecked
  /\ SignalPresent
  /\ WithdrawalPresent
  /\ PendingChecked

(* The invariant is the share of the chain and that of the process.        *)
LEMMA Parts == IInv <=> ChainInv /\ ProcessInv
BY DEF IInv, TypeOK, ChainInv, ProcessInv

(* The transaction an outcome leaves in the mempool is one that was sent.  *)
LEMMA LeftoverKeeps ==
  ASSUME ProcessInv, NEW o \in Outcomes, NEW p \in Protocol, NEW a \in Nat,
         NEW kind \in {"approve", "deposit", "withdraw"},
         kind = "approve" => a <= MaxTx,
         Leftover(o, kind, p, a)
  PROVE  pending' \in Txs \cup {None} /\ PendingChecked'
BY DEF ProcessInv, PendingChecked, Leftover, Txs

-----------------------------------------------------------------------------
(* The initial states.                                                     *)
THEOREM InitEstablishes == Init => IInv
BY ExecutorAssumption
   DEF Init, IInv, TypeOK, AmountChecked, SignalPresent, WithdrawalPresent,
       PendingChecked, DrawWithinLimit, EmptyLedger

(* Planning a cycle.                                                       *)
LEMMA StartCycleKeeps ==
  ASSUME IInv, NEW est \in Estimates, NEW s \in Signals \cup {None},
         StartCycle(est, s)
  PROVE  IInv'
<1>1. todo' \subseteq Withdrawals
  <2>1. \A k \in Key : [protocol |-> k[1], pool |-> k[2], deposited |-> ledger[k],
                        accrued |-> est[k]] \in Withdrawals
    BY ExecutorAssumption DEF Estimates, Withdrawals, Key, IInv, TypeOK
  <2> QED BY <2>1 DEF StartCycle
<1>2. ProcessInv'
  BY <1>1 DEF StartCycle, books, chain, IInv, TypeOK, ProcessInv, AmountChecked,
       SignalPresent, WithdrawalPresent, PendingChecked
<1>3. ChainInv'
  BY ChainPart, ChainUnchanged DEF StartCycle, chain
<1> QED BY <1>2, <1>3, Parts DEF ProcessInv, ChainInv, IInv, TypeOK,
       AmountChecked, SignalPresent, WithdrawalPresent, PendingChecked,
       DrawWithinLimit

(* The withdrawals: whatever the chain answers, the process keeps a record *)
(* of at most the withdrawal it has to track.                              *)
LEMMA WithdrawKeeps ==
  ASSUME IInv, NEW w \in todo, Withdraw(w)
  PROVE  ChainInv' /\ ProcessInv'
<1>1. /\ w \in Withdrawals
      /\ w.protocol \in Protocol /\ w.pool \in Pool
      /\ <<w.protocol, w.pool>> \in Key
      /\ w.deposited \in Nat /\ w.accrued \in Nat /\ Worth(w) \in Nat
  BY DEF IInv, TypeOK, Withdrawals, Worth, Key
<1>2. ChainInv /\ ProcessInv
  BY Parts
<1>3. todo \ {w} \subseteq Withdrawals /\ total + Worth(w) \in Nat
  BY <1>1 DEF IInv, TypeOK
<1>4. CASE SkipWithdrawal(w)
  BY <1>2, <1>3, <1>4, ChainUnchanged
     DEF SkipWithdrawal, Withdraw, chain, books, ProcessInv, AmountChecked,
         SignalPresent, WithdrawalPresent, PendingChecked
<1>5. CASE WithdrawSimulated(w)
  <2>1. ledger' \in [Key -> Nat]
    BY <1>1, <1>2, <1>5, LedgerOps DEF WithdrawSimulated, ProcessInv
  <2> QED BY <1>2, <1>3, <1>5, <2>1, ChainUnchanged
     DEF WithdrawSimulated, Withdraw, chain, ProcessInv, AmountChecked,
         SignalPresent, WithdrawalPresent, PendingChecked
<1>6. CASE WithdrawUnsupported(w)
  BY <1>2, <1>3, <1>6, ChainUnchanged
     DEF WithdrawUnsupported, Withdraw, chain, books, ProcessInv, AmountChecked,
         SignalPresent, WithdrawalPresent, PendingChecked
<1>7. CASE \E o \in Outcomes : WithdrawReal(w, o)
  <2>1. PICK o \in Outcomes : WithdrawReal(w, o)
    BY <1>7
  <2>2. PICK m \in WithdrawMoves(o.mined, w.protocol, Worth(w)) :
          Redeem(w.protocol, m, w.accrued) /\ back' = back + m
    BY <2>1 DEF WithdrawReal
  <2>3. ChainInv' /\ m \in Nat
    BY <1>1, <1>2, <2>2, OutcomeFields, RedeemKeeps
  <2>4. pending' \in Txs \cup {None} /\ PendingChecked'
    BY <1>1, <1>2, <2>1, LeftoverKeeps DEF WithdrawReal
  <2>5. back' \in Nat
    BY <1>2, <2>2, <2>3 DEF ProcessInv
  <2>6. cur' \in Withdrawals \cup {None} /\ pc' \in {"withdraw", "untrack"}
        /\ WithdrawalPresent'
    BY <1>1, <1>2, <2>1 DEF WithdrawReal, Withdraw, ProcessInv, WithdrawalPresent
  <2> QED BY <1>2, <1>3, <2>1, <2>3, <2>4, <2>5, <2>6
     DEF WithdrawReal, books, ProcessInv, AmountChecked, SignalPresent
<1> QED BY <1>4, <1>5, <1>6, <1>7 DEF Withdraw

(* track_withdrawal keeps the invariant (executor.py:173).                 *)
LEMMA TrackWithdrawalKeeps ==
  ASSUME IInv, TrackWithdrawal
  PROVE  ChainInv' /\ ProcessInv'
<1>1. ChainInv /\ ProcessInv
  BY Parts
<1>2. ledger' \in [Key -> Nat]
  <2>1. cur \in Withdrawals
    BY <1>1 DEF TrackWithdrawal, ProcessInv, WithdrawalPresent
  <2>2. <<cur.protocol, cur.pool>> \in Key /\ Worth(cur) \in Nat
    BY <2>1 DEF Withdrawals, Key, Worth
  <2> QED BY <1>1, <2>2, LedgerOps DEF TrackWithdrawal, ProcessInv
<1> QED BY <1>1, <1>2, ChainUnchanged
     DEF TrackWithdrawal, chain, ProcessInv, AmountChecked, SignalPresent,
         WithdrawalPresent, PendingChecked

(* Recording the simulated deposit, from each of its callers.              *)
LEMMA SimulateKeeps ==
  ASSUME IInv, sig \in Signals, Simulate
  PROVE  ChainInv' /\ ProcessInv'
<1>1. ChainInv /\ ProcessInv
  BY Parts
<1>2. <<sig.protocol, sig.pool>> \in Key /\ sig.amount \in Nat
  BY ExecutorAssumption DEF Signals, Key
<1>3. ledger' \in [Key -> Nat]
  BY <1>1, <1>2, LedgerOps DEF Simulate, ProcessInv
<1> QED BY <1>1, <1>2, <1>3, ChainUnchanged
     DEF Simulate, chain, ProcessInv, AmountChecked, SignalPresent,
         WithdrawalPresent, PendingChecked

(* track_deposit, with the amount still unchecked (executor.py:490-495).   *)
LEMMA TrackDepositKeeps ==
  ASSUME IInv, TrackDeposit
  PROVE  ChainInv' /\ ProcessInv'
<1>1. ChainInv /\ ProcessInv
  BY Parts
<1>2. sig \in Signals
  BY <1>1 DEF TrackDeposit, GatesPassed, ProcessInv
<1>3. <<sig.protocol, sig.pool>> \in Key /\ sig.amount \in Nat
  BY <1>2, ExecutorAssumption DEF Signals, Key
<1>4. amt' \in Nat
  BY <1>1, <1>3 DEF TrackDeposit, ProcessInv
<1>5. ledger' \in [Key -> Nat]
  BY <1>1, <1>3, <1>4, LedgerOps DEF TrackDeposit, ProcessInv
<1> QED BY <1>1, <1>2, <1>4, <1>5, ChainUnchanged
     DEF TrackDeposit, chain, ProcessInv, AmountChecked, SignalPresent,
         WithdrawalPresent, PendingChecked

(* The checks and early returns, none of which touches the chain.          *)
LEMMA GatesKeep ==
  ASSUME IInv,
         \/ NoSignal \/ SlippageBlocked \/ LimitBlocked \/ CapBlocked
         \/ LimitsPassed \/ NoGas \/ CallFails \/ FundsPassed \/ SaveTrade
  PROVE  ChainInv' /\ ProcessInv'
<1>1. ChainInv /\ ProcessInv
  BY Parts
<1>2. UNCHANGED chain
  BY DEF NoSignal, SlippageBlocked, LimitBlocked, CapBlocked, LimitsPassed,
         NoGas, CallFails, FundsPassed, SaveTrade
<1>3. ChainInv'
  BY <1>1, <1>2, ChainUnchanged DEF chain
<1>4. CASE NoSignal \/ SlippageBlocked \/ LimitBlocked \/ CapBlocked \/ NoGas
  <2>1. /\ UNCHANGED <<chain, books, local, key, cycles>>
        /\ pc' \in {"idle", "record"}
        /\ pc' = "record" => sig \in Signals
    BY <1>1, <1>2, <1>4
       DEF NoSignal, SlippageBlocked, LimitBlocked, CapBlocked, NoGas, Finish,
           ProcessInv, SignalPresent
  <2> QED BY <1>1, <1>3, <2>1
     DEF books, local, chain, ProcessInv, AmountChecked, SignalPresent,
         WithdrawalPresent, PendingChecked
<1>5. CASE LimitsPassed \/ FundsPassed
  BY <1>1, <1>2, <1>3, <1>5
     DEF LimitsPassed, FundsPassed, books, local, chain, ProcessInv,
         AmountChecked, SignalPresent, WithdrawalPresent, PendingChecked
<1>6. CASE CallFails
  <2>1. sig.amount \in Nat /\ sig \in Signals
    BY <1>1, <1>6, ExecutorAssumption
       DEF CallFails, ProcessInv, SignalPresent, Signals
  <2> QED BY <1>1, <1>2, <1>3, <1>6, <2>1
     DEF CallFails, Fail, books, chain, ProcessInv, AmountChecked,
         SignalPresent, WithdrawalPresent, PendingChecked
<1>7. CASE SaveTrade
  <2>1. trades' \in Seq(Nat)
    BY <1>1, <1>7, SMTT(60) DEF SaveTrade, ProcessInv
  <2> QED BY <1>1, <1>2, <1>3, <1>7, <2>1
     DEF SaveTrade, local, chain, ProcessInv, AmountChecked, SignalPresent,
         WithdrawalPresent, PendingChecked
<1> QED BY <1>4, <1>5, <1>6, <1>7

(* What the process keeps after a transaction, sent or failed.             *)
LEMMA AfterSend ==
  ASSUME ProcessInv, pc \in {"approve", "deposit"}, pc' \in {"deposit", "record"},
         pc' = "deposit" => pc = "approve" /\ amt' = amt,
         amt' \in {amt, sig.amount},
         UNCHANGED <<books, key, cycles, todo, cur, total, sig, back>>,
         pending' \in Txs \cup {None}, PendingChecked'
  PROVE  ProcessInv'
<1>1. sig \in Signals /\ sig.amount \in Nat
  BY ExecutorAssumption DEF ProcessInv, SignalPresent, Signals
<1> QED BY <1>1 DEF books, ProcessInv, AmountChecked, SignalPresent,
                    WithdrawalPresent

(* The approval of a checked amount (executor.py:564-567).                 *)
LEMMA ApproveKeeps ==
  ASSUME IInv, NEW o \in Outcomes, Approve(o)
  PROVE  ChainInv' /\ ProcessInv'
<1>1. ChainInv /\ ProcessInv
  BY Parts
<1>2. sig.protocol \in Protocol /\ amt \in Nat /\ amt <= MaxTx
  BY <1>1 DEF Approve, ProcessInv, SignalPresent, AmountChecked, Signals
<1>3. ChainInv'
  BY <1>1, <1>2, AllowKeeps, ChainUnchanged DEF Approve
<1>4. pending' \in Txs \cup {None} /\ PendingChecked'
  BY <1>1, <1>2, LeftoverKeeps DEF Approve
<1>5. ProcessInv'
  BY <1>1, <1>4, AfterSend DEF Approve, Fail, books, local
<1> QED BY <1>3, <1>5

(* The deposit call into a protocol the agent can build it for             *)
(* (executor.py:570-574).                                                  *)
LEMMA DepositKeeps ==
  ASSUME IInv, NEW o \in Outcomes, Deposit(o)
  PROVE  ChainInv' /\ ProcessInv'
<1>1. ChainInv /\ ProcessInv
  BY Parts
<1>2. sig.protocol \in Protocol /\ amt \in Nat
  BY <1>1, ExecutorAssumption DEF Deposit, ProcessInv
<1>3. PICK m \in DepositMoves(o.mined, sig.protocol, amt) : Supply(sig.protocol, m)
  BY DEF Deposit
<1>4. ChainInv'
  BY <1>1, <1>2, <1>3, OutcomeFields, SupplyKeeps
<1>5. pending' \in Txs \cup {None} /\ PendingChecked'
  BY <1>1, <1>2, LeftoverKeeps DEF Deposit
<1>6. ProcessInv'
  BY <1>1, <1>5, AfterSend DEF Deposit, Finish, Fail, books, local
<1> QED BY <1>4, <1>6

-----------------------------------------------------------------------------
(* The environment: late transactions were checked when they were sent.    *)
LEMMA MinedLateKeeps ==
  ASSUME IInv, MinedLate
  PROVE  ChainInv' /\ ProcessInv'
<1>1. ChainInv /\ ProcessInv
  BY Parts
<1>2. /\ pending \in Txs
      /\ pending.protocol \in Protocol /\ pending.amount \in Nat
      /\ pending.kind = "approve" => pending.amount <= MaxTx
  BY <1>1 DEF MinedLate, ProcessInv, PendingChecked, Txs
<1>3. ChainInv'
  <2>1. CASE pending.kind = "approve" /\ Allow(pending.protocol, pending.amount)
    BY <1>1, <1>2, <2>1, AllowKeeps
  <2>2. CASE /\ pending.kind = "deposit"
             /\ \E m \in DepositMoves(1, pending.protocol, pending.amount) :
                  Supply(pending.protocol, m)
    BY <1>1, <1>2, <2>2, SupplyKeeps
  <2>3. CASE /\ pending.kind = "withdraw"
             /\ \E m \in WithdrawMoves(1, pending.protocol, pending.amount) :
                  Redeem(pending.protocol, m, 0)
    BY <1>1, <1>2, <2>3, RedeemKeeps
  <2> QED BY <2>1, <2>2, <2>3 DEF MinedLate
<1>4. ProcessInv'
  BY <1>1 DEF MinedLate, books, local, ProcessInv, AmountChecked, SignalPresent,
              WithdrawalPresent, PendingChecked
<1> QED BY <1>3, <1>4

(* Crashes, late transactions, interest, midnight and new keys.            *)
LEMMA EnvironmentKeeps ==
  ASSUME IInv, Environment
  PROVE  ChainInv' /\ ProcessInv'
<1>1. ChainInv /\ ProcessInv
  BY Parts
<1>2. CASE Midnight
  BY <1>1, <1>2 DEF Midnight, local, ChainInv, DrawWithinLimit,
     ProcessInv, AmountChecked, SignalPresent, WithdrawalPresent, PendingChecked
<1>3. CASE \E p \in Protocol : PayInterest(p)
  <2>1. PICK p \in Protocol : PayInterest(p)
    BY <1>3
  <2>2. ChainInv'
    BY <1>1, <2>1 DEF PayInterest, ChainInv, DrawWithinLimit
  <2>3. ProcessInv'
    BY <1>1, <2>1 DEF PayInterest, books, local, ProcessInv, AmountChecked,
                      SignalPresent, WithdrawalPresent, PendingChecked
  <2> QED BY <2>2, <2>3
<1>4. CASE MinedLate
  BY <1>4, MinedLateKeeps
<1>5. CASE Dropped \/ Rekey \/ Stopped
  <2>1. ChainInv'
    BY <1>1, <1>5, ChainUnchanged DEF Dropped, Rekey, Stopped, vars, chain
  <2>2. ProcessInv'
    BY <1>1, <1>5 DEF Dropped, Rekey, Stopped, vars, chain, books, local,
       ProcessInv, AmountChecked, SignalPresent, WithdrawalPresent, PendingChecked
  <2> QED BY <2>1, <2>2
<1>6. CASE Crash
  <2>1. ChainInv'
    BY <1>1, <1>6, ChainUnchanged DEF Crash, chain
  <2>2. ledger' \in [Key -> Nat]
    BY <1>1, <1>6 DEF Crash, EmptyLedger, ProcessInv
  <2>3. ProcessInv'
    BY <1>1, <1>6, <2>2 DEF Crash, chain, ProcessInv, AmountChecked,
       SignalPresent, WithdrawalPresent, PendingChecked
  <2> QED BY <2>1, <2>3
<1> QED BY <1>2, <1>3, <1>4, <1>5, <1>6 DEF Environment

(* Every step of the agent.                                                *)
LEMMA AgentKeeps ==
  ASSUME IInv, Agent
  PROVE  ChainInv' /\ ProcessInv'
<1>1. CASE \E w \in todo : Withdraw(w)
  BY <1>1, WithdrawKeeps
<1>2. CASE TrackWithdrawal
  BY <1>2, TrackWithdrawalKeeps
<1>3. CASE NoSignal \/ SlippageBlocked \/ LimitBlocked \/ CapBlocked
           \/ LimitsPassed \/ NoGas \/ CallFails \/ FundsPassed \/ SaveTrade
  BY <1>3, GatesKeep
<1>4. CASE NoKey \/ UnknownProtocol \/ NoDepositHandler
  <2>1. sig \in Signals
    BY <1>4 DEF NoKey, GatesPassed, UnknownProtocol, NoDepositHandler, IInv,
                TypeOK, SignalPresent
  <2> QED BY <1>4, <2>1, SimulateKeeps DEF NoKey, UnknownProtocol, NoDepositHandler
<1>5. CASE TrackDeposit
  BY <1>5, TrackDepositKeeps
<1>6. CASE \E o \in Outcomes : Approve(o)
  BY <1>6, ApproveKeeps
<1>7. CASE \E o \in Outcomes : Deposit(o)
  BY <1>7, DepositKeeps
<1> QED BY <1>1, <1>2, <1>3, <1>4, <1>5, <1>6, <1>7 DEF Agent

(* Every step keeps the invariant.                                         *)
THEOREM NextKeeps == IInv /\ [Next]_vars => IInv'
<1> SUFFICES ASSUME IInv, [Next]_vars PROVE IInv'
  OBVIOUS
<1>1. CASE \E est \in Estimates, s \in Signals \cup {None} : StartCycle(est, s)
  BY <1>1, StartCycleKeeps
<1>2. CASE Agent \/ Environment
  <2>1. ChainInv' /\ ProcessInv'
    BY <1>2, AgentKeeps, EnvironmentKeeps
  <2> QED BY <2>1 DEF ProcessInv, ChainInv, IInv, TypeOK, AmountChecked,
       SignalPresent, WithdrawalPresent, PendingChecked, DrawWithinLimit
<1>3. CASE UNCHANGED vars
  BY <1>3 DEF vars, chain, books, local, IInv, TypeOK, AmountChecked,
       SignalPresent, WithdrawalPresent, PendingChecked, DrawWithinLimit
<1> QED BY <1>1, <1>2, <1>3 DEF Next

(* The inductive invariant holds in every reachable state.                 *)
THEOREM Invariance == Spec => []IInv
BY InitEstablishes, NextKeeps, PTL DEF Spec

(* Every variable keeps the shape the code gives it.                       *)
THEOREM TypeCorrect == Spec => []TypeOK
<1>1. IInv => TypeOK
  BY DEF IInv
<1> QED BY <1>1, Invariance, PTL

(* MAX_TX_AMOUNT bounds what one approval moves, for every limit and under *)
(* every combination of retries, lost answers, late transactions, crashes  *)
(* and restarts (executor.py:498-512, 560-573, 666-688).                   *)
THEOREM LimitHolds == Spec => []DrawWithinLimit
<1>1. IInv => DrawWithinLimit
  BY DEF IInv
<1> QED BY <1>1, Invariance, PTL

-----------------------------------------------------------------------------
(* The daily cap.  WatchedSpec is Spec with a history variable, so what is *)
(* proved of the one holds of the other.                                   *)
LEMMA WatchedKeeps == WatchedSpec => []IInv
<1>1. WatchedInit => Init
  BY DEF WatchedInit
<1>2. [WatchedNext]_<<vars, unbooked>> => [Next]_vars
  BY DEF WatchedNext
<1> QED BY <1>1, <1>2, InitEstablishes, NextKeeps, PTL DEF WatchedSpec

Depositing == pc \in {"funds", "approve", "deposit"}

SignalFits == sig.amount <= amt

InFlight == IF pc = "record" THEN amt ELSE 0    \* the row to be written

(* A day's deposits are told by the rows, by the one still to be written   *)
(* and by what escapes them; one that passed the cap fits with the rest.   *)
VolumeInv ==
  /\ unbooked \in Nat
  /\ pc = "limits" \/ Depositing => SignalFits
  /\ spent <= SumOf(trades) + unbooked + InFlight
  /\ Depositing => spent + amt <= DailyCap + unbooked
  /\ DailyVolumeWithinCap

(* get_recent_trades sees the whole day (executor.py:449).                 *)
RowsInWindow == Len(trades) <= TradeWindow

(* The values that count, and what the rows add up to.                     *)
LEMMA VolumeTypes ==
  ASSUME IInv
  PROVE  /\ spent \in Nat /\ amt \in Nat /\ DailyCap \in Nat
         /\ trades \in Seq(Int) /\ SumOf(trades) \in Nat
         /\ sig \in Signals => sig.amount \in Nat
<1>1. trades \in Seq(Nat) /\ spent \in Nat /\ amt \in Nat /\ DailyCap \in Nat
  BY ExecutorAssumption DEF IInv, TypeOK
<1>2. /\ trades \in Seq(Int) /\ Len(trades) \in Nat
      /\ trades \in [1..Len(trades) -> Nat]
  BY <1>1
<1>3. SumOf(trades) \in Nat
  <2>1. IsFiniteSet(1..Len(trades)) /\ Additive(Nat)
    BY <1>2, FS_Interval, AdditiveSets
  <2> QED BY <1>2, <2>1, SumOfType
<1> QED BY <1>1, <1>2, <1>3, ExecutorAssumption DEF Signals

(* The cap is held against all rows of the day.                            *)
LEMMA CapCountsRows ==
  ASSUME IInv, RowsInWindow
  PROVE  \A a : DailyCapExceeded(a) <=> SumOf(trades) + a > DailyCap
<1>1. trades \in Seq(Nat) /\ Len(trades) \in Nat /\ TradeWindow \in Nat
  BY ExecutorAssumption DEF IInv, TypeOK
<1>2. Recent = SubSeq(trades, 1, Len(trades))
  <2>1. ~(Len(trades) > TradeWindow)
    BY <1>1 DEF RowsInWindow
  <2> QED BY <2>1 DEF Recent
<1>3. SubSeq(trades, 1, Len(trades)) = trades
  BY <1>1
<1>4. FoldSeq(+, 0, Recent) = SumOf(trades)
  BY <1>2, <1>3, SumIsFold DEF FoldSeq
<1> QED BY <1>4 DEF DailyCapExceeded

(* What escapes is never negative.                                         *)
LEMMA ExcessNat ==
  ASSUME NEW m \in Int, NEW a \in Nat
  PROVE  Excess(m, a) \in Nat
BY DEF Excess

(* What a step lets past the limits is a number.                           *)
LEMMA EscapedTypes ==
  ASSUME IInv, IInv'
  PROVE  Escaped \in Nat
<1>1. amt \in Nat /\ amt' \in Nat /\ spent' - spent \in Int
  BY DEF IInv, TypeOK
<1> QED BY <1>1, ExcessNat DEF Escaped

(* A bound that is raised stays a bound.                                   *)
LEMMA StillBelow ==
  ASSUME NEW a \in Nat, NEW b \in Nat, NEW c \in Nat, NEW d \in Nat,
         a <= d + b, b <= c
  PROVE  a <= d + c
OBVIOUS

(* What was in flight is so still, has been given up or has escaped.       *)
LEMMA StillTold ==
  ASSUME NEW s \in Nat, NEW b \in Nat, NEW u \in Nat, NEW i \in Nat,
         s <= b + u + i, NEW v \in Nat, u <= v, NEW j \in Nat,
         j = i \/ i = 0 \/ v = u + i
  PROVE  s <= b + v + j
OBVIOUS

(* A step that neither deposits nor writes a row.                          *)
LEMMA QuietStep ==
  ASSUME IInv, IInv', VolumeInv, UNCHANGED <<spent, trades>>,
         unbooked' \in Nat, unbooked <= unbooked',
         pc = "record" => \/ pc' = "record" /\ amt' = amt
                          \/ unbooked' = unbooked + amt,
         Depositing' => Depositing /\ UNCHANGED <<sig, amt>>,
         pc' = "limits" => SignalFits'
  PROVE  VolumeInv'
<1>1. /\ spent \in Nat /\ amt \in Nat /\ amt' \in Nat /\ DailyCap \in Nat
      /\ SumOf(trades) \in Nat /\ unbooked \in Nat
      /\ spent' = spent /\ SumOf(trades') = SumOf(trades)
  <2>1. amt' \in Nat
    BY DEF IInv, TypeOK
  <2> QED BY <2>1, VolumeTypes DEF VolumeInv
<1>2. spent' <= SumOf(trades') + unbooked' + InFlight'
  <2>1. spent <= SumOf(trades) + unbooked + InFlight
    BY DEF VolumeInv
  <2>2. InFlight \in Nat /\ InFlight' \in Nat
    BY <1>1 DEF InFlight
  <2>3. InFlight' = InFlight \/ InFlight = 0 \/ unbooked' = unbooked + InFlight
    BY <1>1 DEF InFlight
  <2>4. spent <= SumOf(trades) + unbooked' + InFlight'
    BY <1>1, <2>1, <2>2, <2>3, StillTold
  <2> QED BY <1>1, <2>4
<1>3. Depositing' => spent' + amt' <= DailyCap + unbooked'
  <2>1. Depositing' => spent + amt <= DailyCap + unbooked /\ amt' = amt
    BY DEF VolumeInv
  <2>2. spent + amt \in Nat
    BY <1>1
  <2>3. spent + amt <= DailyCap + unbooked => spent + amt <= DailyCap + unbooked'
    BY <1>1, <2>2, StillBelow
  <2> QED BY <1>1, <2>1, <2>3
<1>4. DailyVolumeWithinCap'
  <2>1. spent <= DailyCap + unbooked
    BY DEF VolumeInv, DailyVolumeWithinCap
  <2>2. spent <= DailyCap + unbooked'
    BY <1>1, <2>1, StillBelow
  <2> QED BY <1>1, <2>2 DEF DailyVolumeWithinCap
<1>5. pc' = "limits" \/ Depositing' => SignalFits'
  BY DEF VolumeInv, SignalFits
<1> QED BY <1>2, <1>3, <1>4, <1>5 DEF VolumeInv
(* A step that neither deposits nor books keeps the account of the day.    *)
LEMMA QuietWatched ==
  ASSUME IInv, IInv', VolumeInv, Watch, ~Midnight, UNCHANGED <<spent, trades>>,
         pc = "record" => pc' = "idle" \/ (pc' = "record" /\ amt' = amt),
         Depositing' => Depositing /\ UNCHANGED <<sig, amt>>,
         pc' = "limits" => SignalFits'
  PROVE  VolumeInv'
<1>1. /\ unbooked \in Nat /\ Escaped \in Nat
      /\ unbooked' = unbooked + Escaped
  BY EscapedTypes DEF VolumeInv, Watch
<1>2. unbooked' \in Nat /\ unbooked <= unbooked'
  BY <1>1
<1>3. pc = "record" => \/ pc' = "record" /\ amt' = amt
                       \/ unbooked' = unbooked + amt
  BY <1>1 DEF Escaped
<1> QED BY <1>2, <1>3, QuietStep

-----------------------------------------------------------------------------
(* The steps that deposit or write a row, in numbers: s is spent, b what   *)
(* the rows tell, u unbooked, c the cap and a the amount.                  *)
LEMMA PassedInNumbers ==
  ASSUME NEW s \in Nat, NEW b \in Nat, NEW u \in Nat, NEW c \in Nat,
         NEW a \in Nat, NEW v \in Nat, s <= b + u, s <= c + u, u <= v,
         b + a <= c \/ v = u + a
  PROVE  s + a <= c + v
OBVIOUS

(* The arithmetic of a deposit of m, of which n were announced to the      *)
(* limits: b and c bound what was spent so far, u is what escaped.         *)
LEMMA DepositInNumbers ==
  ASSUME NEW s \in Nat, NEW b \in Nat, NEW u \in Nat, NEW c \in Nat,
         NEW a \in Nat, NEW m \in Nat, NEW n \in Nat,
         s <= b + u, s + a <= c + u, n <= a
  PROVE  /\ s + m <= b + (u + Excess(m, n)) + n
         /\ s + m <= c + (u + Excess(m, n))
<1>1. CASE m > n
  BY <1>1 DEF Excess
<1>2. CASE ~(m > n)
  BY <1>2 DEF Excess
<1> QED BY <1>1, <1>2

(* The arithmetic of a deposit that no announcement covers.                *)
LEMMA LateInNumbers ==
  ASSUME NEW s \in Nat, NEW u \in Nat, NEW m \in Nat, NEW c \in Nat,
         s <= c + u
  PROVE  s + m <= c + (u + m)
OBVIOUS

(* The limits are passed: within the cap, or counted as escaped.           *)
LEMMA LimitsPassedWatched ==
  ASSUME IInv, IInv', VolumeInv, RowsInWindow, Watch, ~Midnight, LimitsPassed
  PROVE  VolumeInv'
<1>1. /\ pc = "limits" /\ pc' = "funds"
      /\ UNCHANGED <<spent, trades, amt, sig>>
  BY DEF LimitsPassed, chain, books, local
<1>2. /\ spent \in Nat /\ amt \in Nat /\ DailyCap \in Nat
      /\ SumOf(trades) \in Nat /\ unbooked \in Nat
  BY VolumeTypes DEF VolumeInv
<1>3. /\ Escaped \in Nat /\ unbooked' = unbooked + Escaped
  BY EscapedTypes DEF Watch
<1>4. unbooked' \in Nat /\ unbooked <= unbooked'
  BY <1>2, <1>3
<1>5. spent <= SumOf(trades) + unbooked /\ spent <= DailyCap + unbooked
  BY <1>1, <1>2 DEF VolumeInv, InFlight, DailyVolumeWithinCap
<1>6. SumOf(trades) + amt <= DailyCap \/ unbooked' = unbooked + amt
  <2>1. CASE DailyCapExceeded(amt)
    BY <1>1, <1>3, <2>1 DEF Escaped
  <2>2. CASE ~DailyCapExceeded(amt)
    BY <1>2, <2>2, CapCountsRows
  <2> QED BY <2>1, <2>2
<1>7. spent + amt <= DailyCap + unbooked'
  BY <1>2, <1>4, <1>5, <1>6, PassedInNumbers
<1>8. spent <= DailyCap + unbooked' /\ spent <= SumOf(trades) + unbooked'
  BY <1>2, <1>4, <1>5, StillBelow
<1>9. SumOf(trades) + unbooked' \in Nat
  BY <1>2, <1>4
<1>10. SignalFits'
  BY <1>1 DEF VolumeInv, SignalFits
<1>11. spent' <= SumOf(trades') + unbooked' + InFlight'
  BY <1>1, <1>8, <1>9 DEF InFlight
<1> QED BY <1>1, <1>4, <1>7, <1>8, <1>10, <1>11
        DEF VolumeInv, DailyVolumeWithinCap
(* A deposit: what it moves is in its row or has escaped.                  *)
LEMMA DepositWatched ==
  ASSUME IInv, IInv', VolumeInv, Watch, ~Midnight, NEW o \in Outcomes, Deposit(o)
  PROVE  VolumeInv'
<1>1. /\ pc = "deposit" /\ pc' = "record" /\ trades' = trades
      /\ amt' \in {amt, sig.amount}
  BY DEF Deposit, Finish, Fail, books, local
<1>2. /\ spent \in Nat /\ amt \in Nat /\ DailyCap \in Nat
      /\ SumOf(trades) \in Nat /\ unbooked \in Nat /\ amt' \in Nat
  BY VolumeTypes DEF VolumeInv, IInv, TypeOK
<1>3. amt' <= amt
  BY <1>1, <1>2 DEF VolumeInv, Depositing, SignalFits
<1>4. PICK m \in Nat : spent' = spent + m
  <2>1. PICK m \in DepositMoves(o.mined, sig.protocol, amt) : Supply(sig.protocol, m)
    BY DEF Deposit
  <2>2. /\ sig.protocol \in Protocol /\ wallet \in Nat
        /\ allowance[sig.protocol] \in Nat
    BY ExecutorAssumption DEF Deposit, IInv, TypeOK
  <2>3. m \in Nat
    BY <1>2, <2>1, <2>2, OutcomeFields, LeastBounded, MovesBounded DEF DepositMoves
  <2> QED BY <2>1, <2>3 DEF Supply
<1>5. unbooked' = unbooked + Excess(m, amt')
  <2>1. spent' - spent = m
    BY <1>2, <1>4
  <2>2. Escaped = Excess(m, amt')
    BY <1>1, <2>1 DEF Escaped
  <2> QED BY <2>2 DEF Watch
<1>6. unbooked' \in Nat
  <2>1. amt' \in Nat /\ m \in Int
    BY <1>2
  <2>2. Excess(m, amt') \in Nat
    BY <2>1, ExcessNat
  <2> QED BY <1>2, <1>5, <2>2
<1>7. /\ spent <= SumOf(trades) + unbooked
      /\ spent + amt <= DailyCap + unbooked
  BY <1>1, <1>2 DEF VolumeInv, InFlight, Depositing
<1>8. /\ spent + m <= SumOf(trades) + unbooked' + amt'
      /\ spent + m <= DailyCap + unbooked'
  <2> DEFINE n == amt'
  <2>1. n \in Nat /\ n <= amt
    BY <1>2, <1>3
  <2> HIDE DEF n
  <2>2. /\ spent + m <= SumOf(trades) + (unbooked + Excess(m, n)) + n
        /\ spent + m <= DailyCap + (unbooked + Excess(m, n))
    BY <1>2, <1>7, <2>1, DepositInNumbers
  <2> QED BY <1>5, <2>2 DEF n
<1>9. spent' <= SumOf(trades') + unbooked' + InFlight'
  BY <1>1, <1>4, <1>8 DEF InFlight
<1> QED BY <1>1, <1>4, <1>6, <1>8, <1>9
        DEF VolumeInv, DailyVolumeWithinCap, Depositing

(* A deposit mined late escapes the rows altogether.                       *)
LEMMA LateWatched ==
  ASSUME IInv, IInv', VolumeInv, Watch, ~Midnight, MinedLate
  PROVE  VolumeInv'
<1>1. UNCHANGED <<trades, pc, amt, sig>>
  BY DEF MinedLate, books, local
<1>2. CASE spent' = spent
  <2>1. Depositing' = Depositing /\ SignalFits' = SignalFits
    BY <1>1 DEF Depositing, SignalFits
  <2>2. pc = "limits" => SignalFits
    BY DEF VolumeInv
  <2> QED BY <1>1, <1>2, <2>1, <2>2, QuietWatched
<1>3. CASE spent' # spent
  <2>1. /\ spent \in Nat /\ amt \in Nat /\ DailyCap \in Nat
        /\ SumOf(trades) \in Nat /\ unbooked \in Nat
    BY VolumeTypes DEF VolumeInv
  <2>2. PICK m \in Nat : spent' = spent + m
    <3>1. PICK m \in DepositMoves(1, pending.protocol, pending.amount) :
            Supply(pending.protocol, m)
      BY <1>3 DEF MinedLate, Allow, Redeem
    <3>2. /\ pending.protocol \in Protocol /\ pending.amount \in Nat
          /\ wallet \in Nat /\ allowance[pending.protocol] \in Nat
      BY DEF MinedLate, IInv, TypeOK, Txs
    <3>3. m \in Nat
      BY <3>1, <3>2, LeastBounded, MovesBounded DEF DepositMoves
    <3> QED BY <3>1, <3>3 DEF Supply
  <2>3. unbooked' = unbooked + m
    <3>1. spent' - spent = m
      BY <2>1, <2>2
    <3>2. Escaped = Excess(m, 0)
      BY <1>1, <3>1 DEF Escaped
    <3>3. Excess(m, 0) = m
      BY <2>2 DEF Excess
    <3> QED BY <3>2, <3>3 DEF Watch
  <2>4. spent <= SumOf(trades) + unbooked + InFlight /\ InFlight \in Nat
        /\ InFlight' = InFlight
    BY <1>1, <2>1 DEF VolumeInv, InFlight
  <2>5. spent + m <= SumOf(trades) + (unbooked + m) + InFlight
    BY <2>1, <2>4
  <2>6. spent + m <= DailyCap + (unbooked + m)
    BY <2>1, LateInNumbers DEF VolumeInv, DailyVolumeWithinCap
  <2>7. Depositing => (spent + m) + amt <= DailyCap + (unbooked + m)
    BY <2>1 DEF VolumeInv
  <2>8. unbooked' \in Nat
    BY <2>1, <2>3
  <2>9. pc' = "limits" \/ Depositing' => SignalFits'
    BY <1>1 DEF VolumeInv, Depositing, SignalFits
  <2>10. Depositing' => spent' + amt' <= DailyCap + unbooked'
    BY <1>1, <2>2, <2>3, <2>7 DEF Depositing
  <2>11. spent' <= SumOf(trades') + unbooked' + InFlight'
    BY <1>1, <2>2, <2>3, <2>4, <2>5
  <2> QED BY <2>2, <2>3, <2>6, <2>8, <2>9, <2>10, <2>11
          DEF VolumeInv, DailyVolumeWithinCap
<1> QED BY <1>2, <1>3

(* A row is written, or is lost and escapes.                               *)
LEMMA RowWatched ==
  ASSUME IInv, IInv', VolumeInv, Watch, ~Midnight, SaveTrade
  PROVE  VolumeInv'
<1>1. pc = "record" /\ pc' = "idle" /\ spent' = spent
  BY DEF SaveTrade, chain
<1>2. CASE trades' = trades
  BY <1>1, <1>2, QuietWatched DEF Depositing
<1>3. CASE trades' = Append(trades, amt)
  <2>1. /\ spent \in Nat /\ amt \in Nat /\ DailyCap \in Nat
        /\ trades \in Seq(Int) /\ SumOf(trades) \in Nat /\ unbooked \in Nat
    BY VolumeTypes DEF VolumeInv
  <2>2. SumOf(trades') = SumOf(trades) + amt
    BY <1>3, <2>1, SumOfAppend
  <2>3. Escaped \in Nat /\ unbooked' = unbooked + Escaped
    BY EscapedTypes DEF Watch
  <2>4. unbooked' \in Nat /\ unbooked <= unbooked'
    BY <2>1, <2>3
  <2>5. spent <= SumOf(trades) + unbooked + amt
    BY <1>1 DEF VolumeInv, InFlight
  <2>6. SumOf(trades) + amt \in Nat /\ spent <= (SumOf(trades) + amt) + unbooked
    BY <2>1, <2>5
  <2>7. spent <= (SumOf(trades) + amt) + unbooked'
    BY <2>1, <2>4, <2>6, StillBelow
  <2>8. spent <= DailyCap + unbooked'
    BY <2>1, <2>4, StillBelow DEF VolumeInv, DailyVolumeWithinCap
  <2>9. spent' <= SumOf(trades') + unbooked' + InFlight'
    <3>1. InFlight' = 0 /\ SumOf(trades') + unbooked' \in Nat
      BY <1>1, <2>2, <2>4, <2>6 DEF InFlight
    <3> QED BY <1>1, <2>2, <2>7, <3>1
  <2> QED BY <1>1, <2>4, <2>8, <2>9 DEF VolumeInv, DailyVolumeWithinCap, Depositing
<1> QED BY <1>2, <1>3 DEF SaveTrade

(* A new day: only a deposit under way is left.                            *)
LEMMA MidnightWatched ==
  ASSUME IInv, IInv', VolumeInv, Watch, Midnight
  PROVE  VolumeInv'
<1>1. /\ spent' = 0 /\ trades' = <<>> /\ UNCHANGED <<pc, amt, sig>>
      /\ unbooked' = UnderWay
  BY DEF Midnight, local, Watch
<1>2. amt \in Nat /\ DailyCap \in Nat
  BY VolumeTypes
<1>3. UnderWay \in Nat
  BY <1>2 DEF UnderWay
<1>4. Depositing => amt <= DailyCap + UnderWay
  BY <1>2 DEF UnderWay, Depositing
<1>5. SumOf(trades') = 0 /\ InFlight' \in Nat
  BY <1>1, <1>2, SumOfEmpty DEF InFlight
<1>6. Depositing' => spent' + amt' <= DailyCap + unbooked'
  BY <1>1, <1>2, <1>4 DEF Depositing
<1>7. spent' <= SumOf(trades') + unbooked' + InFlight'
  BY <1>1, <1>3, <1>5
<1>8. DailyVolumeWithinCap'
  BY <1>1, <1>2, <1>3 DEF DailyVolumeWithinCap
<1>9. pc' = "limits" \/ Depositing' => SignalFits'
  BY <1>1 DEF VolumeInv, Depositing, SignalFits
<1> QED BY <1>1, <1>3, <1>6, <1>7, <1>8, <1>9 DEF VolumeInv
(* The steps before a deposit is under way, and those that end it early.   *)
LEMMA AgentQuiet ==
  ASSUME IInv, VolumeInv,
         \/ \E w \in todo : Withdraw(w)
         \/ TrackWithdrawal \/ NoSignal \/ SlippageBlocked \/ NoKey
         \/ TrackDeposit \/ LimitBlocked \/ CapBlocked \/ NoGas \/ CallFails
         \/ UnknownProtocol \/ FundsPassed \/ NoDepositHandler
         \/ \E o \in Outcomes : Approve(o)
  PROVE  /\ UNCHANGED <<spent, trades>>
         /\ pc # "record"
         /\ Depositing' => Depositing /\ UNCHANGED <<sig, amt>>
         /\ pc' = "limits" => SignalFits'
<1> USE DEF Depositing, chain, books, local
<1>1. CASE \E w \in todo : Withdraw(w)
  BY <1>1 DEF Withdraw, SkipWithdrawal, WithdrawSimulated, WithdrawUnsupported,
              WithdrawReal, Redeem
<1>2. CASE TrackWithdrawal \/ NoSignal \/ SlippageBlocked
  BY <1>2 DEF TrackWithdrawal, NoSignal, SlippageBlocked, Gate
<1>3. CASE NoKey \/ UnknownProtocol \/ NoDepositHandler
  BY <1>3 DEF NoKey, UnknownProtocol, NoDepositHandler, GatesPassed, Gate, Simulate
<1>4. CASE TrackDeposit
  <2>1. sig \in Signals /\ total \in Nat
    BY <1>4 DEF TrackDeposit, GatesPassed, IInv, TypeOK
  <2>2. sig.amount \in Nat /\ amt' = sig.amount + total /\ sig' = sig
    BY <1>4, <2>1, VolumeTypes DEF TrackDeposit
  <2>3. SignalFits'
    BY <2>1, <2>2 DEF SignalFits
  <2> QED BY <1>4, <2>3 DEF TrackDeposit, GatesPassed, Gate
<1>5. CASE LimitBlocked \/ CapBlocked \/ NoGas \/ CallFails
  BY <1>5 DEF LimitBlocked, CapBlocked, NoGas, CallFails, Finish, Fail
<1>6. CASE FundsPassed
  BY <1>6 DEF FundsPassed
<1>7. CASE \E o \in Outcomes : Approve(o)
  BY <1>7 DEF Approve, Allow, Fail
<1> QED BY <1>1, <1>2, <1>3, <1>4, <1>5, <1>6, <1>7

(* Interest, dropped transactions, crashes and new keys.                   *)
LEMMA EnvironmentQuiet ==
  ASSUME VolumeInv,
         \/ \E p \in Protocol : PayInterest(p)
         \/ Dropped \/ Crash \/ Rekey \/ Stopped
  PROVE  /\ UNCHANGED <<spent, trades>>
         /\ pc' = "idle" \/ UNCHANGED <<pc, sig, amt>>
         /\ Depositing' => Depositing /\ UNCHANGED <<sig, amt>>
         /\ pc' = "limits" => SignalFits'
<1>1. /\ UNCHANGED <<spent, trades>>
      /\ pc' = "idle" \/ UNCHANGED <<pc, sig, amt>>
  BY DEF PayInterest, Dropped, Crash, Rekey, Stopped, vars, chain, books, local
<1>2. pc = "limits" => SignalFits
  BY DEF VolumeInv
<1> QED BY <1>1, <1>2 DEF Depositing, SignalFits

(* Every step keeps the account of the day, while the rows of the day are  *)
(* those the limits read.                                                  *)
LEMMA VolumeSteps ==
  IInv /\ IInv' /\ VolumeInv /\ RowsInWindow /\ [WatchedNext]_<<vars, unbooked>>
    => VolumeInv'
<1> SUFFICES ASSUME IInv, IInv', VolumeInv, RowsInWindow,
                    [WatchedNext]_<<vars, unbooked>>
             PROVE  VolumeInv'
  OBVIOUS
<1>1. CASE UNCHANGED <<vars, unbooked>>
  BY <1>1 DEF vars, chain, books, local, VolumeInv, Depositing, SignalFits,
              InFlight, DailyVolumeWithinCap
<1>2. CASE WatchedNext /\ Midnight
  BY <1>2, MidnightWatched DEF WatchedNext
<1>3. CASE WatchedNext /\ ~Midnight
  <2>0. Watch /\ ~Midnight /\ Next
    BY <1>3 DEF WatchedNext
  <2>1. CASE \E est \in Estimates, s \in Signals \cup {None} : StartCycle(est, s)
    <3>1. /\ UNCHANGED <<spent, trades>> /\ pc = "idle" /\ pc' = "withdraw"
      BY <2>1 DEF StartCycle, chain, books
    <3> QED BY <2>0, <3>1, QuietWatched DEF Depositing
  <2>2. CASE /\ Agent /\ ~LimitsPassed /\ ~SaveTrade
             /\ ~\E o \in Outcomes : Deposit(o)
    <3>1. /\ UNCHANGED <<spent, trades>>
          /\ pc # "record"
          /\ Depositing' => Depositing /\ UNCHANGED <<sig, amt>>
          /\ pc' = "limits" => SignalFits'
      BY <2>2, AgentQuiet DEF Agent
    <3> QED BY <2>0, <3>1, QuietWatched
  <2>3. CASE LimitsPassed
    BY <2>0, <2>3, LimitsPassedWatched
  <2>4. CASE SaveTrade
    BY <2>0, <2>4, RowWatched
  <2>5. CASE \E o \in Outcomes : Deposit(o)
    BY <2>0, <2>5, DepositWatched
  <2>6. CASE MinedLate
    BY <2>0, <2>6, LateWatched
  <2>7. CASE \/ \E p \in Protocol : PayInterest(p)
             \/ Dropped \/ Crash \/ Rekey \/ Stopped
    <3>1. /\ UNCHANGED <<spent, trades>>
          /\ pc' = "idle" \/ UNCHANGED <<pc, sig, amt>>
          /\ Depositing' => Depositing /\ UNCHANGED <<sig, amt>>
          /\ pc' = "limits" => SignalFits'
      BY <2>7, EnvironmentQuiet
    <3> QED BY <2>0, <3>1, QuietWatched
  <2> QED BY <2>0, <2>1, <2>2, <2>3, <2>4, <2>5, <2>6, <2>7 DEF Next, Environment
<1> QED BY <1>1, <1>2, <1>3

(* As long as the trade table's query sees all rows of the day, the cap    *)
(* holds for every cap, every limit and every combination of faults, but   *)
(* for what the rows do not tell of: retries, late answers, crashes,       *)
(* withdrawn capital added to a deposit and blocked trades do not stretch  *)
(* it (executor.py:441-468, 498-512).                                      *)
THEOREM CapHolds ==
  WatchedSpec /\ []RowsInWindow => []DailyVolumeWithinCap
<1>1. WatchedInit => VolumeInv
  BY ExecutorAssumption, SumOfEmpty
     DEF WatchedInit, Init, VolumeInv, Depositing, InFlight, DailyVolumeWithinCap
<1>2. VolumeInv => DailyVolumeWithinCap
  BY DEF VolumeInv
<1>3. WatchedSpec /\ []RowsInWindow => []VolumeInv
  BY <1>1, VolumeSteps, WatchedKeeps, PTL DEF WatchedSpec
<1> QED BY <1>2, <1>3, PTL
-----------------------------------------------------------------------------
(* The ledger and the chain.  What a ledger, or a plan of withdrawals,     *)
(* holds for one protocol is a sum over its pools.                         *)
Row(l, p) == [q \in Pool |-> l[<<p, q>>]]

Holds(l, p) == SumOf(Row(l, p))

(* What the agent holds at a protocol is the sum over its pools,           *)
LEMMA HoldsIsSum ==
  ASSUME NEW l, NEW p
  PROVE  Sum([q \in Pool |-> l[<<p, q>>]]) = Holds(l, p)
BY SumIsFold DEF Sum, Holds, Row

(* ... and a number.                                                       *)
LEMMA HoldsType ==
  ASSUME NEW l \in [Key -> Nat], NEW p \in Protocol
  PROVE  Holds(l, p) \in Nat
<1>1. IsFiniteSet(Pool) /\ Additive(Nat)
  BY ExecutorAssumption, AdditiveSets
<1>2. Row(l, p) \in [Pool -> Nat]
  BY DEF Row, Key
<1> QED BY <1>1, <1>2, SumOfType DEF Holds

Put(l, p, q, n) == [l EXCEPT ![<<p, q>>] = n]

(* One entry changes, and the sum of its own protocol with it.             *)
LEMMA HoldsExcept ==
  ASSUME NEW l \in [Key -> Nat], NEW p \in Protocol, NEW q \in Pool,
         NEW n \in Nat, NEW m, m = Put(l, p, q, n)
  PROVE  /\ m \in [Key -> Nat]
         /\ Holds(m, p) = (Holds(l, p) - l[<<p, q>>]) + n
         /\ \A r \in Protocol : r # p => Holds(m, r) = Holds(l, r)
<1>1. <<p, q>> \in Key
  BY DEF Key
<1> USE DEF Put
<1>2. m \in [Key -> Nat]
  BY <1>1
<1>3. Row(m, p) = [Row(l, p) EXCEPT ![q] = n]
  <2>1. \A r \in Pool : <<p, r>> \in Key
    BY DEF Key
  <2> QED BY <2>1 DEF Row
<1>4. Row(l, p) \in [Pool -> Int] /\ Row(l, p)[q] = l[<<p, q>>]
  BY DEF Row, Key
<1>5. Holds(m, p) = (Holds(l, p) - l[<<p, q>>]) + n
  <2> DEFINE f == Row(l, p)
  <2>1. IsFiniteSet(Pool) /\ n \in Int /\ f \in [Pool -> Int]
    BY <1>4, ExecutorAssumption
  <2> HIDE DEF f
  <2>2. SumOf([f EXCEPT ![q] = n]) = (SumOf(f) - f[q]) + n
    BY <2>1, SumOfExcept
  <2> QED BY <1>3, <1>4, <2>2 DEF Holds, f
<1>6. ASSUME NEW r \in Protocol, r # p PROVE Holds(m, r) = Holds(l, r)
  <2>1. Row(m, r) = Row(l, r)
    <3>1. \A u \in Pool : <<r, u>> \in Key /\ <<r, u>> # <<p, q>>
      BY <1>6 DEF Key
    <3> QED BY <3>1 DEF Row
  <2> QED BY <2>1 DEF Holds
<1> QED BY <1>2, <1>5, <1>6

(* No entry is larger than the sum.                                        *)
LEMMA HoldsEach ==
  ASSUME NEW l \in [Key -> Nat], NEW p \in Protocol, NEW q \in Pool
  PROVE  l[<<p, q>>] \in Nat /\ l[<<p, q>>] <= Holds(l, p)
<1> DEFINE m == Put(l, p, q, 0)
<1>1. m \in [Key -> Nat] /\ Holds(m, p) = (Holds(l, p) - l[<<p, q>>]) + 0
  <2>1. 0 \in Nat
    OBVIOUS
  <2> QED BY <2>1, HoldsExcept
<1> HIDE DEF m
<1>2. Holds(m, p) \in Nat /\ Holds(l, p) \in Nat
  BY <1>1, HoldsType
<1>3. l[<<p, q>>] \in Nat
  BY DEF Key
<1> QED BY <1>1, <1>2, <1>3

(* A single copy that fits takes effect in full when none reverts.         *)
LEMMA MovesAll ==
  ASSUME NEW a \in Nat, NEW limit \in Nat, a <= limit, "revert" \notin Faults,
         NEW m \in Moves(1, a, limit)
  PROVE  m = a
<1>1. PICK e \in 0..1 : m = e * a /\ (e = 1 \/ (e + 1) * a > limit)
  BY DEF Moves
<1>2. e = 0 \/ e = 1
  BY <1>1
<1> QED BY <1>1, <1>2
(* Faults that touch neither the ledger nor the chain; every protocol has  *)
(* an address and both calls (executor.py:68-86, 265-309, 558).            *)
Faultless == /\ Faults \subseteq {"nodb", "unrecorded"}
             /\ Known = Protocol
             /\ Depositable = Protocol /\ Withdrawable = Protocol

(* No deposit is refused or falls short: it passes the limits, and the     *)
(* wallet holds its amount (executor.py:498-527, 570-574).                 *)
Unhindered ==
  /\ pc = "limits" => amt <= MaxTx /\ ~DailyCapExceeded(amt)
  /\ pc = "deposit" => amt <= wallet

(* What the file still counts that has been withdrawn, or counts already   *)
(* that has not been deposited.                                            *)
Ahead(p) ==
  IF pc = "untrack" /\ cur.protocol = p THEN cur.deposited
  ELSE IF pc \in {"limits", "funds", "approve", "deposit"} /\ sig.protocol = p
       THEN amt ELSE 0

Backed ==
  \A p \in Protocol : supplied[p] + Ahead(p) = Holds(ledger, p) + interest[p]

At(w) == <<w.protocol, w.pool>>

(* The withdrawals still to be made are as they were planned, no two of    *)
(* them of one position, and the interest covers them all.                 *)
PlanCovers(est) ==
  /\ est \in [Key -> Nat]
  /\ \A p \in Protocol : Holds(est, p) <= interest[p]
  /\ \A w \in todo :
       /\ w.accrued > 0 /\ w.accrued = est[At(w)]
       /\ w.deposited = ledger[At(w)]
       /\ pc = "untrack" => At(w) # At(cur)

Planned == \E est : PlanCovers(est)

Steady ==
  /\ key /\ pending = None /\ total = back
  /\ pc \notin {"withdraw", "untrack"} => todo = {}
  /\ pc = "untrack" => cur.deposited = ledger[At(cur)] /\ cur.accrued > 0
  /\ pc = "deposit" => allowance[sig.protocol] = amt

LedgerInv == Backed /\ Planned /\ Steady

(* With such faults a call is answered by the receipt of its only copy.    *)
LEMMA OneCopy ==
  ASSUME Faultless, NEW o \in Outcomes
  PROVE  o.receipt /\ o.mined = 1 /\ ~o.late
<1>1. "lost" \notin Faults /\ Faults \cap {"rpc", "lost"} = {}
  BY DEF Faultless
<1>2. /\ o.receipt \in BOOLEAN /\ o.late \in BOOLEAN /\ o.mined \in Nat
      /\ o.receipt
  BY <1>1, OutcomeFields DEF Outcomes
<1>3. /\ o.receipt => o.mined >= 1 /\ ~o.late
      /\ o.mined > (IF o.receipt THEN 1 ELSE 0) \/ o.late => "lost" \in Faults
  BY DEF Outcomes, OutcomeAllowed
<1>4. ~(o.mined > 1)
  BY <1>1, <1>2, <1>3
<1> QED BY <1>2, <1>3, <1>4

(* Planning: the estimates of a protocol do not exceed its interest.       *)
LEMMA StartCycleLedger ==
  ASSUME Faultless, IInv, LedgerInv, NEW est \in Estimates,
         NEW s \in Signals \cup {None}, StartCycle(est, s)
  PROVE  LedgerInv'
<1>1. /\ UNCHANGED <<supplied, interest, ledger, key, pending, allowance>>
      /\ pc = "idle" /\ pc' = "withdraw" /\ total' = 0 /\ back' = 0
  BY DEF StartCycle, chain, books
<1>2. Backed'
  BY <1>1 DEF LedgerInv, Backed, Ahead
<1>3. Steady'
  BY <1>1 DEF LedgerInv, Steady
<1>4. est \in [Key -> Nat]
  BY ExecutorAssumption DEF Estimates
<1>5. \A p \in Protocol : Holds(est, p) <= interest[p]
  <2>1. EstimateFits(est)
    BY DEF StartCycle, Faultless
  <2> QED BY <2>1, HoldsIsSum DEF EstimateFits
<1>6. ASSUME NEW w \in todo'
      PROVE  /\ w.accrued > 0 /\ w.accrued = est[At(w)]
             /\ w.deposited = ledger[At(w)]
  <2>1. PICK k \in Key : /\ est[k] > 0
                         /\ w = [protocol |-> k[1], pool |-> k[2],
                                 deposited |-> ledger[k], accrued |-> est[k]]
    BY <1>6 DEF StartCycle
  <2>2. k = <<k[1], k[2]>>
    BY DEF Key
  <2>3. At(w) = k
    BY <2>1, <2>2 DEF At
  <2> QED BY <2>1, <2>3
<1>7. PlanCovers(est)'
  BY <1>1, <1>4, <1>5, <1>6 DEF PlanCovers
<1> QED BY <1>2, <1>3, <1>7 DEF LedgerInv, Planned
(* What a planned withdrawal takes is there: the position's own amount is  *)
(* in the sum of the ledger, its yield within the interest.                *)
LEMMA PlannedIsThere ==
  ASSUME IInv, Backed, pc = "withdraw", NEW est, PlanCovers(est), NEW w \in todo
  PROVE  /\ w.protocol \in Protocol /\ w.pool \in Pool
         /\ w.deposited \in Nat /\ w.accrued \in Nat
         /\ Worth(w) \in Nat /\ Worth(w) <= supplied[w.protocol]
         /\ w.accrued <= Holds(est, w.protocol)
         /\ w.accrued <= interest[w.protocol]
<1> DEFINE p == w.protocol
           q == w.pool
<1>1. /\ p \in Protocol /\ q \in Pool
      /\ w.deposited \in Nat /\ w.accrued \in Nat
      /\ ledger \in [Key -> Nat] /\ est \in [Key -> Nat]
      /\ supplied[p] \in Nat /\ interest[p] \in Nat
  BY DEF IInv, TypeOK, Withdrawals, PlanCovers
<1>2. w.deposited = ledger[<<p, q>>] /\ w.accrued = est[<<p, q>>]
  BY DEF PlanCovers, At
<1>3. Holds(est, p) <= interest[p]
  BY <1>1 DEF PlanCovers
<1>4. supplied[p] + 0 = Holds(ledger, p) + interest[p]
  BY <1>1 DEF Backed, Ahead
<1> HIDE DEF p, q
<1>5. w.deposited <= Holds(ledger, p) /\ w.accrued <= Holds(est, p)
  BY <1>1, <1>2, HoldsEach
<1>6. Holds(ledger, p) \in Nat /\ Holds(est, p) \in Nat
  BY <1>1, HoldsType
<1>7. /\ w.accrued <= interest[p]
      /\ w.deposited + w.accrued \in Nat
      /\ w.deposited + w.accrued <= supplied[p]
  BY <1>1, <1>3, <1>4, <1>5, <1>6
<1> QED BY <1>1, <1>5, <1>7 DEF Worth, p, q

(* Two planned withdrawals of one position are the same.                   *)
LEMMA PlannedOnce ==
  ASSUME IInv, NEW est, PlanCovers(est), NEW w \in todo, NEW v \in todo,
         At(w) = At(v)
  PROVE  w = v
<1>1. w \in Withdrawals /\ v \in Withdrawals
  BY DEF IInv, TypeOK
<1>2. /\ w.protocol = v.protocol /\ w.pool = v.pool
      /\ w.deposited = v.deposited /\ w.accrued = v.accrued
  BY DEF PlanCovers, At
<1> QED BY <1>1, <1>2 DEF Withdrawals

(* A withdrawal that confirms takes from the chain what the ledger gives   *)
(* up, and stays covered by the estimates (executor.py:192-230).           *)
LEMMA RealWithdrawalLedger ==
  ASSUME Faultless, IInv, LedgerInv, pc = "withdraw", NEW w \in todo,
         NEW o \in Outcomes, WithdrawReal(w, o)
  PROVE  LedgerInv'
<1> DEFINE p == w.protocol
           q == w.pool
<1>1. PICK est : PlanCovers(est)
  BY DEF LedgerInv, Planned
<1>2. /\ p \in Protocol /\ q \in Pool
      /\ w.deposited \in Nat /\ w.accrued \in Nat
      /\ Worth(w) \in Nat /\ Worth(w) <= supplied[p]
      /\ w.accrued <= Holds(est, p) /\ w.accrued <= interest[p]
  BY <1>1, PlannedIsThere DEF LedgerInv
<1>3. /\ supplied \in [Protocol -> Nat] /\ interest \in [Protocol -> Nat]
      /\ ledger \in [Key -> Nat] /\ est \in [Key -> Nat]
      /\ total \in Nat /\ back = total
  BY <1>1 DEF IInv, TypeOK, PlanCovers, LedgerInv, Steady
<1>4. o.receipt /\ o.mined = 1 /\ ~o.late
  BY OneCopy
<1>5. PICK m \in WithdrawMoves(1, p, Worth(w)) :
        Redeem(p, m, w.accrued) /\ back' = back + m
  BY <1>4 DEF WithdrawReal
<1>6. m = Worth(w)
  <2>1. supplied[p] \in Nat /\ "revert" \notin Faults
    BY <1>2, <1>3 DEF Faultless
  <2>2. m \in Moves(1, Worth(w), supplied[p])
    BY <1>5 DEF WithdrawMoves
  <2> QED BY <1>2, <2>1, <2>2, MovesAll
<1>7. w.accrued > 0 /\ w.accrued = est[<<p, q>>] /\ w.deposited = ledger[<<p, q>>]
  BY <1>1 DEF PlanCovers, At
<1>8. /\ supplied' = [supplied EXCEPT ![p] = @ - Worth(w)]
      /\ interest' = [interest EXCEPT ![p] = @ - w.accrued]
  <2>1. Worth(w) # 0 /\ interest[p] \in Nat
    BY <1>2, <1>3, <1>7 DEF Worth
  <2>2. Least(interest[p], w.accrued) = w.accrued
    BY <1>2, <2>1 DEF Least
  <2> QED BY <1>5, <1>6, <2>1, <2>2 DEF Redeem
<1>9. /\ pc' = "untrack" /\ cur' = w /\ todo' = todo \ {w}
      /\ UNCHANGED <<ledger, key, pending, sig, amt>>
      /\ total' = total + Worth(w) /\ back' = total + Worth(w)
  BY <1>3, <1>4, <1>5, <1>6 DEF WithdrawReal, Leftover, books
<1>10. Backed'
  <2> SUFFICES ASSUME NEW r \in Protocol
               PROVE  supplied'[r] + Ahead(r)' = Holds(ledger, r) + interest'[r]
    BY <1>9 DEF Backed
  <2>1. /\ supplied[r] + 0 = Holds(ledger, r) + interest[r]
        /\ supplied[r] \in Nat /\ interest[r] \in Nat
    BY <1>3 DEF LedgerInv, Backed, Ahead
  <2>2. Holds(ledger, r) \in Nat
    BY <1>3, HoldsType
  <2>3. CASE r = p
    <3>1. Ahead(r)' = w.deposited
      BY <1>9, <2>3 DEF Ahead
    <3>2. /\ supplied'[r] = supplied[r] - (w.deposited + w.accrued)
          /\ interest'[r] = interest[r] - w.accrued
      BY <1>2, <1>3, <1>8, <2>3 DEF Worth
    <3> QED BY <1>2, <2>1, <2>2, <3>1, <3>2
  <2>4. CASE r # p
    <3>1. Ahead(r)' = 0
      BY <1>9, <2>4 DEF Ahead
    <3> QED BY <1>3, <1>8, <2>1, <2>4, <3>1
  <2> QED BY <2>3, <2>4
<1>11. Steady'
  BY <1>7, <1>9 DEF LedgerInv, Steady, At
<1>12. Planned'
  <2>1. PICK rest : rest = Put(est, p, q, 0)
    OBVIOUS
  <2>2. /\ rest \in [Key -> Nat]
        /\ Holds(rest, p) = (Holds(est, p) - est[<<p, q>>]) + 0
        /\ \A r \in Protocol : r # p => Holds(rest, r) = Holds(est, r)
    <3>1. 0 \in Nat
      OBVIOUS
    <3> QED BY <1>2, <1>3, <2>1, <3>1, HoldsExcept, SMTT(60)
  <2>3. ASSUME NEW r \in Protocol PROVE Holds(rest, r) <= interest'[r]
    <3>1. Holds(est, r) <= interest[r] /\ interest[r] \in Nat
      BY <1>1, <1>3 DEF PlanCovers
    <3>2. Holds(est, r) \in Nat
      BY <1>3, HoldsType
    <3>3. CASE r = p
      <4>1. interest'[r] = interest[r] - w.accrued
        BY <1>2, <1>3, <1>8, <3>3
      <4>2. Holds(rest, r) = Holds(est, r) - w.accrued
        BY <1>2, <1>7, <2>2, <3>2, <3>3
      <4> QED BY <1>2, <3>1, <3>2, <4>1, <4>2
    <3>4. CASE r # p
      BY <1>3, <1>8, <2>2, <3>1, <3>4
    <3> QED BY <3>3, <3>4
  <2>4. ASSUME NEW v \in todo'
        PROVE  /\ v.accrued > 0 /\ v.accrued = rest[At(v)]
               /\ v.deposited = ledger'[At(v)]
               /\ At(v) # At(w)
    <3>1. v \in todo /\ v # w
      BY <1>9
    <3>2. At(v) # At(w)
      BY <1>1, <3>1, PlannedOnce
    <3>3. v.accrued > 0 /\ v.accrued = est[At(v)] /\ v.deposited = ledger[At(v)]
      BY <1>1, <3>1 DEF PlanCovers
    <3>4. At(v) \in Key /\ At(w) = <<p, q>>
      BY <3>1 DEF At, Key, IInv, TypeOK, Withdrawals
    <3>5. rest[At(v)] = est[At(v)]
      BY <1>3, <2>1, <3>2, <3>4 DEF Put
    <3> QED BY <1>9, <3>2, <3>3, <3>5
  <2>5. PlanCovers(rest)'
    BY <1>9, <2>2, <2>3, <2>4 DEF PlanCovers
  <2> QED BY <2>5 DEF Planned
<1> QED BY <1>10, <1>11, <1>12 DEF LedgerInv
(* Of the ways to treat a withdrawal only the real one changes anything.   *)
LEMMA WithdrawLedger ==
  ASSUME Faultless, IInv, LedgerInv, NEW w \in todo, Withdraw(w)
  PROVE  LedgerInv'
<1>1. CASE SkipWithdrawal(w)
  <2>1. /\ UNCHANGED <<supplied, interest, ledger, key, pending, allowance, pc,
                       cur, total, sig, amt, back>>
        /\ pc = "withdraw" /\ todo' = todo \ {w}
    BY <1>1 DEF Withdraw, SkipWithdrawal, chain, books
  <2>2. ASSUME NEW est, PlanCovers(est) PROVE PlanCovers(est)'
    BY <2>1, <2>2 DEF PlanCovers
  <2>3. Backed'
    BY <2>1 DEF LedgerInv, Backed, Ahead
  <2> QED BY <2>1, <2>2, <2>3 DEF LedgerInv, Planned, Steady
<1>2. CASE WithdrawSimulated(w) \/ WithdrawUnsupported(w)
  <2>1. w.protocol \in Protocol
    BY DEF IInv, TypeOK, Withdrawals
  <2> QED BY <1>2, <2>1
          DEF WithdrawSimulated, WithdrawUnsupported, LedgerInv, Steady, Faultless
<1>3. CASE \E o \in Outcomes : WithdrawReal(w, o)
  BY <1>3, RealWithdrawalLedger DEF Withdraw
<1> QED BY <1>1, <1>2, <1>3 DEF Withdraw

(* track_withdrawal takes the position out, its yield notwithstanding.     *)
LEMMA TrackWithdrawalLedger ==
  ASSUME IInv, LedgerInv, TrackWithdrawal
  PROVE  LedgerInv'
<1> DEFINE p == cur.protocol
           q == cur.pool
<1>1. /\ p \in Protocol /\ q \in Pool
      /\ cur.deposited \in Nat /\ cur.accrued \in Nat
      /\ ledger \in [Key -> Nat] /\ <<p, q>> \in Key
      /\ supplied \in [Protocol -> Nat] /\ interest \in [Protocol -> Nat]
  BY DEF IInv, TypeOK, TrackWithdrawal, WithdrawalPresent, Withdrawals, Key
<1>2. cur.deposited = ledger[<<p, q>>] /\ cur.accrued > 0
  BY DEF TrackWithdrawal, LedgerInv, Steady, At
<1>3. ledger' = Put(ledger, p, q, 0)
  <2>1. ~(ledger[<<p, q>>] > Worth(cur))
    BY <1>1, <1>2 DEF Worth
  <2>2. ledger' = Untracked(ledger, <<p, q>>, Worth(cur))
    BY DEF TrackWithdrawal
  <2> QED BY <1>1, <2>1, <2>2 DEF Untracked, Put
<1>4. /\ pc = "untrack" /\ pc' = "withdraw"
      /\ UNCHANGED <<supplied, interest, allowance, pending, key, todo, total,
                     sig, amt, back>>
  BY DEF TrackWithdrawal, chain
<1>5. /\ Holds(ledger', p) = (Holds(ledger, p) - cur.deposited) + 0
      /\ \A r \in Protocol : r # p => Holds(ledger', r) = Holds(ledger, r)
  <2>1. 0 \in Nat
    OBVIOUS
  <2> QED BY <1>1, <1>2, <1>3, <2>1, HoldsExcept
<1>6. Backed'
  <2> SUFFICES ASSUME NEW r \in Protocol
               PROVE  supplied[r] + Ahead(r)' = Holds(ledger', r) + interest[r]
    BY <1>4 DEF Backed, Holds, Row
  <2>1. /\ supplied[r] \in Nat /\ interest[r] \in Nat /\ Holds(ledger, r) \in Nat
        /\ Ahead(r)' = 0
    BY <1>1, <1>4, HoldsType DEF Ahead
  <2>2. supplied[r] + Ahead(r) = Holds(ledger, r) + interest[r]
    BY DEF LedgerInv, Backed
  <2>3. Ahead(r) = IF r = p THEN cur.deposited ELSE 0
    BY <1>4 DEF Ahead
  <2>4. CASE r = p
    BY <1>1, <1>5, <2>1, <2>2, <2>3, <2>4
  <2>5. CASE r # p
    BY <1>5, <2>1, <2>2, <2>3, <2>5
  <2> QED BY <2>4, <2>5
<1>7. Planned'
  <2>1. PICK est : PlanCovers(est)
    BY DEF LedgerInv, Planned
  <2>2. ASSUME NEW w \in todo PROVE ledger'[At(w)] = ledger[At(w)]
    <3>1. At(w) # <<p, q>> /\ At(w) \in Key
      BY <1>4, <2>1 DEF PlanCovers, At, Key, IInv, TypeOK, Withdrawals
    <3> QED BY <1>1, <1>3, <3>1 DEF Put
  <2>3. PlanCovers(est)'
    BY <1>4, <2>1, <2>2 DEF PlanCovers
  <2> QED BY <2>3 DEF Planned
<1>8. Steady'
  BY <1>4 DEF LedgerInv, Steady
<1> QED BY <1>6, <1>7, <1>8 DEF LedgerInv

(* track_deposit counts the amount before it is deposited.                 *)
LEMMA TrackDepositLedger ==
  ASSUME IInv, LedgerInv, TrackDeposit
  PROVE  LedgerInv'
<1> DEFINE p == sig.protocol
           q == sig.pool
<1>1. /\ p \in Protocol /\ q \in Pool /\ sig.amount \in Nat /\ total \in Nat
      /\ ledger \in [Key -> Nat] /\ <<p, q>> \in Key
      /\ supplied \in [Protocol -> Nat] /\ interest \in [Protocol -> Nat]
  BY ExecutorAssumption DEF IInv, TypeOK, TrackDeposit, GatesPassed, Signals, Key
<1>2. /\ pc = "withdraw" /\ pc' = "limits" /\ todo = {} /\ amt' \in Nat
      /\ ledger' = Put(ledger, p, q, ledger[<<p, q>>] + amt')
      /\ UNCHANGED <<supplied, interest, allowance, pending, key, todo, total,
                     sig, back>>
  BY <1>1 DEF TrackDeposit, GatesPassed, Gate, chain, Tracked, Put
<1>3. /\ Holds(ledger', p) =
           (Holds(ledger, p) - ledger[<<p, q>>]) + (ledger[<<p, q>>] + amt')
      /\ \A r \in Protocol : r # p => Holds(ledger', r) = Holds(ledger, r)
  <2> DEFINE n == ledger[<<p, q>>] + amt'
  <2>1. n \in Nat /\ ledger' = Put(ledger, p, q, n)
    BY <1>1, <1>2
  <2> HIDE DEF n
  <2>2. /\ Holds(ledger', p) = (Holds(ledger, p) - ledger[<<p, q>>]) + n
        /\ \A r \in Protocol : r # p => Holds(ledger', r) = Holds(ledger, r)
    BY <1>1, <2>1, HoldsExcept
  <2> QED BY <2>2 DEF n
<1>4. Backed'
  <2> SUFFICES ASSUME NEW r \in Protocol
               PROVE  supplied[r] + Ahead(r)' = Holds(ledger', r) + interest[r]
    BY <1>2 DEF Backed, Holds, Row
  <2>1. /\ supplied[r] \in Nat /\ interest[r] \in Nat /\ Holds(ledger, r) \in Nat
        /\ Ahead(r)' = IF r = p THEN amt' ELSE 0
        /\ ledger[<<p, q>>] \in Nat
    BY <1>1, <1>2, HoldsType DEF Ahead
  <2>2. supplied[r] + 0 = Holds(ledger, r) + interest[r]
    BY <1>2 DEF LedgerInv, Backed, Ahead
  <2>3. CASE r = p
    BY <1>2, <1>3, <2>1, <2>2, <2>3
  <2>4. CASE r # p
    BY <1>3, <2>1, <2>2, <2>4
  <2> QED BY <2>3, <2>4
<1>5. Planned'
  <2>1. PICK est : PlanCovers(est)
    BY DEF LedgerInv, Planned
  <2>2. PlanCovers(est)'
    BY <1>2, <2>1 DEF PlanCovers
  <2> QED BY <2>2 DEF Planned
<1>6. Steady'
  BY <1>2 DEF LedgerInv, Steady
<1> QED BY <1>4, <1>5, <1>6 DEF LedgerInv

(* The deposit arrives in full.                                            *)
LEMMA DepositLedger ==
  ASSUME Faultless, Unhindered, IInv, LedgerInv, NEW o \in Outcomes, Deposit(o)
  PROVE  LedgerInv'
<1> DEFINE p == sig.protocol
<1>1. /\ p \in Protocol /\ amt \in Nat /\ wallet \in Nat
      /\ amt <= wallet /\ allowance[p] = amt
      /\ supplied \in [Protocol -> Nat] /\ interest \in [Protocol -> Nat]
      /\ ledger \in [Key -> Nat]
  BY DEF Deposit, IInv, TypeOK, SignalPresent, Signals, Unhindered, LedgerInv, Steady
<1>2. o.receipt /\ o.mined = 1 /\ ~o.late
  BY OneCopy
<1>3. PICK m \in DepositMoves(1, p, amt) : Supply(p, m)
  BY <1>2 DEF Deposit
<1>4. m = amt
  <2>1. Least(wallet, allowance[p]) = amt
    BY <1>1 DEF Least
  <2>2. m \in Moves(1, amt, amt) /\ amt <= amt /\ "revert" \notin Faults
    BY <1>1, <2>1 DEF DepositMoves, Faultless
  <2> QED BY <1>1, <2>2, MovesAll
<1>5. /\ pc = "deposit" /\ pc' = "record"
      /\ supplied' = [supplied EXCEPT ![p] = @ + amt]
      /\ UNCHANGED <<interest, ledger, key, pending, todo, cur, total, sig, amt, back>>
  BY <1>2, <1>3, <1>4 DEF Deposit, Supply, Finish, Leftover, books, local
<1>6. Backed'
  <2> SUFFICES ASSUME NEW r \in Protocol
               PROVE  supplied'[r] + Ahead(r)' = Holds(ledger, r) + interest[r]
    BY <1>5 DEF Backed
  <2>1. /\ supplied[r] \in Nat /\ interest[r] \in Nat /\ Holds(ledger, r) \in Nat
        /\ Ahead(r)' = 0
    BY <1>1, <1>5, HoldsType DEF Ahead
  <2>2. /\ supplied[r] + Ahead(r) = Holds(ledger, r) + interest[r]
        /\ Ahead(r) = IF r = p THEN amt ELSE 0
    BY <1>5 DEF LedgerInv, Backed, Ahead
  <2>3. supplied'[r] = IF r = p THEN supplied[r] + amt ELSE supplied[r]
    BY <1>1, <1>5
  <2> QED BY <1>1, <2>1, <2>2, <2>3
<1>7. Planned'
  <2>1. PICK est : PlanCovers(est)
    BY DEF LedgerInv, Planned
  <2>2. PlanCovers(est)'
    BY <1>5, <2>1 DEF PlanCovers
  <2> QED BY <2>2 DEF Planned
<1>8. Steady'
  BY <1>5 DEF LedgerInv, Steady
<1> QED BY <1>6, <1>7, <1>8 DEF LedgerInv
(* The checks in between, the approval and the row.                        *)
LEMMA PassingLedger ==
  ASSUME Faultless, Unhindered, IInv, LedgerInv,
         \/ NoSignal \/ SlippageBlocked \/ NoKey \/ LimitBlocked \/ CapBlocked
         \/ LimitsPassed \/ NoGas \/ CallFails \/ UnknownProtocol \/ FundsPassed
         \/ NoDepositHandler \/ SaveTrade
         \/ \E o \in Outcomes : Approve(o)
  PROVE  LedgerInv'
<1> USE DEF chain, books, local
<1>1. /\ UNCHANGED <<supplied, interest, ledger, key, pending, todo, total, sig,
                     amt, back>>
      /\ pc = "withdraw" => todo = {}
      /\ pc # "untrack" /\ pc' # "untrack" /\ pc' # "withdraw"
      /\ pc \in {"limits", "funds", "approve", "deposit"}
           <=> pc' \in {"limits", "funds", "approve", "deposit"}
      /\ pc' = "deposit" => allowance'[sig.protocol] = amt
  <2>1. CASE NoSignal \/ SlippageBlocked
    BY <2>1 DEF NoSignal, SlippageBlocked, Gate
  <2>2. CASE NoKey \/ UnknownProtocol \/ NoDepositHandler
    <3>1. key /\ (pc \in {"funds", "deposit"} => sig.protocol \in Protocol)
      BY DEF LedgerInv, Steady, IInv, SignalPresent, Signals
    <3> QED BY <2>2, <3>1, ExecutorAssumption
            DEF NoKey, UnknownProtocol, NoDepositHandler, Faultless
  <2>3. CASE LimitBlocked \/ CapBlocked \/ NoGas \/ CallFails
    <3>1. ~(LimitBlocked \/ CapBlocked)
      BY ExecutorAssumption, SMTT(60)
         DEF LimitBlocked, CapBlocked, Unhindered, IInv, TypeOK
    <3> QED BY <2>3, <3>1 DEF NoGas, CallFails, Faultless
  <2>4. CASE LimitsPassed \/ FundsPassed \/ SaveTrade
    BY <2>4 DEF LimitsPassed, FundsPassed, SaveTrade
  <2>5. CASE \E o \in Outcomes : Approve(o)
    <3>1. PICK o \in Outcomes : Approve(o)
      BY <2>5
    <3>2. o.receipt /\ o.mined = 1 /\ ~o.late
      BY OneCopy
    <3>3. /\ sig.protocol \in Protocol
          /\ allowance \in [Protocol -> Nat]
      BY <3>1 DEF Approve, IInv, TypeOK, SignalPresent, Signals
    <3> QED BY <3>1, <3>2, <3>3 DEF Approve, Allow, Leftover
  <2> QED BY <2>1, <2>2, <2>3, <2>4, <2>5
<1>2. Backed'
  BY <1>1 DEF LedgerInv, Backed, Ahead
<1>3. Planned'
  <2>1. PICK est : PlanCovers(est)
    BY DEF LedgerInv, Planned
  <2>2. PlanCovers(est)'
    BY <1>1, <2>1 DEF PlanCovers
  <2> QED BY <2>2 DEF Planned
<1>4. Steady'
  BY <1>1 DEF LedgerInv, Steady
<1> QED BY <1>2, <1>3, <1>4 DEF LedgerInv

(* Interest is paid to both sides; nothing else of what may happen around  *)
(* the agent does without a fault.                                         *)
LEMMA EnvironmentLedger ==
  ASSUME Faultless, IInv, LedgerInv, Environment
  PROVE  LedgerInv'
<1> USE DEF chain, books, local
<1>1. PICK est : PlanCovers(est)
  BY DEF LedgerInv, Planned
<1>2. CASE Midnight \/ Stopped
  <2>1. UNCHANGED <<supplied, interest, ledger, key, pending, allowance, pc, cur,
                    todo, total, sig, amt, back>>
    BY <1>2 DEF Midnight, Stopped, vars
  <2>2. PlanCovers(est)' /\ Backed' /\ Steady'
    BY <1>1, <2>1 DEF PlanCovers, LedgerInv, Backed, Ahead, Steady
  <2> QED BY <2>2 DEF LedgerInv, Planned
<1>3. CASE \E p \in Protocol : PayInterest(p)
  <2>1. PICK p \in Protocol : PayInterest(p)
    BY <1>3
  <2>2. /\ supplied' = [supplied EXCEPT ![p] = @ + 1]
        /\ interest' = [interest EXCEPT ![p] = @ + 1]
        /\ UNCHANGED <<ledger, key, pending, allowance, pc, cur, todo, total, sig,
                       amt, back>>
    BY <2>1 DEF PayInterest
  <2>3. ASSUME NEW r \in Protocol
        PROVE  /\ supplied[r] \in Nat /\ interest[r] \in Nat
               /\ \/ supplied'[r] = supplied[r] /\ interest'[r] = interest[r]
                  \/ supplied'[r] = supplied[r] + 1 /\ interest'[r] = interest[r] + 1
    BY <2>2 DEF IInv, TypeOK
  <2>4. Backed'
    <3> SUFFICES ASSUME NEW r \in Protocol
                 PROVE  supplied'[r] + Ahead(r) = Holds(ledger, r) + interest'[r]
      BY <2>2 DEF Backed, Ahead
    <3>1. supplied[r] + Ahead(r) = Holds(ledger, r) + interest[r]
      BY DEF LedgerInv, Backed
    <3>2. Ahead(r) \in Nat
      BY DEF Ahead, IInv, TypeOK, WithdrawalPresent, Withdrawals
    <3>3. Holds(ledger, r) \in Nat
      BY HoldsType DEF IInv, TypeOK
    <3> QED BY <2>3, <3>1, <3>2, <3>3
  <2>5. PlanCovers(est)'
    <3>1. ASSUME NEW r \in Protocol PROVE Holds(est, r) <= interest'[r]
      <4>1. Holds(est, r) \in Nat /\ Holds(est, r) <= interest[r]
        BY <1>1, HoldsType DEF PlanCovers
      <4> QED BY <2>3, <4>1
    <3> QED BY <1>1, <2>2, <3>1 DEF PlanCovers
  <2> QED BY <2>2, <2>4, <2>5 DEF LedgerInv, Planned, Steady
<1>4. ~(MinedLate \/ Dropped \/ Crash \/ Rekey)
  BY DEF LedgerInv, Steady, MinedLate, Dropped, Crash, Rekey, Faultless
<1> QED BY <1>2, <1>3, <1>4 DEF Environment

(* Every step keeps the ledger equal to the chain, when calls do what they *)
(* report and no deposit is refused after its withdrawals.                 *)
LEMMA LedgerSteps ==
  Faultless /\ Unhindered /\ IInv /\ LedgerInv /\ [Next]_vars => LedgerInv'
<1> SUFFICES ASSUME Faultless, Unhindered, IInv, LedgerInv, [Next]_vars
             PROVE  LedgerInv'
  OBVIOUS
<1>1. CASE UNCHANGED vars
  <2>1. PICK est : PlanCovers(est)
    BY DEF LedgerInv, Planned
  <2>2. PlanCovers(est)' /\ Backed' /\ Steady'
    BY <1>1, <2>1 DEF vars, chain, books, local, PlanCovers, LedgerInv, Backed,
                      Ahead, Steady
  <2> QED BY <2>2 DEF LedgerInv, Planned
<1>2. CASE \E est \in Estimates, s \in Signals \cup {None} : StartCycle(est, s)
  BY <1>2, StartCycleLedger
<1>3. CASE Environment
  BY <1>3, EnvironmentLedger
<1>4. CASE Agent
  BY <1>4, WithdrawLedger, TrackWithdrawalLedger, TrackDepositLedger,
     DepositLedger, PassingLedger DEF Agent
<1> QED BY <1>1, <1>2, <1>3, <1>4 DEF Next

(* At the start the ledger is what the chain holds.                        *)
LEMMA LedgerStarts == Faultless /\ Init => LedgerInv
<1> SUFFICES ASSUME Faultless, Init PROVE LedgerInv
  OBVIOUS
<1>1. EmptyLedger \in [Key -> Nat]
  BY DEF EmptyLedger
<1>2. ASSUME NEW p \in Protocol PROVE Holds(EmptyLedger, p) = 0
  <2>1. \A q \in Pool : Row(EmptyLedger, p)[q] \in {0}
    BY DEF Row, EmptyLedger, Key
  <2>2. Row(EmptyLedger, p) \in [Pool -> {0}]
    BY <2>1 DEF Row
  <2>3. Additive({0}) /\ IsFiniteSet(Pool)
    BY ExecutorAssumption DEF Additive
  <2>4. SumOf(Row(EmptyLedger, p)) \in {0}
    BY <2>2, <2>3, SumOfType
  <2> QED BY <2>4 DEF Holds
<1>3. Backed
  BY <1>2 DEF Init, Backed, Ahead
<1>4. PlanCovers(EmptyLedger)
  BY <1>1, <1>2 DEF Init, PlanCovers
<1>5. Steady
  BY DEF Init, Steady, Faultless
<1> QED BY <1>3, <1>4, <1>5 DEF LedgerInv, Planned

(* The ledger tells of the chain at all times, as long as nothing hinders  *)
(* a deposit whose withdrawals are through.                                *)
LEMMA LedgerInvariance ==
  ASSUME Faultless
  PROVE  Spec /\ []Unhindered => []LedgerInv
<1>1. Init => LedgerInv
  BY LedgerStarts
<1>2. Unhindered /\ IInv /\ LedgerInv /\ [Next]_vars => LedgerInv'
  BY LedgerSteps
<1> QED BY <1>1, <1>2, Invariance, PTL DEF Spec

(* Between cycles each protocol holds the sum of its positions and the     *)
(* interest not yet withdrawn, however the withdrawals, the deposits and   *)
(* the interest fall, when no fault comes between and no deposit is        *)
(* refused after it was counted (harvester.py:72-101 against               *)
(* executor.py:476-612).                                                   *)
THEOREM LedgerIsChain ==
  ASSUME Faultless
  PROVE  Spec /\ []Unhindered => []LedgerMatchesChain
<1>1. IInv /\ LedgerInv => LedgerMatchesChain
  <2> SUFFICES ASSUME IInv, LedgerInv, pc = "idle", NEW p \in Protocol
               PROVE  supplied[p] = Principal(p) + interest[p]
    BY DEF LedgerMatchesChain
  <2>1. supplied[p] + 0 = Holds(ledger, p) + interest[p] /\ supplied[p] \in Nat
    BY DEF LedgerInv, Backed, Ahead, IInv, TypeOK
  <2>2. Principal(p) = Holds(ledger, p)
    BY HoldsIsSum DEF Principal
  <2> QED BY <2>1, <2>2
<1> QED BY <1>1, Invariance, LedgerInvariance, PTL

(* Then the capital added to a deposit is what the withdrawals of the same *)
(* cycle returned (executor.py:126-179, 490).                              *)
THEOREM WithdrawnIsReinvested ==
  ASSUME Faultless
  PROVE  Spec /\ []Unhindered => []ReinvestsWhatItWithdrew
<1>1. LedgerInv => ReinvestsWhatItWithdrew
  BY DEF LedgerInv, Steady, ReinvestsWhatItWithdrew
<1> QED BY <1>1, LedgerInvariance, PTL
=============================================================================
