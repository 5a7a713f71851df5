------------------------------ MODULE Executor ------------------------------
(***************************************************************************)
(* One agent process driving src/agent/nodes/executor.py, the position     *)
(* ledger it keeps through src/agent/nodes/harvester.py, and the part of   *)
(* the chain the two of them move money on.                                *)
(*                                                                         *)
(* A cycle is one pass of harvest() and execute(): plan the withdrawals,   *)
(* perform them one by one, pass the gates, record the deposit in the      *)
(* ledger, check the limits, approve, deposit, and let the caller's loop   *)
(* record the trade.  The model takes one step wherever the code touches   *)
(* the chain, the ledger file or the trade table, so that a crash, a lost  *)
(* answer or a transaction mined late can fall between any two of them.    *)
(*                                                                         *)
(* Amounts are small naturals (USDC units).  A position of amount 0 and an *)
(* absent position behave alike (neither is ever harvested) and are not    *)
(* told apart.                                                             *)
(***************************************************************************)
EXTENDS Naturals, Sequences, FiniteSets, Functions, SequencesExt, SendOutcome

CONSTANTS
  Protocol,       \* protocol names a signal or a position may carry
  Pool,           \* pool labels
  Known,          \* protocols with an entry in PROTOCOL_ADDRESSES
  Depositable,    \* protocols build_deposit_tx has a call for
  Withdrawable,   \* protocols build_withdraw_tx has a call for
  Amounts,        \* amounts the signaler may ask for
  Depth,          \* per protocol and pool: the largest trade within 100 bps
                  \* of the pool's TVL, or 0 when there is no TVL figure
  Threshold,      \* MIN_HARVEST_THRESHOLD
  MaxEstimate,    \* bound on the yield estimated for one position
  MaxTx,          \* MAX_TX_AMOUNT
  DailyCap,       \* DAILY_TX_LIMIT
  TradeWindow,    \* get_recent_trades(limit=100)
  MaxAttempts,    \* max_retries + 1 sends of one transaction
  InitialWallet,  \* USDC in the wallet at the start
  MaxCycles,      \* bound on the number of cycles
  MaxInterest,    \* bound on the interest the chain pays a protocol's position
  Faults,         \* what may go wrong, a subset of FaultKinds
  None            \* Python's None

FaultKinds == { "revert",        \* a transaction is mined but reverts
                "rpc",           \* a call fails before anything is broadcast
                "lost",          \* a call fails after the broadcast
                "crash",         \* the process dies between two steps
                "nogas",         \* the wallet runs out of ETH
                "nodb",          \* the trade table cannot be read
                "unrecorded",    \* save_trade raises and the loop goes on
                "rekey",         \* PRIVATE_KEY is set or removed at a restart
                "overestimate" } \* the yield estimate exceeds the interest

Key == Protocol \X Pool

ASSUME ExecutorAssumption ==
  /\ IsFiniteSet(Pool)
  /\ Known \subseteq Protocol
  /\ Depositable \subseteq Protocol /\ Withdrawable \subseteq Protocol
  /\ Amounts \subseteq Nat
  /\ Depth \in [Key -> Nat]
  /\ {Threshold, MaxEstimate, MaxTx, DailyCap, TradeWindow, InitialWallet,
      MaxCycles, MaxInterest} \subseteq Nat
  /\ MaxAttempts \in Nat \ {0}
  /\ Faults \subseteq FaultKinds

VARIABLES
  ledger,     \* the positions file: amount per protocol and pool
  wallet,     \* USDC of the agent's address
  supplied,   \* USDC the protocol holds for the agent
  allowance,  \* what the protocol may still pull from the wallet
  pending,    \* a broadcast transaction nobody waits for any more
  trades,     \* amounts of today's rows of the trade table
  key,        \* PRIVATE_KEY is set
  pc,         \* where the cycle is
  todo,       \* positions of harvest_signal still to be withdrawn
  cur,        \* the withdrawal sent, its position not yet reduced
  total,      \* total_withdrawn
  sig,        \* the deposit signal
  amt,        \* the amount of the deposit, then of tx_result
  back,       \* observer: USDC the cycle's withdrawals really returned
  drawn,      \* observer: USDC pulled under the last approval
  spent,      \* observer: USDC deposited on chain today
  interest,   \* observer: interest paid by the chain, not withdrawn
  cycles      \* cycles started

chain == <<wallet, supplied, allowance, pending, drawn, spent, interest>>
books == <<ledger, trades>>
local == <<todo, cur, total, sig, amt, back>>
vars  == <<chain, books, local, key, pc, cycles>>

Withdrawals == [protocol: Protocol, pool: Pool, deposited: Nat, accrued: Nat]
Signals == [protocol: Protocol, pool: Pool, amount: Amounts]
Txs == [kind: {"approve", "deposit", "withdraw"}, protocol: Protocol, amount: Nat]

TypeOK ==
  /\ ledger \in [Key -> Nat]
  /\ wallet \in Nat
  /\ supplied \in [Protocol -> Nat]
  /\ allowance \in [Protocol -> Nat]
  /\ pending \in Txs \cup {None}
  /\ trades \in Seq(Nat)
  /\ key \in BOOLEAN
  /\ pc \in {"idle", "withdraw", "untrack", "limits", "funds", "approve",
             "deposit", "record"}
  /\ todo \subseteq Withdrawals
  /\ cur \in Withdrawals \cup {None}
  /\ total \in Nat
  /\ sig \in Signals \cup {None}
  /\ amt \in Nat
  /\ back \in Nat
  /\ drawn \in [Protocol -> Nat]
  /\ spent \in Nat
  /\ interest \in [Protocol -> Nat]
  /\ cycles \in Nat

-----------------------------------------------------------------------------
(* The ledger file.                                                        *)

Tracked(l, k, n) == [l EXCEPT ![k] = @ + n]                \* track_deposit

Untracked(l, k, n) ==                                    \* track_withdrawal
  [l EXCEPT ![k] = IF @ > n THEN @ - n ELSE 0]

EmptyLedger == [k \in Key |-> 0]

(* What the chain makes of a transaction.                                  *)

(* The sums n mined copies of one transaction of amount a may move when    *)
(* the chain lets at most limit move: without the revert fault every copy  *)
(* that fits takes effect.                                                 *)
Moves(n, a, limit) ==
  { e * a : e \in { e \in 0..n :
      /\ e * a <= limit
      /\ "revert" \notin Faults => e = n \/ (e + 1) * a > limit } }

Least(a, b) == IF a <= b THEN a ELSE b

Supply(p, m) ==                      \* m USDC pulled from the wallet into p
  /\ wallet' = wallet - m
  /\ allowance' = [allowance EXCEPT ![p] = @ - m]
  /\ supplied' = [supplied EXCEPT ![p] = @ + m]
  /\ drawn' = [drawn EXCEPT ![p] = @ + m]
  /\ spent' = spent + m
  /\ UNCHANGED interest

Redeem(p, m, yield) ==               \* m USDC, yield of it interest, paid out
  /\ wallet' = wallet + m
  /\ supplied' = [supplied EXCEPT ![p] = @ - m]
  /\ interest' = [interest EXCEPT
       ![p] = IF m = 0 THEN @ ELSE @ - Least(@, yield)]
  /\ UNCHANGED <<allowance, drawn, spent>>

AllowMore(p, a) ==                              \* a mutant: increaseAllowance
  /\ allowance' = [allowance EXCEPT ![p] = @ + a]
  /\ drawn' = [drawn EXCEPT ![p] = 0]
  /\ UNCHANGED <<wallet, supplied, spent, interest>>

Allow(p, a) ==
  /\ allowance' = [allowance EXCEPT ![p] = a]
  /\ drawn' = [drawn EXCEPT ![p] = 0]
  /\ UNCHANGED <<wallet, supplied, spent, interest>>

DepositMoves(n, p, a) == Moves(n, a, Least(wallet, allowance[p]))
WithdrawMoves(n, p, a) == Moves(n, a, supplied[p])

(* _send_transaction_with_retry as its callers see it: whether it returned *)
(* a receipt, how many copies of the transaction were mined meanwhile, and *)
(* whether one more is still in the mempool.  A receipt belongs to a mined *)
(* copy, and every transaction sent before it has been mined or replaced,  *)
(* nonces being consecutive: module TxSender.                              *)
Outcomes ==
  { o \in [receipt: BOOLEAN, mined: 0..MaxAttempts, late: BOOLEAN] :
      /\ OutcomeAllowed(o, MaxAttempts, "lost" \in Faults)
      /\ ~o.receipt => Faults \cap {"rpc", "lost"} # {}
      /\ o.mined > 0 => pending = None }

Leftover(o, kind, p, a) ==
  pending' = IF o.late THEN [kind |-> kind, protocol |-> p, amount |-> a]
                       ELSE pending

-----------------------------------------------------------------------------
Init ==
  /\ ledger = EmptyLedger
  /\ wallet = InitialWallet
  /\ supplied = [p \in Protocol |-> 0]
  /\ allowance = [p \in Protocol |-> 0]
  /\ pending = None
  /\ trades = <<>>
  /\ key \in BOOLEAN
  /\ "rekey" \notin Faults => key
  /\ pc = "idle"
  /\ todo = {} /\ cur = None /\ total = 0 /\ sig = None /\ amt = 0
  /\ back = 0
  /\ drawn = [p \in Protocol |-> 0]
  /\ spent = 0
  /\ interest = [p \in Protocol |-> 0]
  /\ cycles = 0

Sum(f) == FoldFunction(+, 0, f)

EstimateFits(est) ==
  \A p \in Protocol : Sum([q \in Pool |-> est[<<p, q>>]]) <= interest[p]

(* harvest(): the positions with accrued yield, all of them when the total *)
(* reaches the threshold; the signaler's choice, or none when the          *)
(* collector found no pool.  est is estimate_accrued_yield per position.   *)
StartCycle(est, s) ==
  /\ pc = "idle" /\ cycles < MaxCycles
  /\ \A k \in Key : ledger[k] = 0 => est[k] = 0
  /\ "overestimate" \notin Faults => EstimateFits(est)
  /\ todo' = IF Sum(est) >= Threshold
             THEN { [protocol |-> k[1], pool |-> k[2], deposited |-> ledger[k],
                     accrued |-> est[k]] : k \in { k \in Key : est[k] > 0 } }
             ELSE {}
  /\ sig' = s
  /\ total' = 0 /\ amt' = 0 /\ back' = 0 /\ cur' = None
  /\ pc' = "withdraw"
  /\ cycles' = cycles + 1
  /\ UNCHANGED <<chain, books, key>>

(* _process_withdrawals *)

Worth(w) == w.deposited + w.accrued

TooBig(a, d) == d > 0 /\ a > d                \* estimate_slippage: > 100 bps

(* The first pool listed for the protocol counts; a protocol that is not   *)
(* among this cycle's yields has no TVL and is withdrawn from unchecked.   *)
SkipWithdrawal(w) ==
  /\ sig # None
  /\ \E q \in Pool : TooBig(Worth(w), Depth[<<w.protocol, q>>])
  /\ todo' = todo \ {w}
  /\ UNCHANGED <<chain, books, key, pc, cycles, cur, total, sig, amt, back>>

Unblocked(w) ==           \* only the signal's own protocol is sure to be listed
  sig # None /\ w.protocol = sig.protocol =>
    \E q \in Pool : ~TooBig(Worth(w), Depth[<<w.protocol, q>>])

WithdrawSimulated(w) ==
  /\ Unblocked(w) /\ ~key
  /\ todo' = todo \ {w}
  /\ total' = total + Worth(w)
  /\ ledger' = Untracked(ledger, <<w.protocol, w.pool>>, Worth(w))
  /\ UNCHANGED <<chain, trades, key, pc, cycles, cur, sig, amt, back>>

WithdrawUnsupported(w) ==      \* build_withdraw_tx returned None
  /\ Unblocked(w) /\ key
  /\ w.protocol \notin Withdrawable
  /\ todo' = todo \ {w}
  /\ total' = total + Worth(w)
  /\ UNCHANGED <<chain, books, key, pc, cycles, cur, sig, amt, back>>

WithdrawReal(w, o) ==          \* _withdraw_real, up to track_withdrawal
  /\ Unblocked(w) /\ key
  /\ w.protocol \in Withdrawable
  /\ \E m \in WithdrawMoves(o.mined, w.protocol, Worth(w)) :
       /\ Redeem(w.protocol, m, w.accrued)
       /\ back' = back + m
  /\ Leftover(o, "withdraw", w.protocol, Worth(w))
  /\ todo' = todo \ {w}
  /\ total' = total + Worth(w)
  /\ IF o.receipt THEN cur' = w /\ pc' = "untrack"
                  ELSE UNCHANGED <<cur, pc>>
  /\ UNCHANGED <<books, key, cycles, sig, amt>>

CountTwice ==       \* a mutant: the amount joins the total on success as well
  /\ pc = "untrack"
  /\ ledger' = Untracked(ledger, <<cur.protocol, cur.pool>>, Worth(cur))
  /\ cur' = None
  /\ total' = total + Worth(cur)
  /\ pc' = "withdraw"
  /\ UNCHANGED <<chain, trades, key, cycles, todo, sig, amt, back>>

TrackWithdrawal ==
  /\ pc = "untrack"
  /\ ledger' = Untracked(ledger, <<cur.protocol, cur.pool>>, Worth(cur))
  /\ cur' = None
  /\ pc' = "withdraw"
  /\ UNCHANGED <<chain, trades, key, cycles, todo, total, sig, amt, back>>

Withdraw(w) ==
  /\ pc = "withdraw"
  /\ \/ SkipWithdrawal(w)
     \/ WithdrawSimulated(w)
     \/ WithdrawUnsupported(w)
     \/ \E o \in Outcomes : WithdrawReal(w, o)

-----------------------------------------------------------------------------
(* execute(), once the withdrawals are through.                            *)

Gate == pc = "withdraw" /\ todo = {}

NoSignal ==
  /\ Gate /\ sig = None
  /\ pc' = "idle"
  /\ UNCHANGED <<chain, books, local, key, cycles>>

SlippageBlocked ==    \* its tx_result has no "action": the loop cannot save it
  /\ Gate /\ sig # None
  /\ TooBig(sig.amount, Depth[<<sig.protocol, sig.pool>>])
  /\ pc' = "idle"
  /\ UNCHANGED <<chain, books, local, key, cycles>>

GatesPassed ==
  /\ Gate /\ sig # None
  /\ ~TooBig(sig.amount, Depth[<<sig.protocol, sig.pool>>])

Simulate ==                                  \* _simulate, from every caller
  /\ ledger' = Tracked(ledger, <<sig.protocol, sig.pool>>, sig.amount)
  /\ amt' = sig.amount
  /\ pc' = "record"
  /\ UNCHANGED <<chain, trades, key, cycles, todo, cur, total, sig, back>>

NoKey == GatesPassed /\ ~key /\ Simulate

TrackSignalOnly ==          \* a mutant: the ledger misses the extra capital
  /\ GatesPassed /\ key
  /\ amt' = sig.amount + total
  /\ ledger' = Tracked(ledger, <<sig.protocol, sig.pool>>, sig.amount)
  /\ pc' = "limits"
  /\ UNCHANGED <<chain, trades, key, cycles, todo, cur, total, sig, back>>

(* _execute_real: track_deposit comes first. *)
TrackDeposit ==
  /\ GatesPassed /\ key
  /\ amt' = sig.amount + total
  /\ ledger' = Tracked(ledger, <<sig.protocol, sig.pool>>, amt')
  /\ pc' = "limits"
  /\ UNCHANGED <<chain, trades, key, cycles, todo, cur, total, sig, back>>

Finish ==                        \* return a tx_result carrying amount
  /\ pc' = "record"
  /\ UNCHANGED <<books, local, key, cycles>>

Fail ==                          \* the except clause: the signal's own amount
  /\ amt' = sig.amount
  /\ pc' = "record"
  /\ UNCHANGED <<books, key, cycles, todo, cur, total, sig, back>>

Recent == SubSeq(trades, IF Len(trades) > TradeWindow
                         THEN Len(trades) - TradeWindow + 1 ELSE 1, Len(trades))

CapUsedUp(a) ==          \* a mutant: the deposit itself is not counted
  FoldSeq(+, 0, Recent) > DailyCap

DailyCapExceeded(a) == FoldSeq(+, 0, Recent) + a > DailyCap

LimitBlocked ==
  /\ pc = "limits" /\ amt > MaxTx
  /\ Finish /\ UNCHANGED chain

CapBlocked ==
  /\ pc = "limits" /\ amt <= MaxTx
  /\ DailyCapExceeded(amt)
  /\ Finish /\ UNCHANGED chain

LimitsPassed ==             \* an unreadable trade table switches the cap off
  /\ pc = "limits" /\ amt <= MaxTx
  /\ ~DailyCapExceeded(amt) \/ "nodb" \in Faults
  /\ pc' = "funds"
  /\ UNCHANGED <<chain, books, local, key, cycles>>

NoGas ==
  /\ pc = "funds" /\ "nogas" \in Faults
  /\ Finish /\ UNCHANGED chain

CallFails ==                \* get_balance, decimals: nothing was sent yet
  /\ pc = "funds" /\ "rpc" \in Faults
  /\ Fail /\ UNCHANGED chain

UnknownProtocol ==
  /\ pc = "funds" /\ sig.protocol \notin Known
  /\ Simulate

FundsPassed ==
  /\ pc = "funds" /\ sig.protocol \in Known
  /\ pc' = "approve"
  /\ UNCHANGED <<chain, books, local, key, cycles>>

Approve(o) ==
  /\ pc = "approve"
  /\ IF o.mined > 0 THEN Allow(sig.protocol, amt)
     ELSE UNCHANGED <<wallet, supplied, allowance, drawn, spent, interest>>
  /\ Leftover(o, "approve", sig.protocol, amt)
  /\ IF o.receipt THEN pc' = "deposit" /\ UNCHANGED <<books, local, key, cycles>>
                  ELSE Fail

NoDepositHandler ==
  /\ pc = "deposit" /\ sig.protocol \notin Depositable
  /\ Simulate

Deposit(o) ==
  /\ pc = "deposit" /\ sig.protocol \in Depositable
  /\ \E m \in DepositMoves(o.mined, sig.protocol, amt) : Supply(sig.protocol, m)
  /\ Leftover(o, "deposit", sig.protocol, amt)
  /\ IF o.receipt THEN Finish ELSE Fail

SaveTrade ==                \* cli start: save_trade for the tx_result
  /\ pc = "record"
  /\ \/ trades' = Append(trades, amt)
     \/ "unrecorded" \in Faults /\ UNCHANGED trades
  /\ pc' = "idle"
  /\ UNCHANGED <<chain, ledger, local, key, cycles>>

Agent ==
  \/ \E w \in todo : Withdraw(w)
  \/ TrackWithdrawal
  \/ NoSignal
  \/ SlippageBlocked
  \/ NoKey
  \/ TrackDeposit
  \/ LimitBlocked
  \/ CapBlocked
  \/ LimitsPassed
  \/ NoGas
  \/ CallFails
  \/ UnknownProtocol
  \/ FundsPassed
  \/ \E o \in Outcomes : Approve(o)
  \/ NoDepositHandler
  \/ \E o \in Outcomes : Deposit(o)
  \/ SaveTrade

-----------------------------------------------------------------------------
(* What happens around the agent.                                          *)

Midnight ==
  /\ trades' = <<>> /\ spent' = 0
  /\ trades # <<>> \/ spent # 0
  /\ UNCHANGED <<wallet, supplied, allowance, pending, drawn, interest,
                 ledger, local, key, pc, cycles>>

PayInterest(p) ==
  /\ supplied[p] > 0 /\ interest[p] < MaxInterest
  /\ supplied' = [supplied EXCEPT ![p] = @ + 1]
  /\ interest' = [interest EXCEPT ![p] = @ + 1]
  /\ UNCHANGED <<wallet, allowance, pending, drawn, spent, books, local, key,
                 pc, cycles>>

MinedLate ==
  /\ pending # None
  /\ \/ /\ pending.kind = "approve"
        /\ Allow(pending.protocol, pending.amount)
     \/ /\ pending.kind = "deposit"
        /\ \E m \in DepositMoves(1, pending.protocol, pending.amount) :
             Supply(pending.protocol, m)
     \/ /\ pending.kind = "withdraw"
        /\ \E m \in WithdrawMoves(1, pending.protocol, pending.amount) :
             Redeem(pending.protocol, m, 0)
  /\ pending' = None
  /\ UNCHANGED <<books, local, key, pc, cycles>>

Dropped ==
  /\ pending # None
  /\ pending' = None
  /\ UNCHANGED <<wallet, supplied, allowance, drawn, spent, interest,
                 books, local, key, pc, cycles>>

(* The process dies and is restarted with what the files and the chain     *)
(* hold.  _save_ledger truncates the file before it writes it: a crash in  *)
(* a step that saves leaves an empty file, which _load_ledger reads as an  *)
(* empty ledger.                                                           *)
Saving ==
  \/ pc = "untrack"
  \/ pc = "withdraw" /\ ~key /\ todo # {}
  \/ GatesPassed
  \/ pc = "funds" /\ sig.protocol \notin Known
  \/ pc = "deposit" /\ sig.protocol \notin Depositable

Crash ==
  /\ "crash" \in Faults /\ pc # "idle"
  /\ \/ UNCHANGED ledger
     \/ Saving /\ ledger' = EmptyLedger
  /\ pc' = "idle"
  /\ todo' = {} /\ cur' = None /\ total' = 0 /\ sig' = None /\ amt' = 0
  /\ back' = 0
  /\ UNCHANGED <<chain, trades, key, cycles>>

Rekey ==                      \* stopped, .env edited, started again
  /\ "rekey" \in Faults /\ pc = "idle" /\ cycles < MaxCycles
  /\ key' = ~key
  /\ UNCHANGED <<chain, books, local, pc, cycles>>

Stopped ==                    \* the model's last cycle is over
  /\ pc = "idle" /\ cycles = MaxCycles
  /\ UNCHANGED vars

Environment ==
  \/ Midnight
  \/ \E p \in Protocol : PayInterest(p)
  \/ MinedLate
  \/ Dropped
  \/ Crash
  \/ Rekey
  \/ Stopped

Estimates == [Key -> 0..MaxEstimate]

Next ==
  \/ \E est \in Estimates, s \in Signals \cup {None} : StartCycle(est, s)
  \/ Agent
  \/ Environment

Spec == Init /\ [][Next]_vars

-----------------------------------------------------------------------------
(* Whatever fails, and however often a deposit is sent again, what one     *)
(* approval has let a protocol pull plus what it may still pull stays      *)
(* within MAX_TX_AMOUNT: retries of executor.py:666-688 cannot deposit     *)
(* more than the limit check of line 498 let through.                      *)
DrawWithinLimit ==
  \A p \in Protocol : drawn[p] + allowance[p] <= MaxTx

(* Between cycles the positions file and the chain agree: a protocol holds *)
(* exactly the sum of its positions and the interest not yet withdrawn     *)
(* (harvester.py:72-101 against executor.py:476-612).                      *)
Principal(p) == Sum([q \in Pool |-> ledger[<<p, q>>]])

LedgerMatchesChain ==
  pc = "idle" => \A p \in Protocol : supplied[p] = Principal(p) + interest[p]

(* One half of it: every position in the file is backed by funds on chain, *)
(* so a harvest withdraws what is there (harvester.py:73).                 *)
PositionsBacked ==
  pc = "idle" => \A p \in Protocol : Principal(p) <= supplied[p]

(* The extra capital added to the deposit is what the withdrawals of the   *)
(* same cycle returned (executor.py:126-179, 490).                         *)
ReinvestsWhatItWithdrew ==
  pc \in {"limits", "funds", "approve", "deposit"} => total = back

=============================================================================
