# Agent Heap in TLA+

A model of the agent of this repository: the Python pipeline that moves USDC
into lending pools, the two loops that run it (Python and Go), the books it
keeps (positions file, trade table, vector memory), several commands of one host
on the same books with the settings and keys each of them finds, the risk gate,
the buyback of its profits and the HEAP token. TLC checks each module on small
instances; TLAPS proves every safety property of the runs that hold, for every
value of the constants.

Paths below are relative to the repository; `executor.py` is
`agent/nodes/executor.py`, `start.go` is `internal/cmd/start.go`, and so on.

## 1. Inventory

### How the parts interact

    agent-heap start (Go, start.go) --subprocess--> agent/graph.py: run_agent
    agent-heap run   (Go, run.go)   --subprocess--> agent/graph.py: run_agent
    cli/main.py start (Python)      --call--------> agent/graph.py: run_agent

    run_agent:  memory.query -> collector -> harvester -> analyzer -> signaler
                -> executor -> buyback -> breaker.record_trade -> memory.store
    executor -> positions file (harvester.py), trade table (db/session.py),
                web3 (nonce, broadcast, receipt) -> token, lending protocols
    caller of run_agent -> trade table, agent_state (run: limits, no row)
    keystore or PRIVATE_KEY -> RunWithKey -> environment of the subprocess
    .env -> environment of the Python commands only

Everything below the loops is sequential. Concurrency comes from five sides:
the chain (transactions mined late, interest), signals, the goroutines of the
Go loop with its subprocesses, the death of a process between two writes, and
other commands of the host, which share the positions file and the trade table
without a lock.

| component | state | operations | what is hard | what makes it correct |
|---|---|---|---|---|
| executor, harvester | positions file, wallet, allowances, positions on chain | harvest, withdraw, gates, limits, approve, deposit | five stores changed one after the other, each step may fail | ledger = chain; limits hold; withdrawals are reinvested |
| transaction sender | nonce, attempt, mempool | send, wait, retry | a timeout racing the block | no nonce gap, bounded sends, honest answer |
| Python loop | `running`, naps, trades, agent_state, memory ids | cycle, save, sleep, signal | signals anywhere, one step of several failing | every row accounted for, no cycle after a signal, it ends |
| Go loop | `running`, mutex, channels, subprocesses, tables | tick, heartbeat, iteration, stop | goroutines, an unsynchronised flag, orphans | one subprocess, lasting stop, responsive |
| decision pipeline | state of the graph, memory | collect, analyze, size, store | stale memory, ambiguous and unmatched names, division by zero | best pool, no worse stand-in, Kelly's size |
| risk gate | trades of the last day | check, record, reset | stale sums, restarts | right after a trade, wrong by old trades only |
| buyback | accrued profit, events | record, execute, reset | a call that raises half-way, remainders, two comparisons | nothing lost, bounded reserve, answers carried out |
| HEAP token | balances, supply, allowances, owners | the ERC-20 calls, mint, burn, handover | checked arithmetic, two-step handover | supply = balances, consent |
| positions file | its text; the copy of each process in a call | load and change, truncate, write | calls of two processes overlap, a process dies in one | no more than was tracked; exact where no calls met |
| run, start and Python loop side by side; limits, allowlist | what each cycle has read, asked and sent; rows of the day | launch, cycle, check, send, book, refuse | checks overlap, run checks after the fact and books nothing | the daily limit is overrun only by named causes; a refusal means nothing was sent |
| key resolution, keystore, `config set` | shell, `.env`, keystore | resolve, fall back, set, load | a fallback on every error, two orders of preference | the address shown is the one that signs |
| Go reporting commands, Chroma client, wallet scripts, data feeds, deployment | - | read and print, one-shot | none | not modelled |

`PROJECT.json` lists every component with its files, and under `hazards` each
thing in this code that a test would hardly reach, at its line.

## 2. Modules

| module | source | role |
|---|---|---|
| `Executor` | executor.py, harvester.py, save_trade of cli/main.py | cycles of one process against a chain |
| `DailyVolume` | executor.py:441-468 | `Executor` with a history of what the trade table does not tell of |
| `SendOutcome` | executor.py:666-688 | the answers of a send, shared by the next two |
| `SendCall` | executor.py:666-688 | abstract: what a caller may rely on |
| `TxSender` | executor.py:650-744 | the retry loop; implements `SendCall` |
| `PositionFile` | harvester.py:51-101 | the file under several processes, at the grain of load, truncate, write |
| `Settings` | config.go, keystore.go, runner.go, wallet.go, `load_dotenv` | functions: what a command finds and signs with |
| `Commands` | run.go, start.go, cli/main.py, executor.py | run, start and the Python loop on one host; implements `PositionFile` |
| `AgentLoop` | cli/main.py, agent/graph.py, db/session.py, vector_store.py | the Python loop |
| `StartLoop` | start.go, runner.go, sqlite.go | the Go loop and its subprocesses |
| `Decision` | collector.py, analyzer.py, signal.py, position_sizing.py | from feed and memory to a signal |
| `RiskGate` | circuit_breaker.py, risk_check.py, slippage.py | breaker and check |
| `Buyback` | heap_token/buyback.py, buyback_node.py, agent/nodes/buyback.py | both buyback paths |
| `HeapToken` | heap_token/HEAP.sol | the contract |
| `Filters` | circuit_breaker.py:12-16, collector.py:12 | the list comprehension, for `RiskGate` and `Decision` |
| `MC...` | - | values of the constants for TLC |
| `ExecutorProofs` | - | theorems of `Executor` and `DailyVolume` |
| `TxSenderProofs` | - | theorems of `TxSender`, with the refinement of `SendCall` |
| `CommandsProofs` | - | theorems of `PositionFile`, `Settings` and `Commands` |
| `AgentLoopProofs`, `StartLoopProofs` | - | theorems of the two loops |
| `HeapProofs` | - | theorems of `HeapToken` and `Buyback` |
| `PipelineProofs` | - | theorems of `RiskGate` and `Decision` |
| `Sums` | - | lemmas: sums over finite sets and sequences, induction up to a number |

Composition: `TxSender` answers with one of the `OutcomeAllowed` records
(`AnswerAllowed`, proved as theorem `Answers`), and `Executor` draws the answers
of its sends from that same set (`Outcomes`); so the executor is checked
against exactly what the sender can give. `AgentLoop` takes a pass of the
pipeline as one step with an outcome; what happens inside is `Executor` and
`Decision`. `Commands` EXTENDS `PositionFile` and `Settings`: its file actions are
those of `PositionFile` joined with the place in `execute` that calls them, and
theorem `HostInvariance` shows that every step of it is a step of `FileSpec` or
leaves the file alone. `Executor` has the file calls as one step each, which is
what they are for a single process: `SerialExact` is the justification.

### State and actions against the code

**Executor.** `ledger` is the positions file by (protocol, pool); `trades` the
amounts of today's rows; `key` whether `PRIVATE_KEY` is set; `todo`, `total`,
`sig`, `amt` the locals of `execute` and `_execute_real`; `pc` the point between
two touches of chain, file or table. `StartCycle` is `harvest`; the actions of
`Agent` follow `execute` top to bottom: `Withdraw` and `TrackWithdrawal`
(`_process_withdrawals`), `NoSignal`, `SlippageBlocked`, `NoKey`,
`TrackDeposit` (the ledger first, line 495), `LimitBlocked`, `CapBlocked`,
`NoGas`, `CallFails`, `UnknownProtocol`, `Approve`, `NoDepositHandler`,
`Deposit`, `SaveTrade`. The chain is external: `Moves` says what n mined copies
of a transaction may move, a revert moves nothing and still gives a receipt,
because `_send_transaction` does not read its status. `CONSTANT Faults` names
what may go wrong: nothing in `executor_fair`, everything in `executor_faults`.
`Depositable` and `Withdrawable` are the protocols `build_deposit_tx` and
`build_withdraw_tx` have a transaction for: two lists in the code, aave and
compound in both at this commit. `Unblocked` is the depth check of a withdrawal,
which a protocol that is not among the cycle's yields passes unchecked.
`DailyVolume` adds the history variable `unbooked`, USDC of today's deposits that
no row of the trade table tells of, because the cap can be no better than its
rows; it constrains no step. At midnight it starts again with `UnderWay`, a
deposit let through the day before that exceeds the cap by itself. A failing `approve` is not modelled (the token's approve does not revert). A
position of 0 equals an absent one. Amounts are small naturals: rounding of
`int(amount * 10**decimals)` is left out.

**TxSender.** One `_send_transaction_with_retry` call: `GetNonce` (line 712 at
every attempt; `tx_def["nonce"]` of line 685 is never read), `Broadcast`,
`GetReceipt`, `WaitFails`, `Retry`; `Raise` is the except clause with
`attempt < max_retries` and `_is_retryable`. A node takes a nonce not used up
and replaces a pending transaction of the same nonce.

**PositionFile.** `Load` is `_load_ledger` with the change in memory, `Truncate` the
`open(path, "w")`, `Write` the `json.dump` and close; `text` tells what a reader
finds: nothing, a ledger, or two texts written over each other, and all but a
ledger read as `{}` (the `JSONDecodeError` branch). `Die` may come between any
two. `booked`, what the calls would leave one after the other, is kept until
`disturbed`: a call loads while another rewrites, or truncates while another is
between load and write, or dies after truncating.

**Settings.** A key stands for itself and its address; a keystore is a key sealed
with a passphrase, or `None` for one that is missing or torn. `LIMITS` stands
for the two limit variables together, `KEYSTORE_PASSPHRASE` for the file's name
and the passphrase. `ConfigSet` changes the first line of a name, `Loads` takes
the last.

**Commands.** A process is a command with the subprocess it runs (a subprocess
that outlives its parent is in `StartLoop`). `Launch` fixes its environment,
`Begin` is `RunWithKey` with a keystore read anew, then the steps of `execute`:
`NoWithdrawal`, `NoTrade`, `Gate`, the file calls `LoadFile`, `TruncateFile`,
`WriteFile`, then `LimitBlocked`, `LimitsPassed`, `NotSent`, `NoHandler`,
`Send`; then the caller's: `SaveTrade` and `Unsaved` of start and the Python
loop, `CheckSpendingLimits` and `Quit` of run. `Halt` is a death at any point.
Simplified: one day without a midnight, at most one position withdrawn per
cycle, yields out of `Accrued`, no invalid keys and no variables exported
empty, `DATABASE_URL` unset (one trade table for Go and Python). Its observers: `sent` is what the host
deposited; `escaped` the part of it no row tells of or no check looked at;
`promised` what a cycle's row is still expected to tell; `overlaps` counts checks passed
while another command stood between check and row; `excused` a check that had
no effect (no limits set, table not readable, window full); `overtaken` a row
booked since run's own check; `refused` that run turned the trade down.

**AgentLoop.** `phase` walks `start()`; `Caught` is the except clause that goes
back to the loop's condition without a nap. `SetAgentStatus` models what
`set_agent_status` does: it edits a detached row, so only the first insert
reaches the table. `Ids` are the `hash(str(decision))` of one process.
`cli/main.py:16` imports `wallet.generator`, which is not in the repository at
this commit; the loop is modelled as it runs with that module present. A pass
of the graph is `Withdraw`, when positions are harvested, and then `Invoke` with
what the rest of `execute` came to. The observer `acted` holds the cycles that
sent or simulated a transaction, `lone` those of them that withdrew and then had
no signal: `execute` returns no tx_result for these (lines 65-70), so no row is
written.

**StartLoop.** `Lock`, `CheckRunning`, `Call`, `Answer`, `SaveTrade`,
`UpdateLastRun` are the steps of an iteration's goroutine. `running` is written
without the mutex: after the loop is left `CheckRunning` may still read the old
value. The subprocess is external: it may run the pipeline (`HasMain`), end with
any output, hang, or outlive its parent. At this commit `agent/graph.py` has no
`__main__` block, so the real value of `HasMain` is FALSE (run `start_nomain`);
the other runs check what the Go loop does with a subprocess that works, which
is what the loop is written for.

**Decision.** A pool is protocol, symbol, APY and chain; `Sorted`, `FirstBest`,
`Matched` and `KellyAmount` are the code's functions with exact fractions.
`memory` holds what `collect_yields` looks at: the protocol of a decision with
action "deposit", whatever became of the deposit, or `None` for a decision
without an action. `Analyze(p)` is a model that decides for pool `p` of the prompt
(one that names a pool outside it is not modelled): either the name its answer
parses to is a symbol and the first pool of that symbol is taken, or it is none
and `_analyze_fallback` takes the best, as for an answer on one line, the form
the prompt itself asks for (analyzer.py:13, 71-81). `AnalyzeFallback` is the cycle
without an answer. APYs are taken to be
non-negative. Collected protocol names are DeFiLlama's (`aave-v3`), and
`PROTOCOL_ADDRESSES` knows `aave`: instances of `Executor` contain such a name,
which the code simulates.

**RiskGate.** The breaker, `check_risks` and `record_pnl` as `risk_check.py` has
them, each called whenever a caller likes; the memory of the breaker ends with
its process (`Restart`). Its specification is `GateSpec`, with `GateInit`,
`GateNext` and so on, and that of the token `TokenSpec`, since a proof module
extends each beside another specification. At this commit only tests call
`check_risks` and `record_pnl`: `graph.py` has no risk node, and `run_agent` records
0 in a breaker of its own that nobody asks. So the module is about the breaker
and not about the agent, and no property says that a trade is stopped.

**Buyback.** `simulated` and live engines; `Triggers` is the comparison of
`record_profit`, `TooSmall` that of `execute()`, and `Settle` is `execute()` with its
three ways out. Money is counted in units of the fourth decimal. The stateless
node rounds its share to the nearest unit (`Nearest`; a tie goes either way,
since the amount is a float), so what it allocates may exceed the share by half
a unit; it keeps no state but its last result, `allocated`. **HeapToken.** One action per external function; reverts and
checked arithmetic are guards.

Observer variables (`back`, `drawn`, `spent`, `interest`, `sends`, `copies`,
`minted`, `nominator`, `caller`, `asked`, `acted`, `lone`, `excused`, `log`,
`earlier`, `listed`, `choice`, `heard`, `others`, `unbooked`, `booked`, `tracked`, `disturbed`,
...) are written and never read by guards of the code's actions; they let a
property speak of the past.

## 3. Runs

Run `tlc -workers 2 -config <run>.cfg <module>` in this directory; `PROJECT.json`
names the module of each run. Runs that hold:

| run | shows |
|---|---|
| `executor_fair` | in fair weather, without faults, ledger and chain agree to the unit between cycles, and a deposit reinvests what the withdrawals of its cycle returned |
| `executor_faults` | under all faults together: no approval beyond `MAX_TX_AMOUNT`, and a day's deposits beyond the cap only by what the trade table does not tell of |
| `txsender` | no nonce gap, refinement of `SendCall`, an answer `Executor` assumes, return of the call |
| `heap_token` | supply, balances and burned total agree; consent; nominations end with their owner |
| `start_loop` | one subprocess per process, rows of pipelines that ran, lasting stop, signals and heartbeats answered |
| `agent_loop` | of the cycles that acted only those that withdrew alone, failed or died have no row; every row remembered, no cycle after a signal, naps between cycles but after an exception, the command ends |
| `commands` | two commands: the file shows no more than was tracked and is exact where no calls met; run refuses nothing it has sent, the day's limit is not overrun, and `wallet balance` shows the signer, each but for named causes |
| `risk_gate` | the breaker is right just after a trade, and later wrong by old trades only, old gains included |
| `buyback` | no profit lost, a bounded reserve, the two comparisons with the threshold agree, no negative buyback |
| `decision` | best admissible pool, ties by memory, a pool taken for another is no worse but in two named cases, Kelly's size |

Runs that TLC must find violated, each a disagreement between what the
repository says and what the code does (quotes under `findings` in
`PROJECT.json`):

| run | disagreement |
|---|---|
| `executor_blocked` | a deposit blocked by a limit is already in the positions file |
| `start_nomain` | `last_run` is stamped although `python3 -m agent.graph` ran nothing |

### Conditions the properties carry

What follows is in the models because the code does it. Each point is the
reason for a condition in a property, or was met while reading, and has no run
of its own.

* Daily cap (executor.py:441-468): it sums rows, of which `save_trade` may write
  none, and the last 100 only; an unreadable table switches it off. Hence
  `unbooked` in `DailyVolumeWithinCap`.
* Withdrawals (executor.py:170-179): `total` and the ledger are changed for a
  failed one too, and a receipt is taken for success. Hence
  `LedgerMatchesChain` and `ReinvestsWhatItWithdrew` in `executor_fair`, where
  estimates are right and every protocol has its calls. Without a key
  `_simulate` leaves the withdrawn capital out of the ledger, and a crash
  leaves ledger and chain apart for good.
* Slippage gate (executor.py:90-105, 489): withdrawn capital is added to the
  amount after the gate.
* Retry (executor.py:676): after a lost answer the transaction is sent again
  with the next nonce and may take effect twice. `SendCall` says so, and
  `DrawWithinLimit` holds with it: the second copy finds the allowance used up.
* Go loop: a subprocess goes on after its parent has returned or died.
  `RowsMatchRuns` speaks of the rows, not of an end of trading.
* Python loop: `set_agent_status` never updates a row that exists
  (session.py:42); a `store_decision` that raises loses the trade row. Hence
  `excused` in `TradesRecorded`. A pass without a signal has sent its withdrawals
  before it returns (executor.py:60-70) and leaves no row of them: hence `lone`.
  A pass the slippage gate blocks has withdrawn as well, and its result has no
  action, so that the caller raises a KeyError and writes no row either.
* Naps: a cycle that raises is followed by the next one at once
  (cli/main.py:73), where specs/005-cli-loop.md:13 has cycles at an interval.
  Hence the exception in `SpacedUnlessCaught`.
* `agent-heap run` checks limits after the subprocess has traded (run.go:36-51),
  while SECURITY.md:37 says "Both checked in Go CLI before execution". What it
  refuses was stopped by the executor's own check as well, but in the cases
  `RefusedMeansUnsent` names; and it writes no row, so its trades count for no
  later check (`escaped`).
* The allowlist is never asked: run.go:46 looks for `to` in a tx_result that has
  none. `MAX_TX_PER_HOUR` is displayed and enforced nowhere.
* A limit of 0 blocks everything in Python and means no limit in Go. Limits that
  stand in `.env` only do not reach the subprocess of a Go command.
* No Go command loads `.env` (only cli/main.py and wallet/setup.py do), though
  wallet.go:184-185, README.md:115-116, 199-200 and FEATURES.md:60, 177 have the
  user put keys and keystore there; and the Python loop ignores `KEYSTORE_*`.
* Key (runner.go:99-107): after any failure to resolve one, the subprocess runs
  in its parent's environment. The message says "(simulated mode)"
  (runner.go:105), but an exported `PRIVATE_KEY` is inherited and signs. Hence
  `SignerIsShown` names when `wallet balance` shows another address.
* `config set` changes the first line of a name and `load_dotenv` takes the last:
  with a doubled name the value set is not used (theorem `ConfigSetTells`).
* Positions file: overlapping calls may lose positions. They never add up to
  more than `track_deposit` was called with (`WithinTracked`), which is not what was
  deposited: line 495 of executor.py tracks a deposit that a limit then stops, and
  where a `track_withdrawal` is lost what is deposited again stands there twice.
* Trade table: the Go driver writes timestamps in a form of its own. A row the
  Python side cannot read raises in the cap check, which then passes; that is
  the unreadable table of `LimitsPassed`.
* Breaker (circuit_breaker.py:20): old trades leave the sum only when the next
  is recorded, so an old gain hides a loss and a tripped breaker stays tripped
  (`ErrsByOldTrades` says that it errs in no other way); a new process knows no
  losses, hence `earlier`.
* Risk gate: README.md:100 has the breaker halt the agent on a 5% drawdown, and
  a trade in a drawdown is stopped by nobody (graph.py:52-70 has no risk node,
  `_cb_router` of line 40 is used nowhere).
* Buyback engine (buyback.py:104): only the allocation is deducted and the rest
  is allocated again later. FEATURES.md:134 has "10% of yield profits accumulate
  in a profit pool"; the engine accrues all of the profit and in the long run
  spends all of it but a reserve (`ReserveBounded`: with $2 a cycle, $10 and 10%,
  at most $18 are ever held back). Only the stateless node, which the graph
  uses, keeps to a tenth, rounded.
* `wallet generate` and `encrypt` overwrite an existing keystore.
* Memory: FEATURES.md:125 and the comment at collector.py:14 have the protocols
  that succeeded before get priority; failed, simulated and blocked deposits earn
  it as well, since only the action is looked at (line 20). Hence the wording of
  `AnyDepositBreaksTies`.
* Analyzer: the prompt asks for symbol and reason on one line (analyzer.py:13),
  and the parser takes the whole rest of that line for the symbol: such an
  answer matches nothing and the pool of the highest yield is taken. One that
  matches is matched by symbol alone (line 77). Hence the two halves of
  `StandInIsNoWorse`.
* Token: the constructor does not check that its admin is not address(0);
  `HeapAssumption` has a non-zero admin.

### Bounds

* Executor: up to 3 cycles (deposit, harvest and redeposit, and one on top of a
  harvested position), up to 3 protocol names (both calls; an address and no
  calls; neither), 2 pools where sums over pools matter, amounts 1-2 against a
  limit of 2, a cap of 3 and depths of 1 and 3, so that both sides of every
  comparison occur, 2-3 sends, up to 2 units of interest. `TradeWindow` is 100
  as in the code; three cycles do not fill it.
* TxSender: the code's 3 attempts and one leftover transaction of an earlier
  call.
* HeapToken: 2 holders and address(0) with uint 0..2: every sum can overflow,
  and a nomination can be replaced and left behind.
* StartLoop: 3 iterations over 2 starts: one running, one waiting for the mutex
  and one started by the next process.
* AgentLoop: 3 cycles over 2 runs, 2 naps, 2 texts of decisions.
* RiskGate: a window of 2 steps in 5 of time, up to 4 trades, a limit of 1:
  trades inside, at and beyond the edge of the window, gains among them.
* Buyback: a threshold of 100 reached by 20s and 50s exactly and beyond, in the
  proportions of the code (2, 10 and 10%); 220 of profit, since the reserve is
  180 and an engine that spent too little must be able to exceed it; a loss, a
  PnL that rounds up and one half-way.
* Decision: lists of up to 3 of 6 pools; ties, equal symbols, a pool without
  yield, one of another protocol and one of another chain.
* Commands: 2 processes, interchangeable (symmetry), 1 place and 2 cycles: both
  checks passed before either row, a withdrawal beside a deposit, a death in a
  rewrite. `MaxTx` = `DailyCap` = 2, so one transaction fills the day; rows of
  0 or 1 are there before. `TradeWindow` = 1 stands for the code's 100, so that
  the window can be too short; shells with a key, with a passphrase and with
  both, a keystore with one of the two keys or none, `.env` with and without
  limits.

Deadlock is checked except where the system stops: a call that returned
(TxSender), a command that ended (AgentLoop, StartLoop), bounded time
(RiskGate), bounded cycles (Commands). A type invariant that is a theorem below
is not run as well.

### Fairness

The executor's runs check safety only and assume no fairness.

* `TxSender!FairSpec`: WF of the sender, and WF of mining the next transaction;
  needed for a call that waits without lost answers.
* `AgentLoop!FairSpec`: WF of the process; nothing is asked of signals.
* `StartLoop!FairSpec`: WF of each case of main's select, which Go chooses among
  the ready ones at random. None of the goroutines or subprocesses is fair: they
  may hang for good, and the properties hold all the same. The tickers cannot
  starve a case: WF is per case, as the random choice justifies.

## 4. Proofs

Each `...Proofs` module has the shape Init => Inv, Inv /\ [Next]_vars => Inv'
by one step per action, then the temporal theorems by PTL. Every invariant and
every action property of the runs that hold is the conclusion of a theorem.

### What is assumed

The named ASSUMEs of the modules: constants are sets of naturals, subsets of
known names, finite where something is added up over them (pools, processes,
addresses); the windows are at least one step of the clock and one row; at least
one attempt is made; `None` is not a pool; and what the trade table of `Commands`
holds before is within the cap; the token's admin is not address(0). The code justifies each: names come from tables in
the source, amounts from arithmetic that rejects what is negative, the windows
are 24 hours and 100 rows, and the cap that earlier rows passed is the same.

Three theorems have a hypothesis besides, and the runs show why.

* `CapHolds` assumes `RowsInWindow`: the day's rows fit into the 100 that
  `get_recent_trades` reads (executor.py:449). With more rows the code adds up
  the last 100 only. Otherwise any fault is allowed.
* `LedgerIsChain` and `WithdrawnIsReinvested` assume `Faultless` (calls do what
  they report, estimates are right, every protocol has an address and both
  calls; an unreadable
  or unwritten trade row is allowed) and `Unhindered` at all times: a deposit
  that has been written to the ledger passes the limits and finds its money.
  Both are conditions under which the code keeps its books, not simplifications:
  `executor_blocked` shows a ledger that has parted from the chain after a limit
  refused one deposit, and a single failed withdrawal does the same
  (executor.py:170-179). The run `executor_fair` lies within them.

### Induction over data

The prover can instantiate no induction theorem that takes an operator, so
everything about sums, filters and sorted lists of any length goes by a smallest
counterexample, which needs sets only: `SmallestSet` for subsets of a finite set
(from `WFMin` and `FS_StrictSubsetOrderingWellFounded`), `LeastNumber` for
numbers, and from it `UpTo` and `SeqUpTo`, induction along the numbers and the
sequences of a set. `Sums` uses the first to show that the fold of the
community modules is what a change of one argument and an appended element make
of it (`SumOfExcept`, `SumOfAppend`, `SumMonotone` and the like); the proof
modules use the others for filters (`FilteredAppend`, `FilteredOrder`,
`FilteredTwice`) and for the insertion sort (`SortedIs`: the same pools, in
order, or the list as it was where nothing is recalled). That is why the models write the
comprehension as a recursive function of their own (`Filters`): the prover has
no definition of `SelectSeq` to reason from.

### Theorems and their invariants

* `ExecutorProofs`: `IInv` adds to the types that a deposit under way has an
  amount that passed the limit check (`AmountChecked`), that a transaction left
  in the mempool was one the agent could build (`PendingChecked`), and that
  signal and withdrawal are present where they are used. Without
  `PendingChecked` a late transaction could do anything; without `AmountChecked`
  an approval could exceed the limit. Theorems `TypeCorrect`, `LimitHolds`
  (`DrawWithinLimit`), for every set of faults. These are about `Executor!Spec`; every behaviour of `WatchedSpec` is
  one of it (`WatchedKeeps`).
  `CapHolds` (`DailyVolumeWithinCap`) rests on `VolumeInv`, two accounts of the
  same money: the day's deposits are told by the rows, the row still to be
  written and `unbooked`; and a deposit that has passed the cap fits under it
  with what was spent. The first alone is not inductive, because the check
  compares with the rows and the property with what was spent.
  `LedgerIsChain` (`LedgerMatchesChain`) rests on `LedgerInv`: per protocol the
  chain holds what the ledger counts and the interest, but for what the cycle
  in progress has counted `Ahead`; the withdrawals not yet made are still those
  planned, one for a position, and the interest covers their estimates
  (`Planned`); what is reinvested is what came back (`Steady`).
  `WithdrawnIsReinvested` (`ReinvestsWhatItWithdrew`) follows from `Steady`.
* `TxSenderProofs`: `TInv` says that the mempool holds at most one transaction,
  at the account's next nonce, and which one it is while the sender waits
  (`PoolShape`, `MinedShape`), and counts sends by attempts. Theorems `NoGap`,
  `Answers` (`AnswerAllowed`), `Implements` (the refinement, step by step).
* `HeapProofs`, the token: `HeapTypes`, `BurnsAreAccounted`,
  `NominationsAreCurrent`, `Consent`; `SupplyIsHeld` (`BalancesMatchSupply`) by
  two changes of one argument of the sum, and a case of its own for a transfer
  to oneself. The engine: `EngineInv` says that accrued and swept profit are
  within the recorded, on which side of the threshold the last answer has left
  the engine, and that the reserve is bounded. `ReserveIsBounded`
  (`ReserveBounded`) rests on `WhatIsLeft`: a share of x takes at least c off when
  x holds c times the inverse of the share, so what a cycle brings above the
  reserve the buyback takes away. `AnswersCarriedOut` (`AnswerCarriedOut`),
  `TypeCorrect` (`TypeOK`); `ProfitIsKept` (`NothingLost`) for a history of any
  length.
* `StartLoopProofs`: the mutex names every goroutine past `mu.Lock()`
  (`MutexHeld`). `Serialised` (`OneSubprocess`), `StopIsLasting`
  (`StoppedSticks`); `RowsTellOfRuns` (`RowsMatchRuns`) follows each goroutine
  with what its subprocess came to (`RowInv`).
* `AgentLoopProofs`: a trade is saved only after its decision was stored
  (`StoredFirst`), and a signal leaves the flag cleared (`SignalClears`).
  `RowsAreRemembered` (`RowsRemembered`), `SignalIsLast` (`NoCycleAfterSignal`).
  For `TradesAreRecorded` (`TradesRecorded`) the invariant follows a cycle that
  acted on the chain: it has its row, was cut short or withdrew alone, or it is
  the current one and still on its way to `SaveTrade` (`Accounted`, `InHand`).
  `SpacedOrCaught` (`SpacedUnlessCaught`) counts the naps between two cycles.
* `CommandsProofs`, the positions file: `FileInv` is the types, `Bounded` (the
  file, and every copy in memory, is at most what was tracked, which a copy
  needs because it is written later) and `InTurn` (while undisturbed at most one
  process is rewriting, and its copy is its call applied to `booked`). Theorems
  `FileWithinTracked` (`WithinTracked`), `UndisturbedIsSerial`
  (`SerialExact`). `HostInvariance` takes each action of `Commands` to one of
  `FileNext` or a stutter, which carries the two over to the host
  (`HostWithinTracked`, `HostIsSerial`); `HostInv` adds that every cycle signs
  with `RunKey` of its environment and keystore (`SignsAs`). `SignerAsShown`
  (`SignerIsShown`) then follows from `BalanceShowsSigner`, a fact about
  `Settings` alone; `ConfigSetTells` is about every `.env` file. `HostTypes`.
  The limits: `LimitInv` keeps an account for each process, `Due` for what it
  has deposited and is still to book and `Held` for what its check has let
  through and it has not yet sent. What was sent is told by the rows, the
  amounts due and what escaped; with the amounts held it stays within the cap,
  one `MaxTx` for each overlap, and what escaped. A check alone adds its amount
  to the rows it has read; an overlapped one adds a `MaxTx` of room; and where
  the counter stops, at the number of processes but one, the accounts are
  bounded by what that many processes can hold (`PairBounded`).
  `OvershootIsBounded` (`OvershootBounded`) and `RefusedIsUnsent`
  (`RefusedMeansUnsent`), for any number of processes, cycles and limits.
* `PipelineProofs`, the gate: while one process made all the trades, the breaker
  keeps just those of the log that were recent at its last trade
  (`KeepsTheRecent`); pruning what was pruned before changes nothing
  (`FilteredTwice`), since the window only moves on. `GateTypes` (`GateTypeOK`),
  `BreakerIsExact` (`ExactAfterTrade`); `BreakerErrsByOldTrades`
  (`ErrsByOldTrades`) adds that what was recent at the last trade and is recent now
  is what is recent of the whole log (`KeptAndRecent`), and that leaving out
  trades without a gain does not lower a sum (`DroppedTrades`).
  The pipeline: `DecisionInv` says that the list is the sorted filter of what
  was listed, that the analysis is the first of the
  chosen symbol where the answer named one and the first best of the list where
  it did not (`Chosen`), and that the signal has the size of the code's formula
  (`AsSized`). `PipelineTypes` (`TypeOK`), `FallbackTakesBest`
  (`FallbackIsBest`), `DepositsDecideTies` (`AnyDepositBreaksTies`), `StandInIsFair`
  (`StandInIsNoWorse`) for lists of any length. `SizeIsKellys` (`SizedByEdge`)
  found its property too strong: for a pool that yields more than 99 times the
  average, which takes a list of 100 or more and so no run reaches, the code
  clips the odds (signal.py:36). The property now has that case.

Only model-checked: liveness (`CallReturns`, `SignalStops`,
`HeartbeatsGoOn`, `SignalEndsLoop`), which needs fairness and ENABLED; and that
the two statements under "Runs" that fail do fail.

## 5. Not modelled

The reporting commands (status, history, memory, health, security), the Chroma
REST client, wallet/setup.py and wallet/faucet.py, data feeds, ABI loading and
deployment scripts read, print or run once; nothing of theirs is kept between
two steps of the system. The commands that write a keystore run once and leave
one of the keystores that are inputs here. `RunWithEnv`, `LoadPrivateKey` and
`ValidateRecipient` have no callers in the commands, and the address that
`RunWithKey` returns is thrown away by its callers. The cooldown branch of `execute`
(lines 72-88) is unreachable: it looks for the key "error" in stored decisions,
and `store_decision_from_result` never stores it. `_get_min_out` has no caller.
Invalid private keys, gas prices, texts and logs are left out.

## 6. Plan

Written so far, in this order: Executor, TxSender with SendCall, HeapToken,
StartLoop, AgentLoop, RiskGate, Buyback, Decision; the proofs of the first five;
PositionFile, Settings, Commands; the proofs of these and of Buyback; Sums and
Filters, and the proofs about sums, rows, limits, the gate and the pipeline. What
is left:

1. A composition of Decision with the names Executor knows.
2. `.env` and keystore changing while commands run, instead of being inputs of
   a launch or a cycle.
3. A property of the status in agent_state, which `set_agent_status` cannot
   change after its first insert.
4. The refinement of AgentLoop to an abstract trade log, and of Executor's file
   calls to PositionFile.
