----------------------------- MODULE AgentLoop -----------------------------
(***************************************************************************)
(* The Python agent loop: start and signal_handler of src/cli/main.py,     *)
(* run_agent of src/agent/graph.py around one pass of the pipeline, the    *)
(* rows of src/db/session.py and the decisions of                          *)
(* src/agent/memory/vector_store.py.                                       *)
(*                                                                         *)
(* What the pipeline itself does to the chain and to the ledger is module  *)
(* Executor; here a pass may withdraw and then has an outcome.  A signal   *)
(* may arrive between any two steps, and so may the death of the process.  *)
(***************************************************************************)
EXTENDS Naturals, FiniteSets

CONSTANTS
  Decision,    \* what a decision may say, as far as its text tells them apart
  Naps,        \* int(interval / 0.5) naps between two cycles
  MaxCycles,   \* bound on the cycles over all runs of the command
  MaxRuns,     \* bound on the number of times the command is run
  Faults       \* what may go wrong, a subset of FaultKinds

FaultKinds == { "graph",     \* the pipeline or the memory's constructor raises
                "memory",    \* store_decision raises
                "db",        \* a session of the database raises
                "kill" }     \* the process dies between two steps

ASSUME LoopAssumption ==
  /\ Naps \in Nat /\ MaxCycles \in Nat /\ MaxRuns \in Nat
  /\ Faults \subseteq FaultKinds

VARIABLES
  phase,      \* where start() is
  running,    \* the global flag
  naps,       \* naps taken since the cycle
  outcome,    \* what the last pass came to
  what,       \* the text of its decision
  status,     \* agent_state.status
  trades,     \* rows of trades
  memory,     \* ids in the vector collection
  acted,      \* observer: cycles that sent or simulated a transaction
  lone,       \* observer: those of them that only withdrew, with no signal
  excused,    \* observer: cycles cut short by an exception or a death
  asked,      \* observer: this process has received a signal
  cycles,     \* cycles started
  runs        \* times the command was run

tables == <<status, trades, memory>>
cycle  == <<outcome, what, acted, lone, excused>>
vars   == <<phase, running, asked, naps, cycle, tables, cycles, runs>>

Cycle == 1..MaxCycles

(* hash(str(decision)): the same text has the same id within one process   *)
(* and, Python's hashes being salted, another id in the next one.          *)
Ids  == (1..MaxRuns) \X Decision
Rows == [cycle: Cycle, id: Ids]

TypeOK ==
  /\ phase \in {"off", "boot", "check", "graph", "store", "report", "save", "sleep", "stop"}
  /\ running \in BOOLEAN /\ asked \in BOOLEAN
  /\ naps \in 0..Naps
  /\ outcome \in {"none", "tx", "blocked"}
  /\ what \in Decision
  /\ status \in {"none", "running", "stopped"}
  /\ trades \subseteq Rows
  /\ memory \subseteq Ids
  /\ acted \subseteq Cycle
  /\ lone \subseteq Cycle
  /\ excused \subseteq 0..MaxCycles
  /\ cycles \in 0..MaxCycles
  /\ runs \in 0..MaxRuns

Init ==
  /\ phase = "off" /\ running = FALSE /\ asked = FALSE
  /\ naps = Naps
  /\ outcome = "none" /\ what \in Decision
  /\ status = "none" /\ trades = {} /\ memory = {}
  /\ acted = {} /\ lone = {} /\ excused = {} /\ cycles = 0 /\ runs = 0

-----------------------------------------------------------------------------
Goto(p) == phase' = p /\ UNCHANGED <<running, asked, runs>>

CutShort ==
  /\ excused' = excused \cup {cycles}
  /\ UNCHANGED <<outcome, what, acted, lone>>

(* The except clause of the loop: back to its condition, without a nap.    *)
Caught == Goto("check") /\ CutShort /\ UNCHANGED <<naps, tables, cycles>>

RunCommand ==                  \* the import sets running and the handlers
  /\ phase = "off" /\ runs < MaxRuns
  /\ runs' = runs + 1
  /\ running' = TRUE /\ asked' = FALSE
  /\ naps' = Naps
  /\ phase' = "boot"
  /\ UNCHANGED <<cycle, tables, cycles>>

(* set_agent_status edits a row its query's session has let go of: only    *)
(* the first call, which inserts the row, reaches the database.            *)
SetAgentStatus(s) ==
  /\ status' = IF status = "none" THEN s ELSE status
  /\ UNCHANGED <<trades, memory>>

Die ==
  /\ phase' = "off" /\ running' = FALSE /\ asked' = FALSE
  /\ UNCHANGED <<naps, cycles, runs>>

SetRunningAgain ==                       \* a mutant: start() sets the flag too
  /\ phase = "boot"
  /\ running' = TRUE /\ phase' = "check"
  /\ SetAgentStatus("running") /\ UNCHANGED <<asked, naps, cycle, cycles, runs>>

SetRunning ==
  /\ phase = "boot"
  /\ \/ SetAgentStatus("running") /\ Goto("check") /\ UNCHANGED <<naps, cycle, cycles>>
     \/ "db" \in Faults /\ Die /\ UNCHANGED <<cycle, tables>>

BeginCycle ==                            \* AgentMemory(), query_similar
  /\ phase = "check" /\ running /\ cycles < MaxCycles
  /\ cycles' = cycles + 1
  /\ naps' = 0
  /\ Goto("graph")
  /\ UNCHANGED <<cycle, tables>>

Withdraw ==        \* _process_withdrawals, before anything else of execute()
  /\ phase = "graph"
  /\ acted' = acted \cup {cycles}
  /\ UNCHANGED <<phase, running, asked, runs, naps, outcome, what, lone, excused,
                 tables, cycles>>

(* The rest of the pass: no signal and no tx_result, a deposit (sent,      *)
(* simulated or refused by a limit), or a trade the slippage gate blocked. *)
Invoke(out, text) ==                     \* _build_graph, _breaker.record_trade
  /\ phase = "graph"
  /\ outcome' = out /\ what' = text
  /\ acted' = IF out = "tx" THEN acted \cup {cycles} ELSE acted
  /\ lone' = IF out = "none" THEN lone \cup ({cycles} \cap acted) ELSE lone
  /\ Goto(IF out = "none" THEN "report" ELSE "store")
  /\ UNCHANGED <<naps, excused, tables, cycles>>

Raise == phase = "graph" /\ "graph" \in Faults /\ Caught

StoreLater ==                    \* a mutant: a failure is logged and passed over
  /\ phase = "store"
  /\ memory' = memory \cup {<<runs, what>>} \/ UNCHANGED memory
  /\ Goto("report")
  /\ UNCHANGED <<naps, cycle, status, trades, cycles>>

StoreDecision ==                         \* upsert
  /\ phase = "store"
  /\ \/ /\ memory' = memory \cup {<<runs, what>>}
        /\ Goto("report")
        /\ UNCHANGED <<naps, cycle, status, trades, cycles>>
     \/ "memory" \in Faults /\ Caught

ReportAndLeave ==                \* a mutant: a stop request is looked at first
  /\ phase = "report"
  /\ Goto(IF running /\ outcome = "tx" THEN "save" ELSE "check")
  /\ UNCHANGED <<naps, cycle, tables, cycles>>

ReportUnchecked ==               \* a mutant: the flag is looked at after naps
  /\ phase = "report"
  /\ \/ outcome = "tx" /\ Goto("save")
     \/ outcome = "none" /\ Goto("sleep")
     \/ outcome = "blocked" /\ Goto("graph")
  /\ UNCHANGED <<naps, cycle, tables, cycles>>

ReportBusy ==                    \* a mutant: naps only after a transaction
  /\ phase = "report"
  /\ \/ /\ Goto(IF outcome = "tx" THEN "save" ELSE "check")
        /\ outcome # "blocked"
        /\ UNCHANGED <<naps, cycle, tables, cycles>>
     \/ outcome = "blocked" /\ Caught

Report ==                        \* a blocked trade has no "action": KeyError
  /\ phase = "report"
  /\ \/ /\ \/ outcome = "tx" /\ Goto("save")
           \/ outcome = "none" /\ Goto("sleep")
        /\ UNCHANGED <<naps, cycle, tables, cycles>>
     \/ outcome = "blocked" /\ Caught

SaveTrade ==
  /\ phase = "save"
  /\ \/ /\ trades' = trades \cup {[cycle |-> cycles, id |-> <<runs, what>>]}
        /\ Goto("sleep")
        /\ UNCHANGED <<naps, cycle, status, memory, cycles>>
     \/ "db" \in Faults /\ Caught

Sleep ==
  /\ phase = "sleep"
  /\ \/ naps < Naps /\ running /\ naps' = naps + 1 /\ Goto("sleep")
     \/ (naps = Naps \/ ~running) /\ UNCHANGED naps /\ Goto("check")
  /\ UNCHANGED <<cycle, tables, cycles>>

LeaveLoop ==
  /\ phase = "check" /\ ~running
  /\ Goto("stop")
  /\ UNCHANGED <<naps, cycle, tables, cycles>>

SetStopped ==
  /\ phase = "stop"
  /\ Die /\ UNCHANGED cycle
  /\ SetAgentStatus("stopped") \/ ("db" \in Faults /\ UNCHANGED tables)

Process ==
  \/ SetRunning \/ BeginCycle \/ Withdraw
  \/ \E out \in {"none", "tx", "blocked"}, text \in Decision : Invoke(out, text)
  \/ Raise \/ StoreDecision \/ Report \/ SaveTrade \/ Sleep
  \/ LeaveLoop \/ SetStopped

(* SIGINT or SIGTERM: signal_handler clears the flag and the interrupted   *)
(* call goes on.                                                           *)
Signal ==
  /\ phase # "off" /\ running
  /\ running' = FALSE /\ asked' = TRUE
  /\ UNCHANGED <<phase, naps, cycle, tables, cycles, runs>>

Kill ==
  /\ "kill" \in Faults /\ phase # "off"
  /\ Die /\ CutShort /\ UNCHANGED tables

Next == RunCommand \/ Process \/ Signal \/ Kill

Spec == Init /\ [][Next]_vars

(* Python goes on as long as its calls return, which the timeouts of the   *)
(* HTTP clients see to.                                                    *)
FairSpec == Spec /\ WF_vars(Process)

-----------------------------------------------------------------------------
(* Back at the loop's condition every cycle that acted on the chain has    *)
(* its row, stop requests, failing passes and restarts notwithstanding     *)
(* (main.py:53-67), but for two kinds of cycle: one an exception or a      *)
(* death cut short, a blocked trade's KeyError included, and one that      *)
(* withdrew and then had no signal to deposit on (executor.py:60-70): its  *)
(* withdrawals leave no row at all.                                        *)
TradesRecorded ==
  phase = "check" => acted \subseteq { r.cycle : r \in trades } \cup excused \cup lone

(* A row of the trade table always has a decision in the memory, whatever  *)
(* fails or dies in between: the decision is stored before run_agent       *)
(* returns (graph.py:140).                                                 *)
RowsRemembered == \A r \in trades : r.id \in memory

(* A process that has received a signal starts no further cycle, not even  *)
(* when the signal came before start() or during a pass that failed        *)
(* (main.py:24-30, 51).                                                    *)
NoCycleAfterSignal == [][cycles' > cycles => ~asked]_vars

(* A signal ends the command, in whatever phase and however its calls fail *)
(* (SECURITY.md:94).                                                       *)
SignalEndsLoop == (phase # "off" /\ ~running) ~> phase = "off"

(* The loop runs on the configured interval (specs/005-cli-loop.md:13), as  *)
(* long as nothing is raised: a cycle starts before the interval has been  *)
(* slept only right after one that an exception cut short, whatever signals *)
(* and restarts come in between (main.py:53-74).                           *)
SpacedUnlessCaught ==
  [][cycles' > cycles => naps = Naps \/ cycles \in excused]_vars
=============================================================================
