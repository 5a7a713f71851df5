----------------------------- MODULE StartLoop -----------------------------
(***************************************************************************)
(* `agent-heap start`: runStart and runAgentIteration of                   *)
(* src/internal/cmd/start.go, the subprocess call of                       *)
(* src/internal/agent/runner.go and the rows they write through            *)
(* src/internal/db/sqlite.go.                                              *)
(*                                                                         *)
(* One select loop, one goroutine per iteration serialised by a mutex, and *)
(* a Python subprocess per iteration that outlives the Go process when     *)
(* that one exits.  Iterations are numbered over all starts; every         *)
(* database call holds the package's own lock and is one step.             *)
(***************************************************************************)
EXTENDS Naturals, FiniteSets

CONSTANTS
  MaxIterations,  \* bound on the iterations spawned
  MaxStarts,      \* bound on the number of times the command is started
  MayKill,        \* the Go process may be killed at any moment
  MayFail,        \* a database write may fail
  HasMain         \* `python3 -m agent.graph` runs the pipeline

ASSUME StartAssumption ==
  /\ MaxIterations \in Nat \ {0} /\ MaxStarts \in Nat
  /\ {MayKill, MayFail, HasMain} \subseteq BOOLEAN

Iteration == 1..MaxIterations

VARIABLES
  main,      \* where runStart is
  running,   \* the flag main writes and the goroutines read
  sigCh, heartbeatTick, loopTick,  \* values waiting in the channels, 0 or 1
  mu,        \* the iteration that holds the mutex, or 0
  routine,   \* the goroutine of each iteration
  child,     \* the subprocess of each iteration
  ran,       \* subprocesses that ran the pipeline
  status,    \* agent_state.status
  lastRun,   \* the iteration that wrote agent_state.last_run
  rows,      \* per iteration its row in trades; "failed" is an observer's
             \* note of a write that did not succeed
  spawned,   \* iterations spawned so far
  starts     \* times the command was started

channels == <<sigCh, heartbeatTick, loopTick>>
tables   == <<status, lastRun, rows>>
python   == <<child, ran>>
vars == <<main, running, channels, mu, routine, python, tables, spawned, starts>>

Output == {"tx", "notx", "empty", "error"}      \* what cmd.Output() comes to

TypeOK ==
  /\ main \in {"off", "starting", "loop", "status", "beat"}
  /\ running \in BOOLEAN
  /\ {sigCh, heartbeatTick, loopTick} \subseteq {0, 1}
  /\ mu \in Iteration \cup {0}
  /\ routine \in [Iteration -> {"none", "first", "lock", "check", "run", "save", "stamp", "done"}]
  /\ child \in [Iteration -> {"none", "alive"} \cup Output]
  /\ ran \subseteq Iteration
  /\ status \in {"none", "running", "stopped"}
  /\ lastRun \in Iteration \cup {0}
  /\ rows \in [Iteration -> {"none", "saved", "failed"}]
  /\ spawned \in 0..MaxIterations
  /\ starts \in 0..MaxStarts

Init ==
  /\ main = "off" /\ running = FALSE
  /\ sigCh = 0 /\ heartbeatTick = 0 /\ loopTick = 0
  /\ mu = 0
  /\ routine = [i \in Iteration |-> "none"]
  /\ child = [i \in Iteration |-> "none"]
  /\ ran = {}
  /\ status = "none" /\ lastRun = 0
  /\ rows = [i \in Iteration |-> "none"]
  /\ spawned = 0 /\ starts = 0

-----------------------------------------------------------------------------
(* runStart                                                                *)

Spawn(how) ==
  /\ spawned' = spawned + 1
  /\ routine' = [routine EXCEPT ![spawned + 1] = how]

Start ==                                 \* db.Init, SetAgentStatus("running")
  /\ main = "off" /\ starts < MaxStarts /\ spawned < MaxIterations
  /\ starts' = starts + 1
  /\ \/ status' = "running" /\ main' = "starting"
     \/ MayFail /\ UNCHANGED <<status, main>>
  /\ UNCHANGED <<running, channels, mu, routine, python, lastRun, rows, spawned>>

EnterLoop ==                             \* signal.Notify, the tickers, iteration 1
  /\ main = "starting"
  /\ main' = "loop" /\ running' = TRUE
  /\ Spawn("first")
  /\ UNCHANGED <<channels, mu, python, tables, starts>>

HandleSignal ==
  /\ main = "loop" /\ sigCh = 1
  /\ sigCh' = 0
  /\ running' = FALSE
  /\ main' = "status"
  /\ UNCHANGED <<heartbeatTick, loopTick, mu, routine, python, tables, spawned, starts>>

HeartbeatLocked ==                       \* a mutant: under the iterations' mutex
  /\ main = "loop" /\ heartbeatTick = 1 /\ mu = 0
  /\ heartbeatTick' = 0
  /\ UNCHANGED <<main, running, sigCh, loopTick, mu, routine, python, tables, spawned, starts>>

HandleHeartbeat ==                       \* SaveHeartbeat
  /\ main = "loop" /\ heartbeatTick = 1
  /\ heartbeatTick' = 0
  /\ UNCHANGED <<main, running, sigCh, loopTick, mu, routine, python, tables, spawned, starts>>

HandleTick ==
  /\ main = "loop" /\ loopTick = 1
  /\ loopTick' = 0
  /\ Spawn("lock")
  /\ UNCHANGED <<main, running, sigCh, heartbeatTick, mu, python, tables, starts>>

StopWhenIdle ==                          \* a mutant: waits for the iteration
  /\ main = "status" /\ mu = 0
  /\ main' = "beat" /\ status' = "stopped"
  /\ UNCHANGED <<running, channels, mu, routine, python, lastRun, rows, spawned, starts>>

SetStopped ==
  /\ main = "status"
  /\ main' = "beat"
  /\ status' = "stopped" \/ (MayFail /\ UNCHANGED status)
  /\ UNCHANGED <<running, channels, mu, routine, python, lastRun, rows, spawned, starts>>

(* The process is gone: its goroutines and channels with it, but not the   *)
(* subprocess one of them was waiting for.                                 *)
Vanish ==
  /\ main' = "off" /\ running' = FALSE
  /\ sigCh' = 0 /\ heartbeatTick' = 0 /\ loopTick' = 0
  /\ mu' = 0
  /\ routine' = [i \in Iteration |-> IF i <= spawned THEN "done" ELSE "none"]
  /\ UNCHANGED <<tables, spawned, starts>>

Return ==                                \* the last SaveHeartbeat
  /\ main = "beat"
  /\ Vanish /\ UNCHANGED python

Main == EnterLoop \/ HandleSignal \/ HandleHeartbeat \/ HandleTick \/ SetStopped \/ Return

-----------------------------------------------------------------------------
(* The goroutines.                                                         *)

To(i, phase) ==
  /\ routine' = [routine EXCEPT ![i] = phase]
  /\ UNCHANGED <<main, running, channels, spawned, starts>>

Unlock(i) == mu' = 0 /\ To(i, "done")

LockNothing(i) ==                        \* a mutant: no mutex
  /\ routine[i] \in {"first", "lock"}
  /\ mu' = i
  /\ To(i, IF routine[i] = "first" THEN "run" ELSE "check")
  /\ UNCHANGED <<python, tables>>

Lock(i) ==                               \* the first one does not check running
  /\ routine[i] \in {"first", "lock"} /\ mu = 0
  /\ mu' = i
  /\ To(i, IF routine[i] = "first" THEN "run" ELSE "check")
  /\ UNCHANGED <<python, tables>>

(* main writes running without the lock: once the loop is left the         *)
(* goroutine may still read the value it had before.                       *)
CheckRunning(i) ==
  /\ routine[i] = "check"
  /\ \/ To(i, "run") /\ UNCHANGED mu
     \/ ~running /\ Unlock(i)
  /\ UNCHANGED <<python, tables>>

Call(i) ==                               \* agent.RunWithKey, up to cmd.Start
  /\ routine[i] = "run" /\ child[i] = "none"
  /\ \/ child' = [child EXCEPT ![i] = "alive"] /\ To(i, "run") /\ UNCHANGED mu
     \/ UNCHANGED child /\ Unlock(i)     \* the subprocess cannot be started
  /\ UNCHANGED <<ran, tables>>

Answer(i) ==
  /\ routine[i] = "run"
  /\ \/ child[i] = "error" /\ Unlock(i)
     \/ child[i] = "tx" /\ To(i, "save") /\ UNCHANGED mu
     \/ child[i] \in {"notx", "empty"} /\ To(i, "stamp") /\ UNCHANGED mu
  /\ UNCHANGED <<python, tables>>

SaveUnlessStopping(i) ==                 \* a mutant: looks at running once more
  /\ routine[i] = "save"
  /\ rows' = IF running THEN [rows EXCEPT ![i] = "saved"] ELSE rows
  /\ To(i, "stamp")
  /\ UNCHANGED <<mu, python, status, lastRun>>

SaveTrade(i) ==
  /\ routine[i] = "save"
  /\ \/ rows' = [rows EXCEPT ![i] = "saved"]
     \/ MayFail /\ rows' = [rows EXCEPT ![i] = "failed"]
  /\ To(i, "stamp")
  /\ UNCHANGED <<mu, python, status, lastRun>>

StampRunning(i) ==            \* a mutant: the other branch's INSERT always runs
  /\ routine[i] = "stamp"
  /\ lastRun' = i /\ status' = "running"
  /\ Unlock(i)
  /\ UNCHANGED <<python, rows>>

UpdateLastRun(i) ==                      \* the row exists: status is kept
  /\ routine[i] = "stamp"
  /\ lastRun' = i \/ (MayFail /\ UNCHANGED lastRun)
  /\ Unlock(i)
  /\ UNCHANGED <<python, status, rows>>

Routine(i) ==
  Lock(i) \/ CheckRunning(i) \/ Call(i) \/ Answer(i) \/ SaveTrade(i) \/ UpdateLastRun(i)

-----------------------------------------------------------------------------
(* The subprocess, the clock and the terminal.                             *)

Outside == <<main, running, channels, mu, routine, tables, spawned, starts>>

RunPipeline(i) ==             \* agent/graph.py has no __main__ block to do it
  /\ HasMain
  /\ child[i] = "alive"
  /\ ran' = ran \cup {i}
  /\ UNCHANGED <<child, Outside>>

ChildEnds(i, out) ==
  /\ child[i] = "alive"
  /\ out \in {"tx", "notx"} => i \in ran
  /\ child' = [child EXCEPT ![i] = out]
  /\ UNCHANGED <<ran, Outside>>

Elapse ==                     \* the tickers' channels hold one value each
  /\ main = "loop"
  /\ \/ heartbeatTick = 0 /\ heartbeatTick' = 1 /\ UNCHANGED loopTick
     \/ /\ loopTick = 0 /\ spawned < MaxIterations
        /\ loopTick' = 1 /\ UNCHANGED heartbeatTick
  /\ UNCHANGED <<main, running, sigCh, mu, routine, python, tables, spawned, starts>>

(* Ctrl+C goes to the subprocesses as well, which may end of it; before    *)
(* signal.Notify it ends the process.                                      *)
Interrupt ==
  /\ main # "off"
  /\ \E hit \in SUBSET { i \in Iteration : child[i] = "alive" } :
       child' = [i \in Iteration |-> IF i \in hit THEN "error" ELSE child[i]]
  /\ IF main = "starting"
     THEN Vanish
     ELSE /\ sigCh' = 1
          /\ UNCHANGED <<main, running, heartbeatTick, loopTick, mu, routine,
                         tables, spawned, starts>>
  /\ UNCHANGED ran

Kill ==
  /\ MayKill /\ main # "off"
  /\ Vanish /\ UNCHANGED python

Next ==
  \/ Start \/ Main
  \/ \E i \in Iteration : Routine(i)
  \/ \E i \in Iteration : RunPipeline(i)
  \/ \E i \in Iteration, out \in Output : ChildEnds(i, out)
  \/ Elapse \/ Interrupt \/ Kill

Spec == Init /\ [][Next]_vars

(* The Go scheduler runs main; its select takes every case that stays      *)
(* ready sooner or later.  Nothing is asked of the subprocess or of the    *)
(* goroutines, which may hang for good.                                    *)
FairSpec ==
  /\ Spec
  /\ WF_vars(EnterLoop) /\ WF_vars(HandleSignal) /\ WF_vars(HandleHeartbeat)
  /\ WF_vars(HandleTick) /\ WF_vars(SetStopped) /\ WF_vars(Return)

-----------------------------------------------------------------------------
(* However many ticks come while an iteration hangs, one process has at    *)
(* most one subprocess at a time (start.go:60-62, 76-81).                  *)
OneSubprocess ==
  \A i, j \in Iteration :
    /\ routine[i] = "run" /\ child[i] = "alive"
    /\ routine[j] = "run" /\ child[j] = "alive"
    => i = j

(* An iteration that ends after the shutdown cannot make a stopped agent   *)
(* look alive: only a new start does (sqlite.go:192-214).                  *)
StoppedSticks ==
  [][status = "stopped" /\ status' # "stopped" => main = "off" /\ main' = "starting"]_vars

(* A row of the trade table tells of a pipeline that ran, and a run that   *)
(* is stamped with a transaction has its row, unless that very write       *)
(* failed: neither a stop request nor a kill in between loses one          *)
(* (start.go:94-114).                                                      *)
RowsMatchRuns ==
  /\ \A i \in Iteration : rows[i] = "saved" => i \in ran /\ child[i] = "tx"
  /\ lastRun # 0 /\ child[lastRun] = "tx" => rows[lastRun] # "none"

(* Ctrl+C ends the command even while the subprocess hangs (start.go:58).  *)
SignalStops == sigCh = 1 ~> main = "off"

(* Every heartbeat tick is answered, subprocess hanging or not             *)
(* (start.go:71-72).                                                       *)
HeartbeatsGoOn == heartbeatTick = 1 ~> heartbeatTick = 0

(* last_run is the time of a run of the pipeline (start.go:20-21).         *)
LastRunRan == lastRun # 0 => lastRun \in ran
=============================================================================
