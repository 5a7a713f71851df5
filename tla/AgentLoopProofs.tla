-------------------------- MODULE AgentLoopProofs --------------------------
(* What the Python loop guarantees for every interval, every number of     *)
(* cycles and runs and every combination of faults.                        *)
EXTENDS AgentLoop, TLAPS

(* Why it does: a signal leaves the flag cleared for the rest of the       *)
(* process, and a trade is saved only after its decision was stored.       *)
SignalClears == asked => ~running

StoredFirst ==
  (phase = "report" /\ outcome = "tx") \/ phase = "save" => <<runs, what>> \in memory

(* A cycle is under way only once one was started, a process only once the *)
(* command was run.                                                        *)
Started ==
  /\ phase # "off" => runs \in 1..MaxRuns
  /\ phase \in {"graph", "store", "report", "save"} => cycles \in Cycle

(* A cycle that acted has its row or its excuse, or only withdrew, or it   *)
(* is still on the way to save_trade or to the blocked trade's KeyError.   *)
InHand == phase = "graph" \/ (phase \in {"store", "report", "save"} /\ outcome # "none")

Accounted ==
  \A c \in acted :
    \/ c \in excused \cup lone
    \/ \E r \in trades : r.cycle = c
    \/ c = cycles /\ InHand

LInv ==
  /\ TypeOK
  /\ SignalClears
  /\ StoredFirst
  /\ Started
  /\ Accounted
  /\ RowsRemembered

-----------------------------------------------------------------------------
(* The invariant holds before the command is first run.                    *)
THEOREM LoopInit == Init => LInv
<1> SUFFICES ASSUME Init PROVE LInv
  OBVIOUS
<1> USE LoopAssumption DEF Init
<1>1. TypeOK
  <2>1. running \in BOOLEAN /\ asked \in BOOLEAN
    OBVIOUS
  <2>2. naps \in 0..Naps /\ cycles \in 0..MaxCycles /\ runs \in 0..MaxRuns
    OBVIOUS
  <2>3. /\ trades \subseteq Rows /\ memory \subseteq Ids
        /\ acted \subseteq Cycle /\ lone \subseteq Cycle /\ excused \subseteq 0..MaxCycles
    OBVIOUS
  <2> QED BY <2>1, <2>2, <2>3 DEF TypeOK
<1>2. SignalClears
  BY DEF SignalClears
<1>3. StoredFirst /\ Started /\ Accounted /\ RowsRemembered
  BY DEF StoredFirst, Started, Accounted, RowsRemembered
<1> QED BY <1>1, <1>2, <1>3 DEF LInv

(* A step that leaves the tables and the cycle alone keeps the invariant   *)
(* when it moves to a place where nothing about them is claimed.           *)
LEMMA MoveKeeps ==
  ASSUME LInv, UNCHANGED <<outcome, what, acted, lone, tables, cycles, runs>>,
         excused \subseteq excused', excused' \subseteq 0..MaxCycles,
         InHand => phase' \in {phase, "save"} \/ cycles \in excused',
         running' \in BOOLEAN, asked' \in BOOLEAN, naps' \in 0..Naps,
         asked' => ~running',
         phase' \in {"off", "check", "sleep", "stop"} \/ phase' = phase
           \/ (phase = "report" /\ outcome = "tx" /\ phase' = "save"),
         phase' # "off" => phase # "off"
  PROVE  LInv'
<1> USE LoopAssumption DEF LInv, TypeOK, tables
<1>1. TypeOK'
  OBVIOUS
<1>2. StoredFirst'
  BY DEF StoredFirst
<1>3. Started'
  BY DEF Started
<1>4. RowsRemembered'
  BY DEF RowsRemembered
<1>5. Accounted'
  BY DEF Accounted, InHand
<1> QED BY <1>1, <1>2, <1>3, <1>4, <1>5 DEF SignalClears

(* set_agent_status writes one of its two statuses or none (db/session.py).*)
LEMMA StatusKeeps ==
  ASSUME LInv, NEW s \in {"running", "stopped"}, SetAgentStatus(s),
         UNCHANGED <<naps, cycle, cycles, runs>>,
         running' \in BOOLEAN, asked' \in BOOLEAN, asked' => ~running',
         phase \in {"boot", "stop"}, phase' \in {"off", "check"}
  PROVE  LInv'
<1> USE LoopAssumption DEF LInv, TypeOK, cycle, SetAgentStatus
<1>1. TypeOK'
  OBVIOUS
<1> QED BY <1>1
     DEF SignalClears, StoredFirst, Started, Accounted, InHand, RowsRemembered

(* An exception in the loop: the cycle is excused.                         *)
LEMMA CaughtKeeps ==
  ASSUME LInv, phase \in {"graph", "store", "report", "save"}, Caught
  PROVE  LInv'
<1>1. cycles \in 0..MaxCycles /\ excused \subseteq 0..MaxCycles
  BY DEF LInv, TypeOK
<1> QED BY <1>1, MoveKeeps DEF Caught, CutShort, Goto, LInv, TypeOK, SignalClears

(* run_agent: the pass and the decision it stores (graph.py:122-142).      *)
LEMMA PassKeeps ==
  ASSUME LInv,
         \/ BeginCycle
         \/ Withdraw
         \/ \E out \in {"none", "tx", "blocked"}, text \in Decision : Invoke(out, text)
         \/ StoreDecision
  PROVE  LInv'
<1> USE LoopAssumption DEF LInv, cycle, tables, Goto
<1>1. CASE BeginCycle
  <2>1. TypeOK'
    BY <1>1 DEF BeginCycle, TypeOK
  <2>2. Started'
    BY <1>1 DEF BeginCycle, TypeOK, Started, Cycle
  <2> QED BY <1>1, <2>1, <2>2
       DEF BeginCycle, SignalClears, StoredFirst, Accounted, InHand, RowsRemembered
<1>2. ASSUME NEW out \in {"none", "tx", "blocked"}, NEW text \in Decision,
             Invoke(out, text)
      PROVE  LInv'
  <2>1. TypeOK'
    BY <1>2 DEF Invoke, TypeOK, Started
  <2> QED BY <1>2, <2>1
       DEF Invoke, SignalClears, StoredFirst, Started, Accounted, InHand,
           RowsRemembered
<1>3. CASE Withdraw
  <2>1. TypeOK'
    BY <1>3 DEF Withdraw, TypeOK, Started
  <2> QED BY <1>3, <2>1
       DEF Withdraw, SignalClears, StoredFirst, Started, Accounted, InHand, RowsRemembered
<1>4. CASE StoreDecision
  <2>1. CASE memory' = memory \cup {<<runs, what>>} /\ phase' = "report"
             /\ UNCHANGED <<running, asked, runs, naps, cycle, status, trades, cycles>>
             /\ phase = "store"
    <3>1. <<runs, what>> \in Ids
      BY <2>1 DEF TypeOK, Started, Ids
    <3>2. TypeOK'
      BY <2>1, <3>1 DEF TypeOK
    <3> QED BY <2>1, <3>2
         DEF SignalClears, StoredFirst, Started, Accounted, InHand, RowsRemembered
  <2>2. CASE Caught
    BY <1>4, <2>2, CaughtKeeps DEF StoreDecision
  <2> QED BY <1>4, <2>1, <2>2 DEF StoreDecision
<1> QED BY <1>1, <1>2, <1>3, <1>4

(* save_trade adds the row of the cycle under way (main.py:62-67).         *)
LEMMA SaveKeeps == LInv /\ SaveTrade => LInv'
<1> SUFFICES ASSUME LInv, SaveTrade PROVE LInv'
  OBVIOUS
<1> USE LoopAssumption DEF LInv, cycle, tables, Goto
<1>1. CASE Caught
  BY <1>1, CaughtKeeps DEF SaveTrade
<1>2. CASE ~Caught
  <2>1. [cycle |-> cycles, id |-> <<runs, what>>] \in Rows
    BY DEF SaveTrade, TypeOK, Started, Rows, Ids
  <2>2. TypeOK'
    BY <1>2, <2>1 DEF SaveTrade, TypeOK
  <2>3. RowsRemembered'
    BY <1>2 DEF SaveTrade, RowsRemembered, StoredFirst
  <2>4. Accounted'
    <3> DEFINE row == [cycle |-> cycles, id |-> <<runs, what>>]
    <3>1. /\ trades' = trades \cup {row}
          /\ UNCHANGED <<acted, lone, excused, cycles>>
      BY <1>2 DEF SaveTrade
    <3>2. row \in trades' /\ row.cycle = cycles
      BY <3>1
    <3> HIDE DEF row
    <3> QED BY <3>1, <3>2 DEF Accounted
  <2> QED BY <1>2, <2>2, <2>3, <2>4 DEF SaveTrade, SignalClears, StoredFirst, Started
<1> QED BY <1>1, <1>2

-----------------------------------------------------------------------------
(* Every step of the loop and of what surrounds it keeps the invariant.    *)
THEOREM LoopNext == LInv /\ [Next]_vars => LInv'
<1> SUFFICES ASSUME LInv, [Next]_vars PROVE LInv'
  OBVIOUS
<1> USE LoopAssumption
<1>1. CASE RunCommand
  <2>1. TypeOK'
    <3>1. running' \in BOOLEAN /\ asked' \in BOOLEAN
      BY <1>1 DEF RunCommand
    <3>2. naps' \in 0..Naps /\ runs' \in 0..MaxRuns /\ phase' = "boot"
      BY <1>1 DEF RunCommand, LInv, TypeOK
    <3> QED BY <1>1, <3>1, <3>2 DEF RunCommand, LInv, TypeOK, cycle, tables
  <2>2. SignalClears'
    BY <1>1 DEF RunCommand, SignalClears
  <2>3. Started'
    BY <1>1 DEF RunCommand, LInv, TypeOK, Started
  <2>4. StoredFirst' /\ RowsRemembered'
    BY <1>1 DEF RunCommand, LInv, StoredFirst, RowsRemembered, cycle, tables
  <2>5. Accounted'
    BY <1>1 DEF RunCommand, LInv, Accounted, InHand, cycle, tables
  <2> QED BY <2>1, <2>2, <2>3, <2>4, <2>5 DEF LInv
<1>2. CASE SetRunning
  <2>1. CASE SetAgentStatus("running") /\ Goto("check") /\ UNCHANGED <<naps, cycle, cycles>>
    BY <1>2, <2>1, StatusKeeps DEF SetRunning, Goto, LInv, TypeOK, SignalClears
  <2>2. CASE Die /\ UNCHANGED <<cycle, tables>>
    BY <1>2, <2>2, MoveKeeps DEF SetRunning, Die, cycle, InHand, LInv, TypeOK
  <2> QED BY <1>2, <2>1, <2>2 DEF SetRunning
<1>3. CASE \/ BeginCycle
           \/ Withdraw
           \/ \E out \in {"none", "tx", "blocked"}, text \in Decision : Invoke(out, text)
           \/ StoreDecision
  BY <1>3, PassKeeps
<1>4. CASE Raise
  BY <1>4, CaughtKeeps DEF Raise
<1>5. CASE Report
  <2>1. CASE Caught
    BY <1>5, <2>1, CaughtKeeps DEF Report
  <2>2. CASE ~Caught
    <3>1. /\ phase = "report" /\ UNCHANGED <<running, asked, runs, naps, cycle, tables, cycles>>
          /\ \/ outcome = "tx" /\ phase' = "save"
             \/ outcome = "none" /\ phase' = "sleep"
      BY <1>5, <2>2 DEF Report, Goto
    <3> QED BY <3>1, MoveKeeps DEF cycle, InHand, LInv, TypeOK, SignalClears
  <2> QED BY <2>1, <2>2
<1>6. CASE SaveTrade
  BY <1>6, SaveKeeps
<1>7. CASE Sleep
  <2>1. naps' \in 0..Naps
    BY <1>7 DEF Sleep, LInv, TypeOK
  <2> QED BY <1>7, <2>1, MoveKeeps DEF Sleep, Goto, cycle, InHand, LInv, TypeOK, SignalClears
<1>8. CASE LeaveLoop
  BY <1>8, MoveKeeps DEF LeaveLoop, Goto, cycle, InHand, LInv, TypeOK, SignalClears
<1>9. CASE SetStopped
  <2>1. CASE SetAgentStatus("stopped")
    BY <1>9, <2>1, StatusKeeps DEF SetStopped, Die
  <2>2. CASE UNCHANGED tables
    BY <1>9, <2>2, MoveKeeps DEF SetStopped, Die, cycle, InHand, LInv, TypeOK
  <2> QED BY <1>9, <2>1, <2>2 DEF SetStopped
<1>10. CASE Signal
  BY <1>10, MoveKeeps DEF Signal, cycle, LInv, TypeOK
<1>11. CASE Kill
  <2>1. cycles \in 0..MaxCycles /\ excused \subseteq 0..MaxCycles
    BY DEF LInv, TypeOK
  <2> QED BY <1>11, <2>1, MoveKeeps DEF Kill, Die, CutShort, LInv, TypeOK
<1>12. CASE UNCHANGED vars
  BY <1>12, MoveKeeps DEF vars, cycle, LInv, TypeOK, SignalClears
<1> QED BY <1>1, <1>2, <1>3, <1>4, <1>5, <1>6, <1>7, <1>8, <1>9, <1>10, <1>11, <1>12
     DEF Next, Process

(* ... and so it holds for good.                                           *)
THEOREM LoopInvariance == Spec => []LInv
BY LoopInit, LoopNext, PTL DEF Spec

(* Every row of the trade table has its decision in the memory, whatever   *)
(* raised or died in between (graph.py:140, main.py:62-67).                *)
THEOREM RowsAreRemembered == Spec => []RowsRemembered
<1>1. LInv => RowsRemembered
  BY DEF LInv
<1> QED BY <1>1, LoopInvariance, PTL

(* However signals, failures and deaths fall, a cycle that acted on the    *)
(* chain is left without a row only when it was cut short or withdrew with *)
(* no signal to deposit on (main.py:53-67, executor.py:60-70).             *)
THEOREM TradesAreRecorded == Spec => []TradesRecorded
<1>1. LInv => TradesRecorded
  <2> SUFFICES ASSUME LInv, phase = "check", NEW c \in acted
               PROVE  c \in { r.cycle : r \in trades } \cup excused \cup lone
    BY DEF TradesRecorded
  <2>1. c \in excused \cup lone \/ \E r \in trades : r.cycle = c
    BY DEF LInv, Accounted, InHand
  <2> QED BY <2>1
<1> QED BY <1>1, LoopInvariance, PTL

(* The counter of cycles moves at the start of one and nowhere else.       *)
LEMMA CyclesBegun == ASSUME LInv, Next, cycles' > cycles PROVE BeginCycle
<1>1. cycles \in Nat /\ ~(cycles > cycles)
  BY LoopAssumption DEF LInv, TypeOK
<1> QED BY <1>1 DEF Next, Process, RunCommand, SetRunning, Withdraw, Invoke, Raise, Caught,
         StoreDecision, Report, SaveTrade, Sleep, LeaveLoop, SetStopped, Die, Signal, Kill

(* A process that has received a signal starts no further cycle            *)
(* (main.py:24-30, 51).                                                    *)
THEOREM SignalIsLast == Spec => NoCycleAfterSignal
<1>1. LInv /\ [Next]_vars => [cycles' > cycles => ~asked]_vars
  <2> SUFFICES ASSUME LInv, Next, cycles' > cycles PROVE ~asked
    OBVIOUS
  <2>1. BeginCycle
    BY CyclesBegun
  <2> QED BY <2>1 DEF BeginCycle, LInv, SignalClears
<1> QED BY <1>1, LoopInvariance, PTL DEF Spec, NoCycleAfterSignal

(* At the loop's condition the interval was slept, or the last cycle was   *)
(* cut short, or the process is about to leave.                            *)
Slept ==
  /\ phase = "boot" => naps = Naps
  /\ phase = "check" /\ running => naps = Naps \/ cycles \in excused

(* A cycle is begun without the interval only after one an exception cut   *)
(* short (main.py:53-74).                                                  *)
THEOREM SpacedOrCaught == Spec => SpacedUnlessCaught
<1>1. Init => Slept
  BY DEF Init, Slept
<1>2. Slept /\ [Next]_vars => Slept'
  <2> SUFFICES ASSUME Slept, [Next]_vars PROVE Slept'
    OBVIOUS
  <2>1. CASE Process
    BY <2>1 DEF Process, Slept, SetRunning, BeginCycle, Withdraw, Invoke, Raise, Caught, CutShort,
         StoreDecision, Report, SaveTrade, Sleep, LeaveLoop, SetStopped, Die, Goto,
         cycle, tables
  <2>2. CASE RunCommand \/ Signal \/ Kill \/ UNCHANGED vars
    BY <2>2 DEF Slept, RunCommand, Signal, Kill, Die, vars, cycle
  <2> QED BY <2>1, <2>2 DEF Next
<1>3. LInv /\ Slept /\ [Next]_vars
        => [cycles' > cycles => naps = Naps \/ cycles \in excused]_vars
  <2> SUFFICES ASSUME LInv, Slept, Next, cycles' > cycles
               PROVE  naps = Naps \/ cycles \in excused
    OBVIOUS
  <2>1. BeginCycle
    BY CyclesBegun
  <2> QED BY <2>1 DEF BeginCycle, Slept
<1> QED BY <1>1, <1>2, <1>3, LoopInvariance, PTL DEF Spec, SpacedUnlessCaught
=============================================================================
