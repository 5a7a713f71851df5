-------------------------- MODULE StartLoopProofs --------------------------
(* start.go serialises its iterations, whatever the number of ticks,       *)
(* starts, kills and failing writes.                                       *)
EXTENDS StartLoop, TLAPS

Holding == {"check", "run", "save", "stamp"}

(* A goroutine past mu.Lock() is the one the mutex names.                  *)
MutexHeld == \A i \in Iteration : routine[i] \in Holding => mu = i

(* The bound on the iterations is checked when a tick is made.             *)
RoomLeft ==
  /\ main \in {"off", "starting"} => loopTick = 0
  /\ main = "starting" \/ loopTick = 1 => spawned < MaxIterations

SInv == TypeOK /\ MutexHeld /\ RoomLeft

(* The command has not been started yet.                                   *)
THEOREM StartInit == Init => SInv
<1> SUFFICES ASSUME Init
             PROVE  SInv
  OBVIOUS
<1> USE StartAssumption DEF Init, Iteration
<1>1. TypeOK
  <2>1. spawned \in 0..MaxIterations /\ starts \in 0..MaxStarts
    OBVIOUS
  <2>2. routine \in [Iteration -> {"none", "first", "lock", "check", "run", "save", "stamp", "done"}]
    OBVIOUS
  <2>3. child \in [Iteration -> {"none", "alive"} \cup Output]
    OBVIOUS
  <2> QED BY <2>1, <2>2, <2>3 DEF TypeOK
<1>2. MutexHeld /\ RoomLeft
  BY DEF MutexHeld, RoomLeft, Holding
<1> QED BY <1>1, <1>2 DEF SInv

(* One goroutine moves on: it takes the mutex, keeps it or gives it back.  *)
LEMMA RoutineKeeps ==
  ASSUME SInv, NEW i \in Iteration, Routine(i)
  PROVE  SInv'
<1> USE DEF SInv, TypeOK, MutexHeld, RoomLeft, Holding, To, Unlock, channels, python, tables, Output
<1>1. 0 \notin Iteration
  BY DEF Iteration
<1>2. CASE Lock(i)
  BY <1>1, <1>2 DEF Lock
<1>3. CASE CheckRunning(i)
  BY <1>1, <1>3 DEF CheckRunning
<1>4. CASE Call(i)
  BY <1>1, <1>4 DEF Call
<1>5. CASE Answer(i)
  BY <1>1, <1>5 DEF Answer
<1>6. CASE SaveTrade(i)
  BY <1>1, <1>6 DEF SaveTrade
<1>7. CASE UpdateLastRun(i)
  BY <1>1, <1>7 DEF UpdateLastRun
<1> QED BY <1>2, <1>3, <1>4, <1>5, <1>6, <1>7 DEF Routine

(* The process exits or is killed: no goroutine is left.                   *)
LEMMA VanishKeeps ==
  ASSUME SInv, Vanish, ran' = ran, child' \in [Iteration -> {"none", "alive"} \cup Output]
  PROVE  SInv'
<1> USE DEF SInv, TypeOK, MutexHeld, RoomLeft, Holding, Vanish, tables
<1>1. routine' \in [Iteration -> {"none", "first", "lock", "check", "run", "save", "stamp", "done"}]
  OBVIOUS
<1>2. \A i \in Iteration : routine'[i] \notin Holding
  OBVIOUS
<1> QED BY <1>1, <1>2

(* A goroutine is spawned: it does not hold the mutex.                     *)
LEMMA SpawnKeeps ==
  ASSUME SInv, NEW how \in {"first", "lock"}, Spawn(how), spawned < MaxIterations, mu' = mu
  PROVE  /\ routine' \in [Iteration -> {"none", "first", "lock", "check", "run", "save", "stamp", "done"}]
         /\ spawned' \in 0..MaxIterations
         /\ MutexHeld'
<1>1. spawned + 1 \in Iteration /\ spawned + 1 \in 0..MaxIterations
  BY StartAssumption DEF SInv, TypeOK, Iteration
<1> QED BY <1>1 DEF SInv, TypeOK, MutexHeld, Holding, Spawn

(* Every step keeps the invariant.                                         *)
THEOREM StartNext == SInv /\ [Next]_vars => SInv'
<1> SUFFICES ASSUME SInv, [Next]_vars
             PROVE  SInv'
  OBVIOUS
<1> USE DEF SInv, TypeOK, MutexHeld, RoomLeft, channels, python, tables
<1>1. CASE UNCHANGED vars
  BY <1>1 DEF vars
<1>2. CASE Start
  <2>1. starts + 1 \in 0..MaxStarts
    BY <1>2, StartAssumption DEF Start
  <2> QED BY <1>2, <2>1 DEF Start
<1>3. CASE EnterLoop
  <2>1. /\ routine' \in [Iteration -> {"none", "first", "lock", "check", "run", "save", "stamp", "done"}]
        /\ spawned' \in 0..MaxIterations
        /\ MutexHeld'
    BY <1>3, SpawnKeeps DEF EnterLoop
  <2> QED BY <1>3, <2>1 DEF EnterLoop
<1>4. CASE HandleTick
  <2>1. /\ routine' \in [Iteration -> {"none", "first", "lock", "check", "run", "save", "stamp", "done"}]
        /\ spawned' \in 0..MaxIterations
        /\ MutexHeld'
    BY <1>4, SpawnKeeps DEF HandleTick
  <2> QED BY <1>4, <2>1 DEF HandleTick
<1>5. CASE HandleSignal \/ HandleHeartbeat \/ SetStopped
  BY <1>5 DEF HandleSignal, HandleHeartbeat, SetStopped
<1>6. CASE Return \/ Kill
  BY <1>6, VanishKeeps DEF Return, Kill
<1>7. ASSUME NEW i \in Iteration, Routine(i)
      PROVE  SInv'
  BY <1>7, RoutineKeeps
<1>8. ASSUME NEW i \in Iteration, RunPipeline(i)
      PROVE  SInv'
  BY <1>8 DEF RunPipeline, Outside
<1>9. ASSUME NEW i \in Iteration, NEW out \in Output, ChildEnds(i, out)
      PROVE  SInv'
  BY <1>9 DEF ChildEnds, Outside
<1>10. CASE Elapse
  BY <1>10 DEF Elapse
<1>11. CASE Interrupt
  <2>1. child' \in [Iteration -> {"none", "alive"} \cup Output] /\ ran' = ran
    BY <1>11 DEF Interrupt, Output
  <2>2. CASE main = "starting"
    BY <1>11, <2>1, <2>2, VanishKeeps DEF Interrupt
  <2>3. CASE main # "starting"
    BY <1>11, <2>1, <2>3 DEF Interrupt
  <2> QED BY <2>2, <2>3
<1> QED BY <1>1, <1>2, <1>3, <1>4, <1>5, <1>6, <1>7, <1>8, <1>9, <1>10, <1>11 DEF Next, Main

(* The invariant holds throughout.                                         *)
THEOREM StartInvariance == Spec => []SInv
BY StartInit, StartNext, PTL DEF Spec

(* One process never runs two subprocesses at a time, however many ticks   *)
(* pile up behind one that hangs (start.go:60-62, 76-81).                  *)
THEOREM Serialised == Spec => []OneSubprocess
<1>1. SInv => OneSubprocess
  BY DEF SInv, MutexHeld, Holding, OneSubprocess
<1> QED BY <1>1, StartInvariance, PTL

(* Only a new start of the command turns a stopped agent's status row back *)
(* (sqlite.go:168-214).                                                    *)
THEOREM StopIsLasting == Spec => StoppedSticks
<1>1. SInv /\ [Next]_vars => [status = "stopped" /\ status' # "stopped" => main = "off" /\ main' = "starting"]_vars
  <2> SUFFICES ASSUME SInv, Next, status = "stopped", status' # "stopped"
               PROVE  main = "off" /\ main' = "starting"
    BY DEF vars
  <2> USE DEF tables
  <2>1. CASE Start
    BY <2>1 DEF Start
  <2>2. CASE Main
    BY <2>2 DEF Main, EnterLoop, HandleSignal, HandleHeartbeat, HandleTick, SetStopped, Return, Vanish
  <2>3. ASSUME NEW i \in Iteration, Routine(i)
        PROVE  FALSE
    BY <2>3 DEF Routine, Lock, CheckRunning, Call, Answer, SaveTrade, UpdateLastRun
  <2>4. ASSUME NEW i \in Iteration, RunPipeline(i) \/ \E out \in Output : ChildEnds(i, out)
        PROVE  FALSE
    BY <2>4 DEF RunPipeline, ChildEnds, Outside
  <2>5. CASE Elapse \/ Interrupt \/ Kill
    BY <2>5 DEF Elapse, Interrupt, Kill, Vanish
  <2> QED BY <2>1, <2>2, <2>3, <2>4, <2>5 DEF Next
<1> QED BY <1>1, StartInvariance, PTL DEF StoppedSticks, Spec
-----------------------------------------------------------------------------
(* Where the goroutine of an iteration is tells what its subprocess came   *)
(* to; a subprocess that has ended stays what it came to.                  *)
RowInv ==
  /\ \A i \in Iteration :
       /\ routine[i] = "save" => child[i] = "tx"
       /\ routine[i] = "stamp" => child[i] \in {"tx", "notx", "empty"}
       /\ routine[i] = "stamp" /\ child[i] = "tx" => rows[i] # "none"
       /\ child[i] = "tx" => i \in ran
       /\ rows[i] = "saved" => child[i] = "tx"
  /\ lastRun # 0 =>
       /\ child[lastRun] \in {"tx", "notx", "empty"}
       /\ child[lastRun] = "tx" => rows[lastRun] # "none"

(* No goroutine of the iterations is left at "save" or "stamp".            *)
LEMMA VanishKeepsRows ==
  ASSUME SInv, RowInv, Vanish, ran' = ran, UNCHANGED child
  PROVE  RowInv'
<1>1. \A i \in Iteration : routine'[i] \notin {"save", "stamp"}
  BY DEF Vanish
<1> QED BY <1>1 DEF SInv, TypeOK, RowInv, Vanish, tables

(* Each step of the goroutine of an iteration keeps its rows telling what  *)
(* its subprocess came to (start.go:74-115).                               *)
LEMMA RoutineKeepsRows ==
  ASSUME SInv, RowInv, NEW i \in Iteration, Routine(i)
  PROVE  RowInv'
<1> USE DEF SInv, TypeOK, RowInv, To, Unlock, python, tables
<1>1. CASE Lock(i)
  BY <1>1 DEF Lock
<1>2. CASE CheckRunning(i)
  BY <1>2 DEF CheckRunning
<1>3. CASE Call(i)
  BY <1>3 DEF Call
<1>4. CASE Answer(i)
  BY <1>4 DEF Answer
<1>5. CASE SaveTrade(i)
  <2>1. PICK r \in {"saved", "failed"} : rows' = [rows EXCEPT ![i] = r]
    BY <1>5 DEF SaveTrade
  <2>2. /\ routine[i] = "save" /\ routine' = [routine EXCEPT ![i] = "stamp"]
        /\ UNCHANGED <<child, ran, lastRun>>
    BY <1>5 DEF SaveTrade
  <2> QED BY <2>1, <2>2
<1>6. CASE UpdateLastRun(i)
  <2>1. /\ routine[i] = "stamp" /\ routine' = [routine EXCEPT ![i] = "done"]
        /\ lastRun' \in {i, lastRun} /\ UNCHANGED <<child, ran, rows>>
    BY <1>6 DEF UpdateLastRun
  <2> QED BY <2>1
<1> QED BY <1>1, <1>2, <1>3, <1>4, <1>5, <1>6 DEF Routine

(* Every step of the loop keeps the rows telling of the runs.              *)
LEMMA RowsKept == SInv /\ RowInv /\ [Next]_vars => RowInv'
<1> SUFFICES ASSUME SInv, RowInv, [Next]_vars
             PROVE  RowInv'
  OBVIOUS
<1> USE DEF SInv, TypeOK, RowInv, channels, python, tables
<1>1. CASE UNCHANGED vars
  BY <1>1 DEF vars
<1>2. CASE Start
  BY <1>2 DEF Start
<1>3. CASE EnterLoop \/ HandleTick
  <2>1. PICK how \in {"first", "lock"} : routine' = [routine EXCEPT ![spawned + 1] = how]
    BY <1>3 DEF EnterLoop, HandleTick, Spawn
  <2> QED BY <1>3, <2>1 DEF EnterLoop, HandleTick
<1>4. CASE HandleSignal \/ HandleHeartbeat \/ SetStopped
  BY <1>4 DEF HandleSignal, HandleHeartbeat, SetStopped
<1>5. CASE Return \/ Kill
  BY <1>5, VanishKeepsRows DEF Return, Kill
<1>6. ASSUME NEW i \in Iteration, Routine(i)
      PROVE  RowInv'
  BY <1>6, RoutineKeepsRows
<1>7. ASSUME NEW i \in Iteration, RunPipeline(i)
      PROVE  RowInv'
  BY <1>7 DEF RunPipeline, Outside
<1>8. ASSUME NEW i \in Iteration, NEW out \in Output, ChildEnds(i, out)
      PROVE  RowInv'
  BY <1>8 DEF ChildEnds, Outside, Output
<1>9. CASE Elapse
  BY <1>9 DEF Elapse
<1>10. CASE Interrupt          \* ends subprocesses that are alive only
  <2>1. \A i \in Iteration : child'[i] \in {child[i], "error"} /\ (child[i] # "alive" => child'[i] = child[i])
    BY <1>10 DEF Interrupt
  <2>2. /\ UNCHANGED <<ran, rows, lastRun>>
        /\ \A i \in Iteration : routine'[i] = routine[i] \/ routine'[i] \in {"none", "done"}
    BY <1>10 DEF Interrupt, Vanish
  <2> QED BY <2>1, <2>2
<1> QED BY <1>1, <1>2, <1>3, <1>4, <1>5, <1>6, <1>7, <1>8, <1>9, <1>10 DEF Next, Main

(* A row tells of a pipeline that ran, and the run that is stamped with a  *)
(* transaction has its row unless that write failed, whatever kills,       *)
(* interrupts and restarts come in between (start.go:94-114).              *)
THEOREM RowsTellOfRuns == Spec => []RowsMatchRuns
<1>1. Init => RowInv
  BY DEF Init, RowInv
<1>2. Spec => []RowInv
  BY <1>1, StartInvariance, RowsKept, PTL DEF Spec
<1>3. RowInv => RowsMatchRuns
  BY DEF RowInv, RowsMatchRuns
<1> QED BY <1>2, <1>3, PTL
=============================================================================
