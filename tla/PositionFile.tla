---------------------------- MODULE PositionFile ----------------------------
(***************************************************************************)
(* The positions file of harvester.py, shared by every agent process of a  *)
(* host: track_deposit and track_withdrawal load it, change their copy,    *)
(* truncate it and write the copy back.  Nothing locks it, so the calls of *)
(* two processes (a start loop and a run command) may overlap, and a       *)
(* process may die inside a call.                                          *)
(***************************************************************************)
EXTENDS Naturals

CONSTANTS Proc,       \* the processes
          Place       \* (protocol, pool) pairs

ASSUME PlaceAssumption == Place # {}

VARIABLES
  text,       \* what the file is: "empty", "garbled" or the JSON of a "ledger"
  file,       \* what _load_ledger reads from it; a missing position is 0
  step,       \* how far each process is in a call
  call,       \* its arguments
  copy,       \* the ledger it holds in memory
  tracked,    \* observer: all that track_deposit was ever called with, by place
  disturbed,  \* observer: a call met another one half-way, or died half-way
  booked      \* observer: until then, the ledger had every call been one step

fileVars == <<text, file, step, call, copy, booked, tracked, disturbed>>

Ledger == [Place -> Nat]

EmptyLedger == [k \in Place |-> 0]

Call == [op : {"deposit", "withdrawal"}, at : Place, amount : Nat]

NoCall == [op |-> "deposit", at |-> CHOOSE k \in Place : TRUE, amount |-> 0]

FileTypeOK ==
  /\ text \in {"empty", "garbled", "ledger"}
  /\ file \in Ledger
  /\ step \in [Proc -> {"none", "loaded", "truncated"}]
  /\ call \in [Proc -> Call]
  /\ copy \in [Proc -> Ledger]
  /\ booked \in Ledger
  /\ tracked \in Ledger
  /\ disturbed \in BOOLEAN

FileInit ==                                       \* there is no file yet
  /\ text = "empty" /\ file = EmptyLedger
  /\ step = [p \in Proc |-> "none"]
  /\ call = [p \in Proc |-> NoCall]
  /\ copy = [p \in Proc |-> EmptyLedger]
  /\ booked = EmptyLedger /\ tracked = EmptyLedger
  /\ disturbed = FALSE

-----------------------------------------------------------------------------
(* What a call does to a ledger: a withdrawal is clamped at 0.             *)

Less(a, b) == IF b >= a THEN 0 ELSE a - b

Applied(l, c) ==
  [l EXCEPT ![c.at] = IF c.op = "deposit" THEN @ + c.amount
                                          ELSE Less(@, c.amount)]

Busy(p) == step[p] # "none"

Rewriting == \E q \in Proc : step[q] = "truncated"

LoadKept(p, c) ==        \* a mutant: a ledger loaded once is changed further
  /\ ~Busy(p)
  /\ step' = [step EXCEPT ![p] = "loaded"]
  /\ call' = [call EXCEPT ![p] = c]
  /\ copy' = [copy EXCEPT ![p] = Applied(copy[p], c)]
  /\ tracked' = IF c.op = "deposit" THEN Applied(tracked, c) ELSE tracked
  /\ disturbed' = (disturbed \/ Rewriting)
  /\ UNCHANGED <<text, file, booked>>

(* _load_ledger and the change in memory.  An empty or garbled file is a   *)
(* JSONDecodeError, which reads as an empty ledger.                        *)
Load(p, c) ==
  /\ ~Busy(p)
  /\ step' = [step EXCEPT ![p] = "loaded"]
  /\ call' = [call EXCEPT ![p] = c]
  /\ copy' = [copy EXCEPT ![p] = Applied(file, c)]
  /\ tracked' = IF c.op = "deposit" THEN Applied(tracked, c) ELSE tracked
  /\ disturbed' = (disturbed \/ Rewriting)
  /\ UNCHANGED <<text, file, booked>>

Truncate(p) ==                                    \* open(path, "w")
  /\ step[p] = "loaded"
  /\ step' = [step EXCEPT ![p] = "truncated"]
  /\ text' = "empty" /\ file' = EmptyLedger
  /\ disturbed' = (disturbed \/ \E q \in Proc \ {p} : Busy(q))
  /\ UNCHANGED <<call, copy, booked, tracked>>

Forget(p) == /\ call' = [call EXCEPT ![p] = NoCall]
             /\ copy' = [copy EXCEPT ![p] = EmptyLedger]

WriteMerged(p) ==      \* a mutant: added to what another process has written
  /\ step[p] = "truncated"
  /\ step' = [step EXCEPT ![p] = "none"]
  /\ text' = "ledger" /\ file' = [k \in Place |-> file[k] + copy[p][k]]
  /\ booked' = IF disturbed THEN booked ELSE Applied(booked, call[p])
  /\ Forget(p)
  /\ UNCHANGED <<tracked, disturbed>>

(* json.dump into a file that another process may have written since: the  *)
(* end of a longer text stays behind, and nobody can parse the two.        *)
Write(p) ==
  /\ step[p] = "truncated"
  /\ step' = [step EXCEPT ![p] = "none"]
  /\ \/ text' = "ledger" /\ file' = copy[p]
     \/ text # "empty" /\ text' = "garbled" /\ file' = EmptyLedger
  /\ booked' = IF disturbed THEN booked ELSE Applied(booked, call[p])
  /\ Forget(p)
  /\ UNCHANGED <<tracked, disturbed>>

Die(p) ==                              \* the process ends, in a call or not
  /\ step' = [step EXCEPT ![p] = "none"]
  /\ disturbed' = (disturbed \/ step[p] = "truncated")
  /\ Forget(p)
  /\ UNCHANGED <<text, file, booked, tracked>>

FileNext ==
  \E p \in Proc :
    \/ \E c \in Call : Load(p, c)
    \/ Truncate(p)
    \/ Write(p)
    \/ Die(p)

FileSpec == FileInit /\ [][FileNext]_fileVars

-----------------------------------------------------------------------------
(* However the calls of several processes overlap and wherever a process   *)
(* dies, the file shows no more at a place than track_deposit was called   *)
(* with there in all: an overlap never adds two copies up                  *)
(* (harvester.py:51-101).  Calls are counted and not deposits, since       *)
(* executor.py:495 tracks one that a limit then stops.  Nor does the bound *)
(* fall: what is withdrawn and deposited again is tracked twice, and the   *)
(* file shows it twice when the track_withdrawal between is lost.          *)
WithinTracked == \A k \in Place : file[k] <= tracked[k]

(* Calls of which none was inside another one when that one truncated the  *)
(* file, and none died between truncation and writing, leave exactly what  *)
(* they would leave one after the other (harvester.py:63-101); a call that *)
(* dies before it truncates has not been made.                             *)
SerialExact ==
  ~disturbed /\ ~Rewriting => file = booked
=============================================================================
