---------------------------- MODULE CommandsProofs ----------------------------
(***************************************************************************)
(* What the positions file guarantees the commands of a host, what config  *)
(* set does to what load_dotenv reads, when wallet balance shows another   *)
(* address than the agent signs with, and how far overlapping commands     *)
(* stretch the limits: for every .env file, any number of commands and     *)
(* places and all amounts and limits.                                      *)
(***************************************************************************)
EXTENDS Commands, Sums, WellFoundedInduction

-----------------------------------------------------------------------------
(* The positions file, for any number of processes and places, however     *)
(* their calls overlap and wherever they die.                              *)

(* No ledger, in the file or in a process, shows more than was tracked.    *)
Bounded ==
  \A k \in Place : /\ file[k] <= tracked[k]
                   /\ \A p \in Proc : copy[p][k] <= tracked[k]

(* As long as nothing was disturbed: a call that is to be written next is  *)
(* alone with the file, and holds what the calls before it and itself      *)
(* leave one after the other.                                              *)
InTurn ==
  ~disturbed =>
    /\ \A p \in Proc : step[p] = "loaded" /\ ~Rewriting
                         => copy[p] = Applied(file, call[p])
    /\ \A p \in Proc : step[p] = "truncated" =>
         /\ copy[p] = Applied(booked, call[p]) /\ text = "empty"
         /\ \A q \in Proc \ {p} : step[q] = "none"
    /\ ~Rewriting => file = booked

FileInv == FileTypeOK /\ Bounded /\ InTurn

-----------------------------------------------------------------------------
(* A call changes a ledger at its place only, into a number again.         *)
LEMMA AppliedType ==
  ASSUME NEW l \in Ledger, NEW c \in Call
  PROVE  /\ Applied(l, c) \in Ledger
         /\ \A k \in Place : k # c.at => Applied(l, c)[k] = l[k]
         /\ c.op = "deposit" => Applied(l, c)[c.at] = l[c.at] + c.amount
         /\ c.op # "deposit" => Applied(l, c)[c.at] <= l[c.at]
<1>1. c.at \in Place /\ c.amount \in Nat /\ l[c.at] \in Nat
  BY DEF Call, Ledger
<1>2. Less(l[c.at], c.amount) \in Nat /\ Less(l[c.at], c.amount) <= l[c.at]
  BY <1>1 DEF Less
<1> QED BY <1>1, <1>2 DEF Applied, Ledger

(* An empty file that nobody has open satisfies the invariant.             *)
THEOREM FileStarts == FileInit => FileInv
<1> SUFFICES ASSUME FileInit PROVE FileInv
  OBVIOUS
<1>1. NoCall \in Call /\ EmptyLedger \in Ledger
  BY PlaceAssumption DEF NoCall, Call, EmptyLedger, Ledger
<1>2. FileTypeOK
  <2>1. /\ text \in {"empty", "garbled", "ledger"} /\ file \in Ledger
        /\ booked \in Ledger /\ tracked \in Ledger
    BY <1>1 DEF FileInit
  <2>2. /\ step \in [Proc -> {"none", "loaded", "truncated"}]
        /\ call \in [Proc -> Call] /\ copy \in [Proc -> Ledger]
    BY <1>1 DEF FileInit
  <2>3. disturbed \in BOOLEAN
    BY DEF FileInit
  <2> QED BY <2>1, <2>2, <2>3 DEF FileTypeOK
<1>3. Bounded
  BY DEF Bounded, FileInit, EmptyLedger
<1>4. InTurn
  BY DEF InTurn, FileInit, Rewriting
<1> QED BY <1>2, <1>3, <1>4 DEF FileInv

-----------------------------------------------------------------------------
(* Each step of a call, and a death in it.                                 *)

(* A call reads the file and works out what it is to leave there           *)
(* (harvester.py:19-29 and 63-101).                                        *)
LEMMA LoadKeeps ==
  ASSUME FileInv, NEW p \in Proc, NEW c \in Call, Load(p, c)
  PROVE  FileInv'
<1>1. FileTypeOK /\ Bounded /\ InTurn
  BY DEF FileInv
<1> DEFINE new == Applied(file, c)
<1>2. /\ new \in Ledger /\ Applied(tracked, c) \in Ledger
      /\ tracked' \in Ledger
  BY <1>1, AppliedType DEF FileTypeOK, Load
<1>3. FileTypeOK'
  <2>1. disturbed' \in BOOLEAN
    BY DEF Load
  <2>2. /\ step' \in [Proc -> {"none", "loaded", "truncated"}]
        /\ call' \in [Proc -> Call] /\ copy' \in [Proc -> Ledger]
    BY <1>1, <1>2 DEF FileTypeOK, Load
  <2>3. UNCHANGED <<text, file, booked>>
    BY DEF Load
  <2> QED BY <1>1, <1>2, <2>1, <2>2, <2>3 DEF FileTypeOK
<1>4. Bounded'
  <2> SUFFICES ASSUME NEW k \in Place
               PROVE  /\ file'[k] <= tracked'[k]
                      /\ \A q \in Proc : copy'[q][k] <= tracked'[k]
    BY DEF Bounded
  <2>1. /\ file[k] \in Nat /\ tracked[k] \in Nat /\ new[k] \in Nat
        /\ tracked'[k] \in Nat /\ c.amount \in Nat
    BY <1>1, <1>2 DEF FileTypeOK, Ledger, Call
  <2>2. file[k] <= tracked[k]
    BY <1>1 DEF Bounded
  <2>3. tracked[k] <= tracked'[k] /\ new[k] <= tracked'[k]
    <3>1. CASE c.op = "deposit"
      <4>1. tracked' = Applied(tracked, c)
        BY <3>1 DEF Load
      <4>2. CASE k = c.at
        <5>1. tracked'[k] = tracked[k] + c.amount /\ new[k] = file[k] + c.amount
          BY <1>1, <3>1, <4>1, <4>2, AppliedType DEF FileTypeOK
        <5> HIDE DEF new
        <5> QED BY <5>1, <2>1, <2>2
      <4>3. CASE k # c.at
        <5>1. tracked'[k] = tracked[k] /\ new[k] = file[k]
          BY <1>1, <4>1, <4>3, AppliedType DEF FileTypeOK
        <5> HIDE DEF new
        <5> QED BY <5>1, <2>1, <2>2
      <4> QED BY <4>2, <4>3
    <3>2. CASE c.op # "deposit"
      <4>1. tracked' = tracked
        BY <3>2 DEF Load
      <4>2. new[k] <= file[k]
        <5>1. k # c.at => new[k] = file[k]
          BY <1>1, AppliedType DEF FileTypeOK
        <5>2. k = c.at => new[k] <= file[k]
          BY <1>1, <3>2, AppliedType DEF FileTypeOK
        <5> HIDE DEF new
        <5> QED BY <5>1, <5>2, <2>1
      <4> HIDE DEF new
      <4> QED BY <4>1, <4>2, <2>1, <2>2
    <3> QED BY <3>1, <3>2
  <2>4. file' = file
    BY DEF Load
  <2>5. \A q \in Proc : copy'[q] = IF q = p THEN new ELSE copy[q]
    BY <1>1 DEF Load, FileTypeOK
  <2>6. \A q \in Proc : copy[q][k] \in Nat /\ copy[q][k] <= tracked[k]
    BY <1>1 DEF FileTypeOK, Ledger, Bounded
  <2> HIDE DEF new
  <2>7. file'[k] <= tracked'[k]
    BY <2>1, <2>2, <2>3, <2>4
  <2>8. ASSUME NEW q \in Proc PROVE copy'[q][k] <= tracked'[k]
    BY <2>1, <2>3, <2>5, <2>6
  <2> QED BY <2>7, <2>8
<1>5. InTurn'
  <2> SUFFICES ASSUME ~disturbed' PROVE InTurn'
    BY DEF InTurn
  <2>1. ~disturbed /\ ~Rewriting /\ UNCHANGED <<text, file, booked>>
    BY DEF Load
  <2>2. /\ \A q \in Proc : step'[q] = IF q = p THEN "loaded" ELSE step[q]
        /\ \A q \in Proc : call'[q] = IF q = p THEN c ELSE call[q]
        /\ \A q \in Proc : copy'[q] = IF q = p THEN new ELSE copy[q]
    BY <1>1 DEF Load, FileTypeOK
  <2>3. ~Rewriting'
    BY <2>1, <2>2 DEF Rewriting
  <2> QED BY <1>1, <2>1, <2>2, <2>3 DEF InTurn, Rewriting
<1> QED BY <1>3, <1>4, <1>5 DEF FileInv

(* A call opens the file for writing, which empties it                     *)
(* (harvester.py:32-34).                                                   *)
LEMMA TruncateKeeps ==
  ASSUME FileInv, NEW p \in Proc, Truncate(p)
  PROVE  FileInv'
<1>1. FileTypeOK /\ Bounded /\ InTurn
  BY DEF FileInv
<1>2. EmptyLedger \in Ledger
  BY DEF EmptyLedger, Ledger
<1>3. FileTypeOK'
  <2>1. disturbed' \in BOOLEAN
    BY DEF Truncate
  <2>2. /\ step' \in [Proc -> {"none", "loaded", "truncated"}]
        /\ text' = "empty" /\ file' \in Ledger
        /\ UNCHANGED <<call, copy, booked, tracked>>
    BY <1>1, <1>2 DEF FileTypeOK, Truncate
  <2> QED BY <1>1, <2>1, <2>2 DEF FileTypeOK
<1>4. Bounded'
  <2>1. \A k \in Place : tracked[k] \in Nat /\ EmptyLedger[k] = 0
    BY <1>1 DEF FileTypeOK, Ledger, EmptyLedger
  <2> QED BY <1>1, <2>1 DEF Bounded, Truncate
<1>5. InTurn'
  <2> SUFFICES ASSUME ~disturbed' PROVE InTurn'
    BY DEF InTurn
  <2>1. /\ ~disturbed /\ step[p] = "loaded" /\ \A q \in Proc \ {p} : step[q] = "none"
        /\ text' = "empty" /\ UNCHANGED <<call, copy, booked>>
    BY DEF Truncate, Busy
  <2>2. \A q \in Proc : step'[q] = IF q = p THEN "truncated" ELSE step[q]
    BY <1>1 DEF Truncate, FileTypeOK
  <2>3. ~Rewriting
    BY <2>1 DEF Rewriting
  <2>4. copy[p] = Applied(booked, call[p])
    BY <1>1, <2>1, <2>3 DEF InTurn
  <2>5. Rewriting'
    BY <2>2 DEF Rewriting
  <2>6. copy'[p] = Applied(booked', call'[p])
    BY <2>1, <2>4 DEF Applied
  <2> QED BY <2>1, <2>2, <2>5, <2>6 DEF InTurn
<1> QED BY <1>3, <1>4, <1>5 DEF FileInv

(* A call that is over leaves its process an empty ledger and the others   *)
(* as they were.                                                           *)
LEMMA ForgetKeeps ==
  ASSUME FileTypeOK, NEW p \in Proc, Forget(p)
  PROVE  /\ call' \in [Proc -> Call] /\ copy' \in [Proc -> Ledger]
         /\ \A q \in Proc : q # p => call'[q] = call[q] /\ copy'[q] = copy[q]
         /\ copy'[p] = EmptyLedger
<1>1. NoCall \in Call /\ EmptyLedger \in Ledger
  BY PlaceAssumption DEF NoCall, Call, EmptyLedger, Ledger
<1> QED BY <1>1 DEF Forget, FileTypeOK

(* A call writes its ledger into the file (harvester.py:32-35).            *)
LEMMA WriteKeeps ==
  ASSUME FileInv, NEW p \in Proc, Write(p)
  PROVE  FileInv'
<1>1. FileTypeOK /\ Bounded /\ InTurn
  BY DEF FileInv
<1>2. EmptyLedger \in Ledger /\ copy[p] \in Ledger /\ call[p] \in Call
  BY <1>1 DEF EmptyLedger, Ledger, FileTypeOK
<1>3. Forget(p) /\ UNCHANGED <<tracked, disturbed>> /\ step[p] = "truncated"
  BY DEF Write
<1>4. \A q \in Proc : step'[q] = IF q = p THEN "none" ELSE step[q]
  BY <1>1 DEF Write, FileTypeOK
<1>5. FileTypeOK'
  <2>1. /\ text' \in {"empty", "garbled", "ledger"} /\ file' \in Ledger
        /\ step' \in [Proc -> {"none", "loaded", "truncated"}]
    BY <1>1, <1>2 DEF Write, FileTypeOK
  <2>2. booked' \in Ledger
    BY <1>1, <1>2, AppliedType DEF Write, FileTypeOK
  <2>3. call' \in [Proc -> Call] /\ copy' \in [Proc -> Ledger]
    BY <1>1, <1>3, ForgetKeeps
  <2> QED BY <1>1, <1>3, <2>1, <2>2, <2>3 DEF FileTypeOK
<1>6. Bounded'
  <2>1. \A k \in Place : tracked[k] \in Nat /\ EmptyLedger[k] = 0
    BY <1>1 DEF FileTypeOK, Ledger, EmptyLedger
  <2>2. file' = copy[p] \/ file' = EmptyLedger
    BY DEF Write
  <2>3. \A q \in Proc : copy'[q] = copy[q] \/ copy'[q] = EmptyLedger
    BY <1>1, <1>3, ForgetKeeps
  <2> QED BY <1>1, <1>3, <2>1, <2>2, <2>3 DEF Bounded
<1>7. InTurn'
  <2> SUFFICES ASSUME ~disturbed' PROVE InTurn'
    BY DEF InTurn
  <2>1. /\ ~disturbed /\ text = "empty" /\ copy[p] = Applied(booked, call[p])
        /\ \A q \in Proc \ {p} : step[q] = "none"
    BY <1>1, <1>3 DEF InTurn
  <2>2. file' = booked'
    BY <2>1 DEF Write
  <2>3. \A q \in Proc : step'[q] = "none"
    BY <1>4, <2>1
  <2> QED BY <2>2, <2>3 DEF InTurn
<1> QED BY <1>5, <1>6, <1>7 DEF FileInv

(* A process dies between two steps of a call; what it had emptied stays   *)
(* empty.                                                                  *)
LEMMA DieKeeps ==
  ASSUME FileInv, NEW p \in Proc, Die(p)
  PROVE  FileInv'
<1>1. FileTypeOK /\ Bounded /\ InTurn
  BY DEF FileInv
<1>2. Forget(p) /\ UNCHANGED <<text, file, booked, tracked>>
  BY DEF Die
<1>3. \A q \in Proc : step'[q] = IF q = p THEN "none" ELSE step[q]
  BY <1>1 DEF Die, FileTypeOK
<1>4. FileTypeOK'
  <2>1. disturbed' \in BOOLEAN
    BY DEF Die
  <2>2. step' \in [Proc -> {"none", "loaded", "truncated"}]
    BY <1>1 DEF Die, FileTypeOK
  <2>3. call' \in [Proc -> Call] /\ copy' \in [Proc -> Ledger]
    BY <1>1, <1>2, ForgetKeeps
  <2> QED BY <1>1, <1>2, <2>1, <2>2, <2>3 DEF FileTypeOK
<1>5. Bounded'
  <2>1. \A k \in Place : tracked[k] \in Nat /\ EmptyLedger[k] = 0
    BY <1>1 DEF FileTypeOK, Ledger, EmptyLedger
  <2>2. \A q \in Proc : copy'[q] = copy[q] \/ copy'[q] = EmptyLedger
    BY <1>1, <1>2, ForgetKeeps
  <2> QED BY <1>1, <1>2, <2>1, <2>2 DEF Bounded
<1>6. InTurn'
  <2> SUFFICES ASSUME ~disturbed' PROVE InTurn'
    BY DEF InTurn
  <2>1. ~disturbed /\ step[p] # "truncated"
    BY DEF Die
  <2>2. Rewriting' <=> Rewriting
    BY <1>3, <2>1 DEF Rewriting
  <2>3. \A q \in Proc : q # p => copy'[q] = copy[q] /\ call'[q] = call[q]
    BY <1>1, <1>2, ForgetKeeps
  <2>4. ASSUME NEW q \in Proc, step'[q] # "none"
        PROVE  q # p /\ step'[q] = step[q] /\ copy'[q] = copy[q] /\ call'[q] = call[q]
    BY <1>3, <2>3, <2>4
  <2>5. /\ \A q \in Proc : step'[q] = "loaded" /\ ~Rewriting'
                           => copy'[q] = Applied(file', call'[q])
        /\ ~Rewriting' => file' = booked'
    BY <1>1, <1>2, <2>1, <2>2, <2>4 DEF InTurn
  <2>6. ASSUME NEW q \in Proc, step'[q] = "truncated"
        PROVE  /\ copy'[q] = Applied(booked', call'[q]) /\ text' = "empty"
               /\ \A r \in Proc \ {q} : step'[r] = "none"
    BY <1>1, <1>2, <1>3, <2>1, <2>4, <2>6 DEF InTurn
  <2> QED BY <2>5, <2>6 DEF InTurn
<1> QED BY <1>4, <1>5, <1>6 DEF FileInv

(* Every step of a process at the file keeps the invariant.                *)
THEOREM FileSteps == FileInv /\ [FileNext]_fileVars => FileInv'
<1>1. ASSUME FileInv, FileNext PROVE FileInv'
  BY <1>1, LoadKeeps, TruncateKeeps, WriteKeeps, DieKeeps DEF FileNext
<1>2. ASSUME FileInv, UNCHANGED fileVars PROVE FileInv'
  BY <1>2 DEF FileInv, FileTypeOK, Bounded, InTurn, Rewriting, fileVars
<1> QED BY <1>1, <1>2

(* The invariant of the positions file holds at all times                  *)
(* (harvester.py:19-35 and 63-101).                                        *)
THEOREM FileInvariance == FileSpec => []FileInv
BY FileStarts, FileSteps, PTL DEF FileSpec

(* The file never shows more at a place than track_deposit was called with *)
(* there in all, whatever overlaps and dies (harvester.py:51-101).         *)
THEOREM FileWithinTracked == FileSpec => []WithinTracked
<1>1. FileInv => WithinTracked
  BY DEF FileInv, Bounded, WithinTracked
<1> QED BY <1>1, FileInvariance, PTL

(* Calls that did not meet inside one another leave what they would leave  *)
(* one after the other (harvester.py:63-101).                              *)
THEOREM UndisturbedIsSerial == FileSpec => []SerialExact
<1>1. FileInv => SerialExact
  BY DEF FileInv, InTurn, SerialExact
<1> QED BY <1>1, FileInvariance, PTL

-----------------------------------------------------------------------------
(* The .env file.                                                          *)

(* A set of line numbers has a first and a last one.                       *)
LEMMA FirstAndLast ==
  ASSUME NEW N \in Nat, NEW S, S \subseteq 1..N, S # {}
  PROVE  /\ Min(S) \in S /\ \A i \in S : Min(S) <= i
         /\ Max(S) \in S /\ \A i \in S : i <= Max(S)
<1>1. \E x \in S : \A y \in S : x <= y
  <2>1. S \subseteq Nat
    OBVIOUS
  <2> QED BY <2>1, LeastNumber
<1>2. \E x \in S : \A y \in S : x >= y
  <2> DEFINE T == { N - i : i \in S }
  <2>1. T \subseteq Nat
    OBVIOUS
  <2>2. T # {}
    OBVIOUS
  <2>3. \E x \in T : \A y \in T : x <= y
    <3> HIDE DEF T
    <3> QED BY <2>1, <2>2, LeastNumber
  <2>4. PICK x \in S : \A y \in S : N - x <= N - y
    BY <2>3
  <2>5. \A y \in S : x >= y
    BY <2>4
  <2> QED BY <2>5
<1>3. Min(S) \in S /\ \A i \in S : Min(S) <= i
  BY <1>1 DEF Min
<1>4. Max(S) \in S /\ \A i \in S : Max(S) >= i
  BY <1>2 DEF Max
<1> QED BY <1>3, <1>4

(* What load_dotenv finds is the value of a line, or nothing.              *)
LEMMA LoadsValue ==
  ASSUME NEW f \in EnvFile, NEW n \in Setting
  PROVE  Loads(f, n) \in Value
<1>1. CASE Lines(f, n) = {}
  BY <1>1 DEF Loads, Value
<1>2. CASE Lines(f, n) # {}
  <2>1. Len(f) \in Nat /\ Lines(f, n) \subseteq 1..Len(f)
    BY DEF EnvFile, Lines
  <2> DEFINE i == Max(Lines(f, n))
  <2>2. i \in 1..Len(f)
    BY <1>2, <2>1, FirstAndLast
  <2> HIDE DEF i
  <2>3. f[i] \in [name : Setting, value : Value]
    <3> DEFINE E == [name : Setting, value : Value]
    <3>1. f \in Seq(E)
      BY DEF EnvFile
    <3> HIDE DEF E
    <3>2. f[i] \in E
      BY <3>1, <2>2
    <3> QED BY <3>2 DEF E
  <2> QED BY <1>2, <2>3 DEF Loads, i
<1> QED BY <1>1, <1>2

-----------------------------------------------------------------------------
(* A line of a name that is there already is changed in place.             *)
LEMMA SetInPlace ==
  ASSUME NEW f \in EnvFile, NEW n \in Setting, NEW v \in Value,
         Lines(f, n) # {}
  PROVE  /\ Min(Lines(f, n)) \in Lines(f, n)
         /\ Max(Lines(f, n)) \in Lines(f, n)
         /\ \A i \in Lines(f, n) : Min(Lines(f, n)) <= i /\ i <= Max(Lines(f, n))
         /\ \A i \in 1..Len(f) :
              ConfigSet(f, n, v)[i] =
                IF i = Min(Lines(f, n)) THEN Line(n, v) ELSE f[i]
         /\ \A m \in Setting : Lines(ConfigSet(f, n, v), m) = Lines(f, m)
<1> DEFINE E == [name : Setting, value : Value]
           first == Min(Lines(f, n))
           g == ConfigSet(f, n, v)
<1>1. f \in Seq(E) /\ Line(n, v) \in E /\ Line(n, v).name = n
  BY DEF EnvFile, Line
<1>2. Len(f) \in Nat /\ Lines(f, n) \subseteq 1..Len(f)
  BY <1>1 DEF Lines
<1>3. /\ Min(Lines(f, n)) \in Lines(f, n)
      /\ Max(Lines(f, n)) \in Lines(f, n)
      /\ \A i \in Lines(f, n) : Min(Lines(f, n)) <= i /\ i <= Max(Lines(f, n))
  BY <1>2, FirstAndLast
<1>4. first \in 1..Len(f) /\ f[first].name = n
  BY <1>3 DEF Lines
<1>5. g = [f EXCEPT ![first] = Line(n, v)]
  BY DEF ConfigSet
<1> HIDE DEF E, first, g
<1>6. Len(g) = Len(f) /\ \A i \in 1..Len(f) : g[i] = IF i = first THEN Line(n, v) ELSE f[i]
  BY <1>1, <1>4, <1>5
<1>7. \A i \in 1..Len(f) : g[i].name = f[i].name
  BY <1>1, <1>4, <1>6
<1>8. \A m \in Setting : Lines(g, m) = Lines(f, m)
  BY <1>6, <1>7 DEF Lines
<1> QED BY <1>3, <1>6, <1>8 DEF first, g

(* ... and a new name gets a line after all others.                        *)
LEMMA SetAppends ==
  ASSUME NEW f \in EnvFile, NEW n \in Setting, NEW v \in Value,
         Lines(f, n) = {}
  PROVE  /\ Lines(ConfigSet(f, n, v), n) = {Len(f) + 1}
         /\ ConfigSet(f, n, v)[Len(f) + 1] = Line(n, v)
         /\ \A m \in Setting \ {n} :
              Lines(ConfigSet(f, n, v), m) = Lines(f, m)
         /\ \A i \in 1..Len(f) : ConfigSet(f, n, v)[i] = f[i]
<1> DEFINE E == [name : Setting, value : Value]
           g == ConfigSet(f, n, v)
<1>1. f \in Seq(E) /\ Line(n, v) \in E /\ Line(n, v).name = n
  BY DEF EnvFile, Line
<1>2. g = Append(f, Line(n, v))
  BY DEF ConfigSet
<1> HIDE DEF E, g
<1>3. /\ Len(f) \in Nat /\ Len(g) = Len(f) + 1 /\ g[Len(f) + 1] = Line(n, v)
      /\ \A i \in 1..Len(f) : g[i] = f[i]
  BY <1>1, <1>2
<1>4. \A m \in Setting \ {n} : Lines(g, m) = Lines(f, m)
  BY <1>1, <1>3 DEF Lines
<1>5. Lines(g, n) = {Len(f) + 1}
  BY <1>1, <1>3 DEF Lines
<1> QED BY <1>3, <1>4, <1>5 DEF g

(* After agent-heap config set, a command that loads .env finds the value  *)
(* set, and every other setting as it was; unless the name has several     *)
(* lines (one added by hand): then config set changes the first of them,   *)
(* load_dotenv takes the last, and nothing has changed for anyone          *)
(* (config.go:105-121, cli/main.py:21).                                    *)
THEOREM ConfigSetTells ==
  ASSUME NEW f \in EnvFile, NEW n \in Setting, NEW v \in Value
  PROVE  /\ Loads(ConfigSet(f, n, v), n) =
              IF \A i, j \in Lines(f, n) : i = j THEN v ELSE Loads(f, n)
         /\ \A m \in Setting \ {n} :
              Loads(ConfigSet(f, n, v), m) = Loads(f, m)
<1> DEFINE g == ConfigSet(f, n, v)
<1>1. CASE Lines(f, n) = {}
  <2>1. Loads(g, n) = v
    <3>1. Len(f) + 1 \in Nat
      BY DEF EnvFile
    <3>2. Max({Len(f) + 1}) = Len(f) + 1
      BY <3>1 DEF Max
    <3>3. Lines(g, n) = {Len(f) + 1} /\ g[Len(f) + 1] = Line(n, v)
      BY <1>1, SetAppends
    <3> HIDE DEF g
    <3>4. Lines(g, n) # {} /\ Loads(g, n) = g[Len(f) + 1].value
      BY <3>2, <3>3 DEF Loads
    <3> QED BY <3>3, <3>4 DEF Line
  <2>2. ASSUME NEW m \in Setting \ {n} PROVE Loads(g, m) = Loads(f, m)
    <3>1. Lines(g, m) = Lines(f, m)
      BY <1>1, SetAppends
    <3>2. CASE Lines(f, m) # {}
      <4>1. Len(f) \in Nat /\ Lines(f, m) \subseteq 1..Len(f)
        BY DEF EnvFile, Lines
      <4>2. Max(Lines(f, m)) \in 1..Len(f)
        BY <3>2, <4>1, FirstAndLast
      <4>3. g[Max(Lines(f, m))] = f[Max(Lines(f, m))]
        BY <1>1, <4>2, SetAppends
      <4> QED BY <3>1, <4>3 DEF Loads
    <3> QED BY <3>1, <3>2 DEF Loads
  <2> QED BY <1>1, <2>1, <2>2
<1>2. CASE Lines(f, n) # {}
  <2> DEFINE first == Min(Lines(f, n))
             last == Max(Lines(f, n))
  <2>1. /\ first \in Lines(f, n) /\ last \in Lines(f, n)
        /\ \A i \in Lines(f, n) : first <= i /\ i <= last
        /\ \A i \in 1..Len(f) : g[i] = IF i = first THEN Line(n, v) ELSE f[i]
        /\ \A m \in Setting : Lines(g, m) = Lines(f, m)
    BY <1>2, SetInPlace
  <2>2. Lines(f, n) \subseteq 1..Len(f) /\ Len(f) \in Nat
    BY DEF Lines, EnvFile
  <2>3. Loads(g, n) = g[last].value /\ Loads(f, n) = f[last].value
    BY <1>2, <2>1 DEF Loads
  <2>4. ASSUME NEW m \in Setting \ {n} PROVE Loads(g, m) = Loads(f, m)
    <3>1. CASE Lines(f, m) # {}
      <4>1. Lines(f, m) \subseteq 1..Len(f)
        BY DEF Lines
      <4>2. Max(Lines(f, m)) \in Lines(f, m)
        BY <2>2, <3>1, <4>1, FirstAndLast
      <4>3. Max(Lines(f, m)) # first
        BY <2>1, <4>2 DEF Lines
      <4>4. g[Max(Lines(f, m))] = f[Max(Lines(f, m))]
        BY <2>1, <4>1, <4>2, <4>3
      <4> QED BY <2>1, <4>4 DEF Loads
    <3> QED BY <2>1, <3>1 DEF Loads
  <2> HIDE DEF first, last, g
  <2>5. (\A i, j \in Lines(f, n) : i = j) <=> first = last
    BY <2>1, <2>2
  <2>6. g[last] = IF last = first THEN Line(n, v) ELSE f[last]
    BY <2>1, <2>2
  <2>7. Loads(g, n) = IF \A i, j \in Lines(f, n) : i = j THEN v ELSE Loads(f, n)
    BY <2>3, <2>5, <2>6 DEF Line
  <2> QED BY <2>4, <2>7 DEF g
<1> QED BY <1>1, <1>2

(* wallet balance shows another key's address than the one agent-heap      *)
(* signs with just when a key is exported and a keystore with a different  *)
(* one opens (wallet.go:200-220, runner.go:45-71 and 99-107).              *)
THEOREM BalanceShowsSigner ==
  ASSUME NEW env \in Environment, NEW ks \in Sealed \cup {None}
  PROVE  BalanceKey(env, ks) # RunKey(env, ks)
           <=> /\ Opens(env["KEYSTORE_PASSPHRASE"], ks)
               /\ env["PRIVATE_KEY"] # None /\ env["PRIVATE_KEY"] # ks.key
<1>1. Opens(env["KEYSTORE_PASSPHRASE"], ks) => ks.key # None
  BY NoneAssumption DEF Opens, Sealed
<1> QED BY <1>1 DEF BalanceKey, RunKey, ResolvePrivateKey, Opens

-----------------------------------------------------------------------------
(* The commands: what they sign with is what RunWithKey took.              *)
SignsAs(r) ==
  r.kind # "loop" /\ r.pc \notin {"off", "ready"} => r.key = RunKey(r.env, r.ks)

HostInv ==
  /\ proc \in [Proc -> Process]
  /\ \A p \in Proc : SignsAs(proc[p])

TableOK == rows \in Seq(Nat) /\ overlaps \in Nat /\ cycles \in Nat

CInv == FileInv /\ HostInv /\ TableOK

(* What shells, .env files and keystores hold are settings; so is what     *)
(* load_dotenv makes of them and what RunWithKey takes (runner.go:45-71    *)
(* and 99-107).                                                            *)
LEMMA InputTypes ==
  /\ \A env \in Environment, ks \in Sealed \cup {None} :
       RunKey(env, ks) \in Value /\ env["PRIVATE_KEY"] \in Value
  /\ \A shell \in Environment, f \in EnvFile : Environ(shell, f) \in Environment
  /\ Shells \subseteq Environment /\ EnvFiles \subseteq EnvFile
  /\ Keystores \subseteq Sealed \cup {None}
<1>1. \A env \in Environment, ks \in Sealed \cup {None} :
        RunKey(env, ks) \in Value /\ env["PRIVATE_KEY"] \in Value
  <2> SUFFICES ASSUME NEW env \in Environment, NEW ks \in Sealed \cup {None}
               PROVE  RunKey(env, ks) \in Value /\ env["PRIVATE_KEY"] \in Value
    OBVIOUS
  <2>1. env["PRIVATE_KEY"] \in Value
    BY DEF Environment, Setting
  <2>2. ks # None => ks.key \in Value
    BY DEF Sealed, Value
  <2> QED BY <2>1, <2>2 DEF RunKey, ResolvePrivateKey, Opens
<1>2. \A shell \in Environment, f \in EnvFile : Environ(shell, f) \in Environment
  BY LoadsValue DEF Environ, Environment
<1> QED BY <1>1, <1>2, InputAssumption

(* A process that has not been started signs with nothing.                 *)
LEMMA IdleType == Idle \in Process /\ SignsAs(Idle)
<1>1. Somewhere \in Place
  BY PlaceAssumption DEF Somewhere
<1>2. None \in Value /\ NoSettings \in Environment
  BY DEF NoSettings, Environment, Value
<1>3. Idle \in Process
  BY <1>1, <1>2 DEF Idle, Process, Kind
<1>4. SignsAs(Idle)
  BY DEF SignsAs, Idle
<1> QED BY <1>3, <1>4

(* One process moves to a record of its own.                               *)
LEMMA OneMoves ==
  ASSUME HostInv, NEW p \in Proc, NEW r \in Process, SignsAs(r), Moves(p, r)
  PROVE  HostInv'
<1>1. proc' \in [Proc -> Process]
  BY DEF HostInv, Moves
<1>2. \A q \in Proc : proc'[q] = IF q = p THEN r ELSE proc[q]
  BY DEF HostInv, Moves
<1> QED BY <1>1, <1>2 DEF HostInv, SignsAs

(* A record that keeps what it signs with, on its way through a cycle.     *)
LEMMA CycleGoesOn ==
  ASSUME HostInv, NEW p \in Proc, proc[p].pc \notin {"off", "ready"},
         NEW r \in Process, Moves(p, r),
         r.kind = proc[p].kind, r.env = proc[p].env, r.ks = proc[p].ks,
         r.key = proc[p].key
  PROVE  HostInv'
<1>1. SignsAs(r)
  BY DEF HostInv, SignsAs
<1> QED BY <1>1, OneMoves

Places == {"withdraw", "gate", "simulate", "track", "limits", "send", "answer",
           "done", "ready"}

(* The changes a cycle makes to its record.                                *)
SameSigner(r, s) ==
  s.kind = r.kind /\ s.env = r.env /\ s.ks = r.ks /\ s.key = r.key

(* To go to another place changes no key.                                  *)
LEMMA PlaceChanges ==
  ASSUME NEW r \in Process, NEW l \in Places
  PROVE  [r EXCEPT !.pc = l] \in Process /\ SameSigner(r, [r EXCEPT !.pc = l])
BY DEF Process, Places, SameSigner

(* Nor does another amount, with the plan of the withdrawals or without.   *)
LEMMA AmountChanges ==
  ASSUME NEW r \in Process, NEW l \in Places, NEW a \in Nat
  PROVE  /\ [r EXCEPT !.pc = l, !.amt = a] \in Process
         /\ SameSigner(r, [r EXCEPT !.pc = l, !.amt = a])
         /\ [r EXCEPT !.pc = l, !.plan = 0, !.amt = a] \in Process
         /\ SameSigner(r, [r EXCEPT !.pc = l, !.plan = 0, !.amt = a])
<1>1. [r EXCEPT !.pc = l, !.amt = a] \in Process
  BY DEF Process, Places
<1>2. SameSigner(r, [r EXCEPT !.pc = l, !.amt = a])
  BY DEF Process, SameSigner
<1>3. [r EXCEPT !.pc = l, !.plan = 0, !.amt = a] \in Process
  BY DEF Process, Places
<1>4. SameSigner(r, [r EXCEPT !.pc = l, !.plan = 0, !.amt = a])
  BY DEF Process, SameSigner
<1> QED BY <1>1, <1>2, <1>3, <1>4

(* Nor does a deposit.                                                     *)
LEMMA SentChanges ==
  ASSUME NEW r \in Process, NEW l \in Places, NEW a \in Nat, NEW m \in Nat,
         NEW t \in Nat
  PROVE  /\ [r EXCEPT !.pc = l, !.amt = a, !.moved = m, !.promised = t] \in Process
         /\ SameSigner(r, [r EXCEPT !.pc = l, !.amt = a, !.moved = m,
                                    !.promised = t])
<1>1. [r EXCEPT !.pc = l, !.amt = a, !.moved = m, !.promised = t] \in Process
  BY DEF Process, Places
<1>2. SameSigner(r, [r EXCEPT !.pc = l, !.amt = a, !.moved = m, !.promised = t])
  BY DEF Process, SameSigner
<1> QED BY <1>1, <1>2

(* Nor does the verdict of the limits.                                     *)
LEMMA VerdictChanges ==
  ASSUME NEW r \in Process, NEW l \in Places, NEW b \in BOOLEAN, NEW c \in BOOLEAN
  PROVE  /\ [r EXCEPT !.pc = l, !.excused = b] \in Process
         /\ SameSigner(r, [r EXCEPT !.pc = l, !.excused = b])
         /\ [r EXCEPT !.pc = l, !.excused = b, !.refused = c] \in Process
         /\ SameSigner(r, [r EXCEPT !.pc = l, !.excused = b, !.refused = c])
<1>1. [r EXCEPT !.pc = l, !.excused = b] \in Process
  BY DEF Process, Places
<1>2. SameSigner(r, [r EXCEPT !.pc = l, !.excused = b])
  BY DEF Process, SameSigner
<1>3. [r EXCEPT !.pc = l, !.excused = b, !.refused = c] \in Process
  BY DEF Process, Places
<1>4. SameSigner(r, [r EXCEPT !.pc = l, !.excused = b, !.refused = c])
  BY DEF Process, SameSigner
<1> QED BY <1>1, <1>2, <1>3, <1>4

-----------------------------------------------------------------------------
(* Commands and cycles begin and end.                                      *)
LEMMA LaunchKeeps ==
  ASSUME HostInv, NEW p \in Proc, NEW kind \in Kind, NEW shell \in Shells,
         NEW f \in EnvFiles, Launch(p, kind, shell, f)
  PROVE  HostInv'
<1> DEFINE e == IF kind = "loop" THEN Environ(shell, f) ELSE shell
           r == [Idle EXCEPT !.kind = kind, !.pc = "ready", !.env = e]
<1>1. e \in Environment
  BY InputTypes
<1> HIDE DEF e
<1>2. r \in Process /\ r.pc = "ready"
  BY <1>1, IdleType DEF Process
<1>3. SignsAs(r)
  BY <1>2 DEF SignsAs
<1>4. Moves(p, r)
  BY DEF Launch, e
<1> HIDE DEF r
<1> QED BY <1>2, <1>3, <1>4, OneMoves

(* A cycle begins: run takes its key from RunWithKey, the loop from the    *)
(* environment (runner.go:45-107).                                         *)
LEMMA BeginKeeps ==
  ASSUME HostInv, FileTypeOK, NEW p \in Proc, NEW ks \in Keystores,
         NEW from \in Place, NEW at \in Place, NEW y \in Accrued,
         NEW a \in SignalAmount, Begin(p, ks, from, y, at, a)
  PROVE  HostInv'
<1> DEFINE kf == IF proc[p].kind = "loop" THEN None ELSE ks
           key == IF proc[p].kind = "loop" THEN proc[p].env["PRIVATE_KEY"]
                  ELSE RunKey(proc[p].env, ks)
<1>1. /\ proc[p] \in Process /\ proc[p].env \in Environment
      /\ ks \in Sealed \cup {None} /\ a \in Nat /\ y \in Nat
      /\ file[from] \in Nat /\ file[from] + y \in Nat
  <2>1. proc[p] \in Process /\ proc[p].env \in Environment
    BY DEF HostInv, Process
  <2>2. ks \in Sealed \cup {None}
    BY InputTypes
  <2>3. a \in Nat /\ y \in Nat /\ file[from] \in Nat
    BY LimitAssumption DEF FileTypeOK, Ledger
  <2> QED BY <2>1, <2>2, <2>3
<1>2. kf \in Sealed \cup {None} /\ key \in Value
  BY <1>1, InputTypes
<1>3. proc[p].kind # "loop" => key = RunKey(proc[p].env, kf)
  OBVIOUS
<1>4. PICK w \in {0, file[from] + y} :
        Moves(p, [proc[p] EXCEPT
          !.ks = kf, !.key = key, !.pc = IF w > 0 THEN "withdraw" ELSE "gate",
          !.plan = w, !.from = from, !.at = at, !.own = a, !.amt = a])
  BY DEF Begin
<1> HIDE DEF kf, key
<1> DEFINE l == IF w > 0 THEN "withdraw" ELSE "gate"
           r == [proc[p] EXCEPT !.ks = kf, !.key = key, !.pc = l, !.plan = w,
                                !.from = from, !.at = at, !.own = a, !.amt = a]
<1>5. l \in {"withdraw", "gate"} /\ w \in Nat
  BY <1>1
<1>6. Moves(p, r)
  BY <1>4
<1> HIDE DEF l
<1>7. r \in Process
  BY <1>1, <1>2, <1>5, ZenonT(60) DEF Process
<1>8. r.kind = proc[p].kind /\ r.env = proc[p].env /\ r.ks = kf /\ r.key = key
  BY <1>1, SMTT(30) DEF Process
<1> HIDE DEF r
<1>9. SignsAs(r)
  BY <1>3, <1>8 DEF SignsAs
<1> QED BY <1>6, <1>7, <1>9, OneMoves

(* A cycle ends, for good or until the next of the loop.                   *)
LEMMA EndKeeps ==
  ASSUME HostInv, NEW p \in Proc, Moves(p, Idle) \/ Moves(p, Waiting(p))
  PROVE  HostInv'
<1>1. CASE Moves(p, Idle)
  BY <1>1, IdleType, OneMoves
<1>2. CASE Moves(p, Waiting(p))
  <2>1. proc[p].kind \in Kind /\ proc[p].env \in Environment
    BY DEF HostInv, Process
  <2>2. Waiting(p) \in Process /\ Waiting(p).pc = "ready"
    BY <2>1, IdleType DEF Process, Waiting
  <2>3. SignsAs(Waiting(p))
    BY <2>2 DEF SignsAs
  <2> QED BY <1>2, <2>2, <2>3, OneMoves
<1> QED BY <1>1, <1>2

(* A cycle goes from place to place.                                       *)
LEMMA GotoKeeps ==
  ASSUME HostInv, NEW p \in Proc, proc[p].pc \notin {"off", "ready"},
         NEW l \in Places, Goto(p, l)
  PROVE  HostInv'
<1>1. proc[p] \in Process
  BY DEF HostInv
<1> DEFINE r == [proc[p] EXCEPT !.pc = l]
<1>2. r \in Process /\ SameSigner(proc[p], r)
  BY <1>1, PlaceChanges
<1>3. Moves(p, r)
  BY DEF Goto
<1> HIDE DEF r
<1> QED BY <1>2, <1>3, CycleGoesOn DEF SameSigner

(* A cycle answers without having sent anything.                           *)
LEMMA AnswersKeeps ==
  ASSUME HostInv, NEW p \in Proc, proc[p].pc \notin {"off", "ready"},
         NEW a \in Nat, Answers(p, a)
  PROVE  HostInv'
<1>1. proc[p] \in Process /\ "answer" \in Places
  BY SMTT(60) DEF HostInv, Places
<1> DEFINE r == [proc[p] EXCEPT !.pc = "answer", !.amt = a]
<1>2. r \in Process /\ SameSigner(proc[p], r)
  BY <1>1, AmountChanges
<1>3. Moves(p, r)
  BY DEF Answers
<1> HIDE DEF r
<1> QED BY <1>2, <1>3, CycleGoesOn DEF SameSigner

(* A cycle has withdrawn, and goes on with what it holds.                  *)
LEMMA WithdrawnKeeps ==
  ASSUME HostInv, NEW p \in Proc, proc[p].pc = "withdraw", NEW a \in Nat,
         Moves(p, [proc[p] EXCEPT !.pc = "gate", !.plan = 0, !.amt = a])
  PROVE  HostInv'
<1>1. proc[p] \in Process /\ "gate" \in Places
  BY SMTT(60) DEF HostInv, Places
<1> DEFINE r == [proc[p] EXCEPT !.pc = "gate", !.plan = 0, !.amt = a]
<1>2. r \in Process /\ SameSigner(proc[p], r)
  BY <1>1, AmountChanges
<1>3. Moves(p, r)
  OBVIOUS
<1> HIDE DEF r
<1> QED BY <1>2, <1>3, CycleGoesOn DEF SameSigner

(* A cycle deposits, or its transaction does not confirm.                  *)
LEMMA SendKeeps ==
  ASSUME HostInv, NEW p \in Proc, Send(p)
  PROVE  HostInv'
<1>1. /\ proc[p] \in Process /\ "answer" \in Places /\ proc[p].pc = "send"
      /\ proc[p].own \in Nat /\ proc[p].amt \in Nat
  BY DEF HostInv, Process, Places, Send, At
<1>2. PICK a \in {proc[p].own, proc[p].amt}, t \in {0, proc[p].own, proc[p].amt} :
        Moves(p, [proc[p] EXCEPT !.pc = "answer", !.amt = a,
                    !.moved = proc[p].amt, !.promised = t])
  BY DEF Send
<1> DEFINE r == [proc[p] EXCEPT !.pc = "answer", !.amt = a,
                                !.moved = proc[p].amt, !.promised = t]
<1>3. a \in Nat /\ t \in Nat
  BY <1>1
<1>4. r \in Process /\ SameSigner(proc[p], r)
  BY <1>1, <1>3, SentChanges
<1>5. Moves(p, r)
  BY <1>2
<1> HIDE DEF r
<1> QED BY <1>1, <1>4, <1>5, CycleGoesOn DEF SameSigner

(* A cycle has its withdrawal or its deposit written down in the positions *)
(* file.                                                                   *)
LEMMA WriteFileKeeps ==
  ASSUME HostInv, NEW p \in Proc, WriteFile(p)
  PROVE  HostInv'
<1>1. proc[p].own \in Nat /\ proc[p].plan \in Nat
  BY DEF HostInv, Process
<1>2. CASE /\ proc[p].pc = "withdraw"
           /\ Moves(p, [proc[p] EXCEPT !.pc = "gate", !.plan = 0,
                                       !.amt = proc[p].own + proc[p].plan])
  <2>1. proc[p].own + proc[p].plan \in Nat
    BY <1>1
  <2> QED BY <1>2, <2>1, WithdrawnKeeps
<1>3. CASE proc[p].pc = "simulate" /\ Answers(p, proc[p].own)
  BY <1>1, <1>3, AnswersKeeps
<1>4. CASE proc[p].pc = "track" /\ Goto(p, "limits")
  BY <1>4, GotoKeeps DEF Places
<1> QED BY <1>2, <1>3, <1>4 DEF WriteFile

(* The steps of a cycle that leave file and table alone.                   *)
LEMMA CycleKeeps ==
  ASSUME HostInv, NEW p \in Proc,
         \/ NoWithdrawal(p) \/ NoTrade(p) \/ Gate(p) \/ LimitBlocked(p)
         \/ LimitsPassed(p) \/ NotSent(p) \/ NoHandler(p)
         \/ CheckSpendingLimits(p)
  PROVE  HostInv'
<1>1. proc[p] \in Process /\ proc[p].own \in Nat /\ proc[p].amt \in Nat
      /\ proc[p].plan \in Nat
  BY DEF HostInv, Process
<1>2. CASE NoWithdrawal(p)
  <2>1. PICK a \in {proc[p].own, proc[p].own + proc[p].plan} :
          Moves(p, [proc[p] EXCEPT !.pc = "gate", !.plan = 0, !.amt = a])
    BY <1>2 DEF NoWithdrawal
  <2>2. a \in Nat /\ proc[p].pc = "withdraw"
    BY <1>1, <1>2 DEF NoWithdrawal, At
  <2> QED BY <2>1, <2>2, WithdrawnKeeps
<1>3. CASE NoTrade(p)
  <2>1. proc[p].pc = "gate"
    BY <1>3 DEF NoTrade, At
  <2>2. CASE Goto(p, IF proc[p].kind = "run" THEN "done" ELSE "ready")
    BY <2>1, <2>2, GotoKeeps DEF Places
  <2>3. CASE Answers(p, 0)
    BY <2>1, <2>3, AnswersKeeps
  <2> QED BY <1>3, <2>2, <2>3 DEF NoTrade
<1>4. CASE Gate(p)
  BY <1>4, GotoKeeps DEF Gate, At, Places
<1>5. CASE LimitBlocked(p)
  BY <1>5, GotoKeeps DEF LimitBlocked, At, Places
<1>6. CASE LimitsPassed(p)
  <2>1. PICK b \in BOOLEAN : Moves(p, [proc[p] EXCEPT !.pc = "send", !.excused = b])
    BY <1>6, ZenonT(60) DEF LimitsPassed
  <2> DEFINE r == [proc[p] EXCEPT !.pc = "send", !.excused = b]
  <2>2. r \in Process /\ SameSigner(proc[p], r)
    BY <1>1, VerdictChanges DEF Places
  <2>3. Moves(p, r) /\ proc[p].pc = "limits"
    BY <1>6, <2>1 DEF LimitsPassed, At
  <2> HIDE DEF r
  <2> QED BY <2>2, <2>3, CycleGoesOn DEF SameSigner
<1>7. CASE NotSent(p)
  BY <1>1, <1>7, AnswersKeeps DEF NotSent, At
<1>8. CASE NoHandler(p)
  BY <1>8, GotoKeeps DEF NoHandler, At, Places
<1>9. CASE CheckSpendingLimits(p)
  <2>1. PICK b, c \in BOOLEAN :
          Moves(p, [proc[p] EXCEPT !.pc = "done", !.excused = b, !.refused = c])
    BY <1>9, ZenonT(60) DEF CheckSpendingLimits
  <2> DEFINE r == [proc[p] EXCEPT !.pc = "done", !.excused = b, !.refused = c]
  <2>2. r \in Process /\ SameSigner(proc[p], r)
    BY <1>1, VerdictChanges DEF Places
  <2>3. Moves(p, r) /\ proc[p].pc = "answer"
    BY <1>9, <2>1 DEF CheckSpendingLimits, At
  <2> HIDE DEF r
  <2> QED BY <2>2, <2>3, CycleGoesOn DEF SameSigner
<1> QED BY <1>2, <1>3, <1>4, <1>5, <1>6, <1>7, <1>8, <1>9

(* A cycle has its row, or the refusal of its trade.                       *)
LEMMA SaveKeeps ==
  ASSUME HostInv, NEW p \in Proc, proc' = Booked(p)
  PROVE  HostInv'
<1> DEFINE mark(q) == proc[q].overtaken \/ (proc[q].kind = "run" /\ Unbooked(q))
           r(q) == [proc[q] EXCEPT !.overtaken = mark(q)]
<1>1. proc[p].kind \in Kind /\ proc[p].env \in Environment
  BY DEF HostInv, Process
<1>2. Waiting(p) \in Process /\ Waiting(p).pc = "ready"
  BY <1>1, IdleType DEF Process, Waiting
<1>3. ASSUME NEW q \in Proc
      PROVE  /\ r(q) \in Process /\ r(q).pc = proc[q].pc
             /\ SameSigner(proc[q], r(q)) /\ SignsAs(proc[q])
  <2>1. proc[q] \in Process /\ SignsAs(proc[q])
    BY DEF HostInv
  <2>2. mark(q) \in BOOLEAN
    BY <2>1 DEF Process
  <2> HIDE DEF mark
  <2>3. r(q) \in Process
    BY <2>1, <2>2 DEF Process
  <2>4. r(q).pc = proc[q].pc /\ SameSigner(proc[q], r(q))
    BY <2>1 DEF Process, SameSigner
  <2> QED BY <2>1, <2>3, <2>4
<1>4. \A q \in Proc : proc'[q] = IF q = p THEN Waiting(p) ELSE r(q)
  BY DEF Booked
<1>5. \E d : proc' = [q \in Proc |-> d[q]]
  <2>1. proc' = [q \in Proc |-> Booked(p)[q]]
    BY DEF Booked
  <2> QED BY <2>1
<1> HIDE DEF r
<1>6. \A q \in Proc : proc'[q] \in Process /\ SignsAs(proc'[q])
  BY <1>2, <1>3, <1>4 DEF SignsAs, SameSigner
<1> QED BY <1>5, <1>6 DEF HostInv

(* Every step of the host keeps the types of its processes and their keys. *)
LEMMA HostSteps == FileTypeOK /\ HostInv /\ [Next]_vars => HostInv'
<1>1. ASSUME FileTypeOK, HostInv, UNCHANGED vars PROVE HostInv'
  BY <1>1 DEF vars, hostVars, HostInv, SignsAs
<1>2. ASSUME FileTypeOK, HostInv, Next PROVE HostInv'
  <2>1. PICK p \in Proc :
          \/ \E kind \in Kind, shell \in Shells, f \in EnvFiles :
               Launch(p, kind, shell, f)
          \/ \E ks \in Keystores, from, at \in Place, y \in Accrued,
                a \in SignalAmount : Begin(p, ks, from, y, at, a)
          \/ Halt(p)
          \/ LoadFile(p) \/ TruncateFile(p) \/ WriteFile(p)
          \/ NoWithdrawal(p) \/ NoTrade(p) \/ Gate(p)
          \/ LimitBlocked(p) \/ LimitsPassed(p)
          \/ NotSent(p) \/ NoHandler(p) \/ Send(p)
          \/ SaveTrade(p) \/ Unsaved(p) \/ CheckSpendingLimits(p)
          \/ Quit(p)
    BY <1>2 DEF Next
  <2>2. CASE \E kind \in Kind, shell \in Shells, f \in EnvFiles :
               Launch(p, kind, shell, f)
    BY <1>2, <2>2, LaunchKeeps
  <2>3. CASE \E ks \in Keystores, from, at \in Place, y \in Accrued,
                a \in SignalAmount : Begin(p, ks, from, y, at, a)
    BY <1>2, <2>3, BeginKeeps
  <2>4. CASE Halt(p) \/ Quit(p) \/ Unsaved(p)
    BY <1>2, <2>4, EndKeeps DEF Halt, Quit, Unsaved
  <2>5. CASE LoadFile(p) \/ TruncateFile(p)
    BY <1>2, <2>5 DEF LoadFile, TruncateFile, hostVars, HostInv, SignsAs
  <2>6. CASE WriteFile(p)
    BY <1>2, <2>6, WriteFileKeeps
  <2>7. CASE Send(p)
    BY <1>2, <2>7, SendKeeps
  <2>8. CASE SaveTrade(p)
    BY <1>2, <2>8, SaveKeeps DEF SaveTrade
  <2>9. CASE \/ NoWithdrawal(p) \/ NoTrade(p) \/ Gate(p) \/ LimitBlocked(p)
             \/ LimitsPassed(p) \/ NotSent(p) \/ NoHandler(p)
             \/ CheckSpendingLimits(p)
    BY <1>2, <2>9, CycleKeeps
  <2> QED BY <2>1, <2>2, <2>3, <2>4, <2>5, <2>6, <2>7, <2>8, <2>9
<1> QED BY <1>1, <1>2

-----------------------------------------------------------------------------
(* What the commands do to the positions file are calls of it.             *)
LEMMA CallsOfTheFile == HostInv /\ [Next]_vars => [FileNext]_fileVars
<1>1. ASSUME UNCHANGED vars PROVE UNCHANGED fileVars
  BY <1>1 DEF vars, fileVars
<1>2. ASSUME HostInv, NEW p \in Proc, LoadFile(p)
      PROVE  \E c \in Call : Load(p, c)
  <2>1. /\ proc[p].from \in Place /\ proc[p].at \in Place
        /\ proc[p].plan \in Nat /\ proc[p].own \in Nat /\ proc[p].amt \in Nat
    BY <1>2 DEF HostInv, Process
  <2>2. Load(p, Tracked(p)) /\ proc[p].pc \in {"withdraw", "simulate", "track"}
    BY <1>2 DEF LoadFile
  <2>3. Tracked(p) \in Call
    <3>1. CASE proc[p].pc = "withdraw"
      BY <2>1, <3>1 DEF Tracked, Call
    <3>2. CASE proc[p].pc = "simulate"
      BY <2>1, <3>2 DEF Tracked, Call
    <3>3. CASE proc[p].pc = "track"
      BY <2>1, <3>3 DEF Tracked, Call
    <3> QED BY <2>2, <3>1, <3>2, <3>3
  <2> QED BY <2>2, <2>3
<1>3. ASSUME NEW p \in Proc,
             \/ TruncateFile(p) \/ WriteFile(p) \/ Halt(p)
      PROVE  FileNext
  BY <1>3, SMTT(60) DEF TruncateFile, WriteFile, Halt, FileNext
<1>4. ASSUME NEW p \in Proc,
             \/ \E kind \in Kind, shell \in Shells, f \in EnvFiles :
                  Launch(p, kind, shell, f)
             \/ \E ks \in Keystores, from, at \in Place, y \in Accrued,
                   a \in SignalAmount : Begin(p, ks, from, y, at, a)
             \/ NoWithdrawal(p) \/ NoTrade(p) \/ Gate(p) \/ LimitBlocked(p)
             \/ LimitsPassed(p) \/ NotSent(p) \/ NoHandler(p) \/ Send(p)
             \/ SaveTrade(p) \/ Unsaved(p) \/ CheckSpendingLimits(p) \/ Quit(p)
      PROVE  UNCHANGED fileVars
  BY <1>4 DEF Launch, Begin, NoWithdrawal, NoTrade, Gate, LimitBlocked,
              LimitsPassed, NotSent, NoHandler, Send, SaveTrade, Unsaved,
              CheckSpendingLimits, Quit
<1>5. ASSUME HostInv, Next PROVE FileNext \/ UNCHANGED fileVars
  <2> USE <1>5
  <2>1. (\E p \in Proc : LoadFile(p)) => FileNext
    BY <1>2 DEF FileNext
  <2> QED BY <1>3, <1>4, <2>1 DEF Next
<1> QED BY <1>1, <1>5

(* The host starts with no command running.                                *)
LEMMA HostStarts == Init => FileInit /\ HostInv
BY IdleType DEF Init, HostInv

(* The host is a system of processes at the positions file, and its        *)
(* processes keep their types and keys.                                    *)
LEMMA HostInvariance == Spec => FileSpec /\ []FileInv /\ []HostInv
<1>1. FileInv => FileTypeOK
  BY DEF FileInv
<1>2. Init => FileInv /\ HostInv
  BY HostStarts, FileStarts
<1>3. FileInv /\ HostInv /\ [Next]_vars => FileInv' /\ HostInv'
  BY <1>1, HostSteps, CallsOfTheFile, FileSteps
<1>4. Spec => [](FileInv /\ HostInv)
  BY <1>2, <1>3, PTL DEF Spec
<1> QED BY <1>4, HostStarts, CallsOfTheFile, PTL DEF Spec, FileSpec

(* However the commands of a host overlap, fail and die, the positions     *)
(* file never shows more at a place than track_deposit was called with     *)
(* there in all (harvester.py:51-101).                                     *)
THEOREM HostWithinTracked == Spec => []WithinTracked
BY HostInvariance, FileWithinTracked, PTL

(* ... and where no two of their calls met inside one another, it shows    *)
(* what the calls leave one after the other (harvester.py:63-101).         *)
THEOREM HostIsSerial == Spec => []SerialExact
BY HostInvariance, UndisturbedIsSerial, PTL

(* During a cycle wallet balance looks at another address than the cycle   *)
(* signs with just when a key is exported and a keystore with a different  *)
(* one opens (wallet.go:200-220 against runner.go:45-71 and 99-107).       *)
THEOREM SignerAsShown == Spec => []SignerIsShown
<1>1. HostInv => SignerIsShown
  <2> SUFFICES ASSUME HostInv, NEW p \in Proc, proc[p].kind # "loop",
                      proc[p].pc \notin {"off", "ready"}
               PROVE  BalanceKey(proc[p].env, proc[p].ks) # proc[p].key
                        <=> /\ Opens(proc[p].env["KEYSTORE_PASSPHRASE"], proc[p].ks)
                            /\ proc[p].env["PRIVATE_KEY"] # None
                            /\ proc[p].env["PRIVATE_KEY"] # proc[p].ks.key
    BY DEF SignerIsShown
  <2>1. proc[p].env \in Environment /\ proc[p].ks \in Sealed \cup {None}
    BY DEF HostInv, Process
  <2>2. proc[p].key = RunKey(proc[p].env, proc[p].ks)
    BY DEF HostInv, SignsAs
  <2> QED BY <2>1, <2>2, BalanceShowsSigner
<1> QED BY <1>1, HostInvariance, PTL

(* Every reachable state of the host has its types.                        *)
THEOREM HostTypes == Spec => []TypeOK
<1>1. Init => TableOK
  BY LimitAssumption DEF Init, TableOK
<1>2. ASSUME HostInv, TableOK, [Next]_vars PROVE TableOK'
  <2>1. ASSUME NEW p \in Proc,
               \/ \E kind \in Kind, shell \in Shells, f \in EnvFiles :
                    Launch(p, kind, shell, f)
               \/ Halt(p) \/ LoadFile(p) \/ TruncateFile(p) \/ WriteFile(p)
               \/ NoWithdrawal(p) \/ NoTrade(p) \/ Gate(p) \/ LimitBlocked(p)
        PROVE  UNCHANGED <<rows, overlaps, cycles>>
    BY <2>1 DEF hostVars, Launch, Halt, LoadFile, TruncateFile, WriteFile,
                NoWithdrawal, NoTrade, Gate, LimitBlocked
  <2>2. ASSUME NEW p \in Proc,
               \/ NotSent(p) \/ NoHandler(p) \/ Send(p) \/ Unsaved(p)
               \/ CheckSpendingLimits(p) \/ Quit(p)
        PROVE  UNCHANGED <<rows, overlaps, cycles>>
    BY <2>2 DEF NotSent, NoHandler, Send, Unsaved, CheckSpendingLimits, Quit
  <2>3. ASSUME NEW p \in Proc, NEW ks \in Keystores, NEW from \in Place,
               NEW at \in Place, NEW y \in Accrued, NEW a \in SignalAmount,
               Begin(p, ks, from, y, at, a)
        PROVE  cycles' = cycles + 1 /\ UNCHANGED <<rows, overlaps>>
    BY <2>3 DEF Begin
  <2>4. ASSUME NEW p \in Proc, LimitsPassed(p)
        PROVE  overlaps' \in {overlaps, overlaps + 1} /\ UNCHANGED <<rows, cycles>>
    BY <2>4 DEF LimitsPassed
  <2>5. ASSUME NEW p \in Proc, SaveTrade(p)
        PROVE  rows' \in Seq(Nat) /\ UNCHANGED <<overlaps, cycles>>
    <3>1. proc[p].amt \in Nat
      BY <1>2 DEF HostInv, Process
    <3> QED BY <1>2, <2>5, <3>1 DEF SaveTrade, TableOK
  <2>6. CASE UNCHANGED vars
    BY <1>2, <2>6 DEF vars, hostVars, TableOK
  <2>7. CASE Next
    BY <1>2, <2>1, <2>2, <2>3, <2>4, <2>5, <2>7 DEF Next, TableOK
  <2> QED BY <1>2, <2>6, <2>7
<1>3. FileInv /\ HostInv /\ TableOK => TypeOK
  BY DEF FileInv, HostInv, TableOK, TypeOK
<1>4. Spec => []TableOK
  BY <1>1, <1>2, HostInvariance, PTL DEF Spec
<1> QED BY <1>3, <1>4, HostInvariance, PTL

-----------------------------------------------------------------------------
(* The limits.  A process is on its way to the chain with an amount its    *)
(* check has held against the limits, or has deposited what a row is to    *)
(* tell of.                                                                *)
Hold(r) == IF r.pc = "send" /\ r.kind # "run" /\ ~r.excused THEN r.amt ELSE 0

Due == [q \in Proc |-> proc[q].promised]

Held == [q \in Proc |-> Hold(proc[q])]

(* What a process has let through holds to MAX_TX_AMOUNT; a row is to tell *)
(* of all that was sent; and while nobody booked, a trade of run that its  *)
(* own check let through still fits under the rows, which add up to v.     *)
Sound(r, v) ==
  /\ r.pc \in {"withdraw", "gate", "track", "limits", "send"} => r.own <= r.amt
  /\ r.pc = "send" /\ ~r.excused => r.amt <= MaxTx
  /\ r.promised > 0 => /\ r.pc = "answer" /\ r.kind # "run"
                       /\ r.promised = r.amt /\ r.amt <= MaxTx
  /\ r.moved > 0 => r.pc \in {"answer", "done"}
  /\ r.refused => r.pc = "done" /\ (r.moved > 0 => r.excused \/ r.overtaken)
  /\ /\ r.kind = "run" /\ ~r.excused /\ ~r.overtaken
     /\ r.pc = "send" \/ (r.pc = "answer" /\ r.moved > 0)
     => r.amt <= MaxTx /\ v + r.amt <= DailyCap

AllSound == \A p \in Proc : Sound(proc[p], Volume(rows))

Accounted ==
  /\ sent \in Nat /\ escaped \in Nat
  /\ sent <= (Volume(rows) + SumOf(Due)) + escaped
  /\ sent + SumOf(Held) <= (DailyCap + overlaps * MaxTx) + escaped

LimitInv == AllSound /\ Accounted

(* The sum of the rows.                                                    *)
LEMMA VolumeIsSum ==
  ASSUME NEW s \in Seq(Nat)
  PROVE  Volume(s) = SumOf(s) /\ Volume(s) \in Nat
<1>1. Volume(s) = SumOf(s)
  BY SumIsFold DEF Volume
<1>2. s \in [1..Len(s) -> Nat] /\ Len(s) \in Nat
  OBVIOUS
<1>3. IsFiniteSet(1..Len(s))
  BY <1>2, FS_Interval
<1>4. SumOf(s) \in Nat
  BY <1>2, <1>3, SumOfType, AdditiveSets
<1> QED BY <1>1, <1>4

(* A row more adds its amount to the volume of the day.                    *)
LEMMA VolumeGrows ==
  ASSUME NEW s \in Seq(Nat), NEW a \in Nat
  PROVE  Volume(Append(s, a)) = Volume(s) + a
<1>1. s \in Seq(Int) /\ a \in Int /\ Append(s, a) \in Seq(Nat)
  BY SeqMonotonic, AppendProperties
<1>2. SumOf(Append(s, a)) = SumOf(s) + a
  BY <1>1, SumOfAppend
<1> QED BY <1>1, <1>2, VolumeIsSum

-----------------------------------------------------------------------------
(* How a step changes the two accounts.                                    *)

(* The arithmetic of a step, in which ds is deposited, de of it escapes    *)
(* and the rows grow by dv: the account of a process goes from p0 and h0   *)
(* to p1 and g1, the sums from d and h to d1 and h1, and the room k stays. *)
LEMMA Balance ==
  ASSUME NEW s \in Nat, NEW e \in Nat, NEW v \in Nat, NEW d \in Nat, NEW h \in Nat,
         NEW d1 \in Nat, NEW h1 \in Nat, NEW k \in Nat,
         NEW ds \in Nat, NEW de \in Nat, NEW dv \in Nat,
         NEW p0 \in Nat, NEW p1 \in Nat, NEW h0 \in Nat, NEW g1 \in Nat,
         s <= (v + d) + e, s + h <= k + e,
         d1 + p0 = d + p1, h1 + h0 = h + g1,
         ds + p0 <= (de + dv) + p1, ds + g1 <= de + h0
  PROVE  /\ s + ds <= ((v + dv) + d1) + (e + de)
         /\ (s + ds) + h1 <= k + (e + de)
OBVIOUS

(* The room under the limit, with the checks that overlapped, is a number. *)
LEMMA RoomType == TableOK => DailyCap + overlaps * MaxTx \in Nat
<1> SUFFICES ASSUME TableOK PROVE DailyCap + overlaps * MaxTx \in Nat
  OBVIOUS
<1>1. overlaps \in Nat /\ MaxTx \in Nat /\ DailyCap \in Nat
  BY LimitAssumption DEF TableOK
<1>2. overlaps * MaxTx \in Nat
  BY <1>1
<1> QED BY <1>1, <1>2

(* So is everything a process has on its account.                          *)
LEMMA HoldType ==
  ASSUME NEW r \in Process
  PROVE  Hold(r) \in Nat /\ r.promised \in Nat /\ r.amt \in Nat /\ r.own \in Nat
         /\ r.moved \in Nat
BY DEF Hold, Process

(* Where only the account of p changes, the sums of the accounts change by *)
(* what it changes.                                                        *)
LEMMA TermsChange ==
  ASSUME HostInv, NEW p \in Proc, proc' \in [Proc -> Process],
         \A q \in Proc \ {p} : /\ proc'[q].promised = proc[q].promised
                               /\ Hold(proc'[q]) = Hold(proc[q])
  PROVE  /\ SumOf(Due) \in Nat /\ SumOf(Due)' \in Nat
         /\ SumOf(Held) \in Nat /\ SumOf(Held)' \in Nat
         /\ SumOf(Due)' + proc[p].promised = SumOf(Due) + proc'[p].promised
         /\ SumOf(Held)' + Hold(proc[p]) = SumOf(Held) + Hold(proc'[p])
<1> DEFINE d0 == Due
           h0 == Held
           d1 == [q \in Proc |-> proc'[q].promised]
           h1 == [q \in Proc |-> Hold(proc'[q])]
<1>1. IsFiniteSet(Proc)
  BY LimitAssumption
<1>2. \A q \in Proc : proc[q] \in Process /\ proc'[q] \in Process
  BY DEF HostInv
<1>3. /\ d0 \in [Proc -> Nat] /\ d1 \in [Proc -> Nat]
      /\ h0 \in [Proc -> Nat] /\ h1 \in [Proc -> Nat]
  BY <1>2, HoldType DEF Due, Held
<1>4. /\ \A q \in Proc : d0[q] = proc[q].promised /\ d1[q] = proc'[q].promised
      /\ \A q \in Proc : h0[q] = Hold(proc[q]) /\ h1[q] = Hold(proc'[q])
  BY DEF Due, Held
<1>5. /\ \A q \in Proc \ {p} : d1[q] = d0[q]
      /\ \A q \in Proc \ {p} : h1[q] = h0[q]
  BY <1>4
<1>6. SumOf(Due)' = SumOf(d1) /\ SumOf(Held)' = SumOf(h1)
  BY DEF Due, Held, SumOf, SumOn, IsIter, Pick, Hold
<1> HIDE DEF d0, d1, h0, h1
<1>7. \A f, g \in [Proc -> Nat] :
        (\A y \in Proc \ {p} : g[y] = f[y]) =>
           /\ SumOf(f) \in Nat /\ SumOf(g) \in Nat
           /\ SumOf(g) + f[p] = SumOf(f) + g[p]
  BY <1>1, OneTerm
<1>8. /\ SumOf(d0) \in Nat /\ SumOf(d1) \in Nat
      /\ SumOf(d1) + d0[p] = SumOf(d0) + d1[p]
      /\ SumOf(h0) \in Nat /\ SumOf(h1) \in Nat
      /\ SumOf(h1) + h0[p] = SumOf(h0) + h1[p]
  BY <1>3, <1>5, <1>7
<1>9. SumOf(Due) = SumOf(d0) /\ SumOf(Held) = SumOf(h0)
  BY DEF d0, h0
<1> QED BY <1>4, <1>6, <1>8, <1>9

(* The accounts hold after a step in which p moves to r, ds is deposited,  *)
(* de of it escapes and the rows grow by dv.                               *)
LEMMA Settles ==
  ASSUME HostInv, TableOK, LimitInv, NEW p \in Proc, NEW r \in Process,
         proc' \in [Proc -> Process], proc'[p] = r,
         \A q \in Proc \ {p} : /\ proc'[q].promised = proc[q].promised
                               /\ Hold(proc'[q]) = Hold(proc[q]),
         NEW ds \in Nat, NEW de \in Nat, NEW dv \in Nat,
         sent' = sent + ds, escaped' = escaped + de,
         Volume(rows)' = Volume(rows) + dv, overlaps' = overlaps,
         ds + proc[p].promised <= (de + dv) + r.promised,
         ds + Hold(r) <= de + Hold(proc[p])
  PROVE  Accounted'
<1> DEFINE d == SumOf(Due)
           h == SumOf(Held)
           v == Volume(rows)
           k == DailyCap + overlaps * MaxTx
           d1 == SumOf(Due)'
           h1 == SumOf(Held)'
<1>1. /\ d \in Nat /\ d1 \in Nat /\ h \in Nat /\ h1 \in Nat
      /\ d1 + proc[p].promised = d + r.promised
      /\ h1 + Hold(proc[p]) = h + Hold(r)
  BY TermsChange
<1>2. v \in Nat
  BY VolumeIsSum DEF TableOK
<1>3. k \in Nat
  BY RoomType
<1>4. /\ proc[p].promised \in Nat /\ Hold(proc[p]) \in Nat
      /\ r.promised \in Nat /\ Hold(r) \in Nat
  BY HoldType DEF HostInv
<1>5. /\ sent \in Nat /\ escaped \in Nat
      /\ sent <= (v + d) + escaped /\ sent + h <= k + escaped
  BY DEF LimitInv, Accounted
<1>6. /\ sent' = sent + ds /\ escaped' = escaped + de
      /\ Volume(rows)' = v + dv /\ (DailyCap + overlaps * MaxTx)' = k
  OBVIOUS
<1> HIDE DEF d, h, v, k, d1, h1
<1>7. /\ sent + ds <= ((v + dv) + d1) + (escaped + de)
      /\ (sent + ds) + h1 <= k + (escaped + de)
  BY <1>1, <1>2, <1>3, <1>4, <1>5, Balance
<1>8. sent' \in Nat /\ escaped' \in Nat
  BY <1>5, <1>6
<1>9. Accounted' <=> /\ sent' \in Nat /\ escaped' \in Nat
                     /\ sent' <= (Volume(rows)' + d1) + escaped'
                     /\ sent' + h1 <= (DailyCap + overlaps * MaxTx)' + escaped'
  BY DEF Accounted, d1, h1
<1> QED BY <1>6, <1>7, <1>8, <1>9

(* When p moves, the other processes stay what they are.                   *)
LEMMA OthersStay ==
  ASSUME HostInv, NEW p \in Proc, NEW r \in Process, Moves(p, r)
  PROVE  /\ proc' \in [Proc -> Process] /\ proc'[p] = r
         /\ \A q \in Proc \ {p} : proc'[q] = proc[q]
BY DEF HostInv, Moves

(* A move of p that books nothing leaves every process sound if it leaves  *)
(* p sound.                                                                *)
LEMMA SoundMoves ==
  ASSUME HostInv, AllSound, NEW p \in Proc, NEW r \in Process, Moves(p, r),
         Sound(r, Volume(rows)), rows' = rows
  PROVE  AllSound'
<1>1. \A q \in Proc : proc'[q] = IF q = p THEN r ELSE proc[q]
  BY OthersStay
<1>2. Volume(rows)' = Volume(rows)
  OBVIOUS
<1>3. \A q \in Proc : Sound(proc'[q], Volume(rows))
  BY <1>1 DEF AllSound
<1>4. AllSound' <=> \A q \in Proc : Sound(proc'[q], Volume(rows)')
  BY DEF AllSound, Sound
<1> QED BY <1>2, <1>3, <1>4

(* A step that deposits ds and books nothing.                              *)
LEMMA MoveSettles ==
  ASSUME HostInv, TableOK, LimitInv, NEW p \in Proc, NEW r \in Process,
         Moves(p, r), Sound(r, Volume(rows)),
         NEW ds \in Nat, NEW de \in Nat,
         sent' = sent + ds, escaped' = escaped + de,
         rows' = rows, overlaps' = overlaps,
         ds + proc[p].promised <= de + r.promised,
         ds + Hold(r) <= de + Hold(proc[p])
  PROVE  LimitInv'
<1>1. /\ proc' \in [Proc -> Process] /\ proc'[p] = r
      /\ \A q \in Proc \ {p} : /\ proc'[q].promised = proc[q].promised
                               /\ Hold(proc'[q]) = Hold(proc[q])
  BY OthersStay
<1>2. Volume(rows)' = Volume(rows) + 0 /\ 0 \in Nat
  BY VolumeIsSum DEF TableOK
<1>3. ds + proc[p].promised <= (de + 0) + r.promised
  OBVIOUS
<1>4. Accounted'
  BY <1>1, <1>2, <1>3, Settles
<1>5. AllSound'
  BY SoundMoves DEF LimitInv
<1> QED BY <1>4, <1>5 DEF LimitInv

(* A step that neither deposits nor books.                                 *)
Still == UNCHANGED <<rows, sent, escaped, overlaps>>

(* A step that neither deposits nor books keeps the accounts, when it puts *)
(* nothing more on its way to the chain.                                   *)
LEMMA QuietKeeps ==
  ASSUME HostInv, TableOK, LimitInv, NEW p \in Proc, NEW r \in Process,
         Moves(p, r), Sound(r, Volume(rows)), Still,
         r.promised = proc[p].promised, Hold(r) <= Hold(proc[p])
  PROVE  LimitInv'
<1>1. sent' = sent + 0 /\ escaped' = escaped + 0 /\ 0 \in Nat
  BY DEF LimitInv, Accounted, Still
<1>2. /\ 0 + proc[p].promised <= 0 + r.promised
      /\ 0 + Hold(r) <= 0 + Hold(proc[p])
  BY HoldType DEF HostInv
<1>3. rows' = rows /\ overlaps' = overlaps
  BY DEF Still
<1> QED BY <1>1, <1>2, <1>3, MoveSettles

-----------------------------------------------------------------------------
(* The records a cycle moves to, and the limits.                           *)
Same(r, s) ==
  /\ s.kind = r.kind /\ s.own = r.own /\ s.moved = r.moved
  /\ s.promised = r.promised /\ s.overtaken = r.overtaken

Placed(r, l) == [r EXCEPT !.pc = l]

(* What a record is after it went to another place,                        *)
LEMMA PlaceOnly ==
  ASSUME NEW r \in Process, NEW l \in Places
  PROVE  LET s == Placed(r, l)
         IN s \in Process /\ Same(r, s) /\ s.pc = l /\ s.amt = r.amt
            /\ s.excused = r.excused /\ s.refused = r.refused
<1>1. [r EXCEPT !.pc = l] \in Process
  BY PlaceChanges
<1> QED BY <1>1 DEF Placed, Process, Same

Told(r, l, a) == [r EXCEPT !.pc = l, !.amt = a]

(* ... with another amount,                                                *)
LEMMA PlaceAndAmount ==
  ASSUME NEW r \in Process, NEW l \in Places, NEW a \in Nat
  PROVE  LET s == Told(r, l, a)
         IN s \in Process /\ Same(r, s) /\ s.pc = l /\ s.amt = a
            /\ s.excused = r.excused /\ s.refused = r.refused
<1>1. [r EXCEPT !.pc = l, !.amt = a] \in Process
  BY AmountChanges
<1> QED BY <1>1, SMTT(60) DEF Told, Process, Same

Joined(r, l, a) == [r EXCEPT !.pc = l, !.plan = 0, !.amt = a]

(* ... with its plan of withdrawals gone,                                  *)
LEMMA PlaceAfterPlan ==
  ASSUME NEW r \in Process, NEW l \in Places, NEW a \in Nat
  PROVE  LET s == Joined(r, l, a)
         IN s \in Process /\ Same(r, s) /\ s.pc = l /\ s.amt = a
            /\ s.excused = r.excused /\ s.refused = r.refused
<1>1. [r EXCEPT !.pc = l, !.plan = 0, !.amt = a] \in Process
  BY AmountChanges
<1> QED BY <1>1, SMTT(60) DEF Joined, Process, Same

Passed(r, l, b) == [r EXCEPT !.pc = l, !.excused = b]

(* ... with the verdict of the checks before the deposit,                  *)
LEMMA PlaceAndCheck ==
  ASSUME NEW r \in Process, NEW l \in Places, NEW b \in BOOLEAN
  PROVE  LET s == Passed(r, l, b)
         IN s \in Process /\ Same(r, s) /\ s.pc = l /\ s.amt = r.amt
            /\ s.excused = b /\ s.refused = r.refused
<1>1. [r EXCEPT !.pc = l, !.excused = b] \in Process
  BY VerdictChanges
<1> QED BY <1>1, SMTT(60) DEF Passed, Process, Same

Judged(r, l, b, c) == [r EXCEPT !.pc = l, !.excused = b, !.refused = c]

(* ... and with the verdict of the limits after it.                        *)
LEMMA PlaceAndVerdict ==
  ASSUME NEW r \in Process, NEW l \in Places, NEW b \in BOOLEAN, NEW c \in BOOLEAN
  PROVE  LET s == Judged(r, l, b, c)
         IN s \in Process /\ Same(r, s) /\ s.pc = l /\ s.amt = r.amt
            /\ s.excused = b /\ s.refused = c
<1>1. [r EXCEPT !.pc = l, !.excused = b, !.refused = c] \in Process
  BY VerdictChanges
<1> QED BY <1>1, SMTT(60) DEF Judged, Process, Same

(* On the way to the check nothing has been sent, promised or refused.     *)
LEMMA BeforeAnswer ==
  ASSUME HostInv, AllSound, NEW p \in Proc, proc[p].pc \notin {"answer", "done"}
  PROVE  /\ proc[p] \in Process /\ proc[p].moved = 0 /\ proc[p].promised = 0
         /\ ~proc[p].refused
         /\ proc[p].pc # "send" => Hold(proc[p]) = 0
         /\ proc[p].own \in Nat /\ proc[p].amt \in Nat
         /\ proc[p].pc \in {"withdraw", "gate", "track", "limits", "send"}
              => proc[p].own <= proc[p].amt
<1>1. proc[p] \in Process /\ Sound(proc[p], Volume(rows))
  BY DEF HostInv, AllSound
<1>2. proc[p].moved \in Nat /\ proc[p].promised \in Nat
      /\ proc[p].own \in Nat /\ proc[p].amt \in Nat
  BY <1>1, HoldType
<1> QED BY <1>1, <1>2 DEF Sound, Hold

(* A step to a place from which nothing is sent, before the check.         *)
LEMMA EarlyKeeps ==
  ASSUME HostInv, TableOK, LimitInv, NEW p \in Proc,
         proc[p].pc \notin {"answer", "done"},
         NEW r \in Process, Moves(p, r), Still,
         r.promised = 0, r.moved = 0, ~r.refused, r.pc # "send",
         r.pc \in {"withdraw", "gate", "track", "limits"} => r.own <= r.amt
  PROVE  LimitInv'
<1>1. proc[p].promised = 0
  BY BeforeAnswer DEF LimitInv
<1>2. Hold(r) <= Hold(proc[p])
  <2>1. Hold(r) = 0 /\ Hold(proc[p]) \in Nat
    BY HoldType DEF Hold, HostInv
  <2> QED BY <2>1
<1>3. Sound(r, Volume(rows))
  BY DEF Sound
<1> QED BY <1>1, <1>2, <1>3, QuietKeeps

(* A cycle goes on to its next check, or gives up, before the limits let   *)
(* anything through.                                                       *)
LEMMA GotoEarly ==
  ASSUME HostInv, TableOK, LimitInv, NEW p \in Proc,
         proc[p].pc \in {"withdraw", "gate", "simulate", "track", "limits", "send"},
         NEW l \in Places, l # "send",
         l \in {"withdraw", "gate", "track", "limits"} => proc[p].pc # "simulate",
         Goto(p, l), Still
  PROVE  LimitInv'
<1> DEFINE r == Placed(proc[p], l)
<1>1. /\ proc[p] \in Process /\ proc[p].moved = 0 /\ proc[p].promised = 0
      /\ ~proc[p].refused
      /\ proc[p].pc # "simulate" => proc[p].own <= proc[p].amt
  BY BeforeAnswer DEF LimitInv
<1>2. /\ r \in Process /\ Same(proc[p], r) /\ r.pc = l /\ r.amt = proc[p].amt
      /\ r.excused = proc[p].excused /\ r.refused = proc[p].refused
  BY <1>1, PlaceOnly
<1>3. Moves(p, r)
  BY DEF Goto, Placed
<1> HIDE DEF r
<1> QED BY <1>1, <1>2, <1>3, EarlyKeeps DEF Same

(* A cycle answers that it did nothing.                                    *)
LEMMA AnswersEarly ==
  ASSUME HostInv, TableOK, LimitInv, NEW p \in Proc,
         proc[p].pc \in {"withdraw", "gate", "simulate", "track", "limits", "send"},
         NEW a \in Nat, Answers(p, a), Still
  PROVE  LimitInv'
<1> DEFINE r == Told(proc[p], "answer", a)
<1>1. /\ proc[p] \in Process /\ proc[p].moved = 0 /\ proc[p].promised = 0
      /\ ~proc[p].refused
  BY BeforeAnswer DEF LimitInv
<1>2. "answer" \in Places
  BY DEF Places
<1>3. /\ r \in Process /\ Same(proc[p], r) /\ r.pc = "answer" /\ r.amt = a
      /\ r.excused = proc[p].excused /\ r.refused = proc[p].refused
  BY <1>1, <1>2, PlaceAndAmount
<1>4. Moves(p, r)
  BY DEF Answers, Told
<1> HIDE DEF r
<1> QED BY <1>1, <1>3, <1>4, EarlyKeeps DEF Same

(* A cycle has withdrawn, and has at least what it had of its own.         *)
LEMMA WithdrawnEarly ==
  ASSUME HostInv, TableOK, LimitInv, NEW p \in Proc, proc[p].pc = "withdraw",
         NEW a \in Nat, proc[p].own <= a,
         Moves(p, [proc[p] EXCEPT !.pc = "gate", !.plan = 0, !.amt = a]), Still
  PROVE  LimitInv'
<1> DEFINE r == Joined(proc[p], "gate", a)
<1>1. /\ proc[p] \in Process /\ proc[p].moved = 0 /\ proc[p].promised = 0
      /\ ~proc[p].refused
  BY BeforeAnswer DEF LimitInv
<1>2. "gate" \in Places
  BY DEF Places
<1>3. /\ r \in Process /\ Same(proc[p], r) /\ r.pc = "gate" /\ r.amt = a
      /\ r.excused = proc[p].excused /\ r.refused = proc[p].refused
  BY <1>1, <1>2, PlaceAfterPlan
<1>4. Moves(p, r)
  BY DEF Joined
<1> HIDE DEF r
<1> QED BY <1>1, <1>3, <1>4, EarlyKeeps DEF Same

-----------------------------------------------------------------------------
(* Commands and cycles begin and end.                                      *)
LEMMA LaunchLimits ==
  ASSUME HostInv, TableOK, LimitInv, NEW p \in Proc, NEW kind \in Kind,
         NEW shell \in Shells, NEW f \in EnvFiles, Launch(p, kind, shell, f)
  PROVE  LimitInv'
<1> DEFINE e == IF kind = "loop" THEN Environ(shell, f) ELSE shell
           r == [Idle EXCEPT !.kind = kind, !.pc = "ready", !.env = e]
<1>1. e \in Environment
  BY InputTypes
<1>2. Moves(p, r) /\ Still /\ proc[p].pc = "off"
  BY DEF Launch, Still, At
<1> HIDE DEF e
<1>3. r \in Process
  BY <1>1, IdleType DEF Process
<1>4. r.pc = "ready" /\ r.promised = 0 /\ r.moved = 0 /\ ~r.refused
  BY DEF Idle
<1> HIDE DEF r
<1> QED BY <1>2, <1>3, <1>4, EarlyKeeps

(* A cycle begins with nothing sent and nothing on its account.            *)
LEMMA BeginLimits ==
  ASSUME HostInv, HostInv', TableOK, LimitInv, NEW p \in Proc, NEW ks \in Keystores,
         NEW from \in Place, NEW at \in Place, NEW y \in Accrued,
         NEW a \in SignalAmount, Begin(p, ks, from, y, at, a)
  PROVE  LimitInv'
<1> DEFINE kf == IF proc[p].kind = "loop" THEN None ELSE ks
           key == IF proc[p].kind = "loop" THEN proc[p].env["PRIVATE_KEY"]
                  ELSE RunKey(proc[p].env, ks)
<1>1. PICK w \in {0, file[from] + y} :
        Moves(p, [proc[p] EXCEPT
          !.ks = kf, !.key = key, !.pc = IF w > 0 THEN "withdraw" ELSE "gate",
          !.plan = w, !.from = from, !.at = at, !.own = a, !.amt = a])
  BY DEF Begin
<1> HIDE DEF kf, key
<1> DEFINE r == [proc[p] EXCEPT
          !.ks = kf, !.key = key, !.pc = IF w > 0 THEN "withdraw" ELSE "gate",
          !.plan = w, !.from = from, !.at = at, !.own = a, !.amt = a]
<1>2. Moves(p, r) /\ Still /\ proc[p].pc = "ready"
  BY <1>1 DEF Begin, Still, At
<1>3. /\ proc[p] \in Process /\ proc[p].moved = 0 /\ proc[p].promised = 0
      /\ ~proc[p].refused
  BY <1>2, BeforeAnswer DEF LimitInv
<1>4. /\ r.pc \in {"withdraw", "gate"} /\ r.own = a /\ r.amt = a
      /\ r.promised = proc[p].promised /\ r.moved = proc[p].moved
      /\ r.refused = proc[p].refused
  BY <1>3, SMTT(30) DEF Process
<1>5. a \in Nat
  BY LimitAssumption
<1> HIDE DEF r
<1>6. r = proc'[p] /\ r \in Process
  BY <1>2 DEF HostInv, Moves
<1> QED BY <1>2, <1>3, <1>4, <1>5, <1>6, EarlyKeeps

(* A command ends, or a cycle; what it promised is never told.             *)
LEMMA EndLimits ==
  ASSUME HostInv, HostInv', TableOK, LimitInv, NEW p \in Proc,
         Halt(p) \/ Quit(p) \/ Unsaved(p)
  PROVE  LimitInv'
<1> DEFINE r == proc'[p]
<1>1. /\ Moves(p, r) /\ r \in Process
      /\ r.promised = 0 /\ r.moved = 0 /\ ~r.refused /\ r.pc \in {"off", "ready"}
  <2>1. CASE Moves(p, Idle)
    <3>1. r = Idle /\ Moves(p, r)
      BY <2>1 DEF HostInv, Moves
    <3> HIDE DEF r
    <3> QED BY <3>1, IdleType DEF Idle
  <2>2. CASE Moves(p, Waiting(p))
    <3>1. r = Waiting(p) /\ Moves(p, r) /\ r \in Process
      BY <2>2 DEF HostInv, Moves
    <3> HIDE DEF r
    <3> QED BY <3>1 DEF Idle, Waiting
  <2> QED BY <2>1, <2>2 DEF Halt, Quit, Unsaved
<1> HIDE DEF r
<1>2. proc[p] \in Process /\ proc[p].promised \in Nat /\ Hold(proc[p]) \in Nat
  BY HoldType DEF HostInv
<1>3. Sound(r, Volume(rows)) /\ Hold(r) = 0
  BY <1>1 DEF Sound, Hold
<1>4. CASE Halt(p) \/ Unsaved(p)
  <2> DEFINE de == proc[p].promised
  <2>1. /\ sent' = sent + 0 /\ escaped' = escaped + de
        /\ rows' = rows /\ overlaps' = overlaps
    BY <1>4 DEF Halt, Unsaved, LimitInv, Accounted
  <2>2. 0 \in Nat /\ de \in Nat /\ 0 + proc[p].promised <= de + r.promised
        /\ 0 + Hold(r) <= de + Hold(proc[p])
    BY <1>1, <1>2, <1>3
  <2> HIDE DEF de
  <2> QED BY <1>1, <1>3, <2>1, <2>2, MoveSettles
<1>5. CASE Quit(p)
  <2>1. Still /\ proc[p].pc = "done"
    BY <1>5 DEF Quit, Still, At
  <2>2. proc[p].promised = 0
    BY <1>2, <2>1 DEF LimitInv, AllSound, Sound
  <2> QED BY <1>1, <1>2, <1>3, <2>1, <2>2, QuietKeeps
<1> QED BY <1>4, <1>5

-----------------------------------------------------------------------------
(* The check of the limits.                                                *)

(* What the others have on the way or are to book, if it is m at most.     *)
LEMMA OthersOwe ==
  ASSUME HostInv, NEW p \in Proc, proc[p].promised = 0, Hold(proc[p]) = 0,
         NEW m \in Nat,
         \A q \in Proc \ {p} : proc[q].promised + Hold(proc[q]) <= m
  PROVE  /\ SumOf(Due) + SumOf(Held) <= (Cardinality(Proc) - 1) * m
         /\ SumOf(Due) \in Nat /\ SumOf(Held) \in Nat
         /\ Cardinality(Proc) \in Nat \ {0}
<1> DEFINE S == Proc \ {p}
<1>1. IsFiniteSet(Proc)
  BY LimitAssumption
<1>2. \A q \in Proc : proc[q].promised \in Nat /\ Hold(proc[q]) \in Nat
  BY HoldType DEF HostInv
<1>3. /\ IsFiniteSet(S) /\ Cardinality(S) = Cardinality(Proc) - 1
      /\ Cardinality(Proc) \in Nat /\ Cardinality(S) \in Nat
  BY <1>1, FS_RemoveElement, FS_CardinalityType
<1>4. /\ Due \in [Proc -> Nat] /\ Held \in [Proc -> Nat]
      /\ DOMAIN Due = Proc /\ DOMAIN Held = Proc
      /\ \A q \in Proc : Due[q] = proc[q].promised /\ Held[q] = Hold(proc[q])
  BY <1>2 DEF Due, Held
<1>5. SumOf(Due) \in Nat /\ SumOf(Held) \in Nat
  BY <1>1, <1>4, SumOfType, AdditiveSets
<1>6. /\ SumOn(Due, Proc) = Due[p] + SumOn(Due, S)
      /\ SumOn(Held, Proc) = Held[p] + SumOn(Held, S)
  <2>1. ASSUME NEW q \in Proc PROVE Due[q] \in Int /\ Held[q] \in Int
    <3>1. Due[q] \in Nat /\ Held[q] \in Nat
      BY <1>2, <1>4
    <3> QED BY <3>1
  <2> QED BY <1>1, <2>1, SumRemove
<1>7. \A q \in S : /\ Due[q] \in Nat /\ Held[q] \in Nat
                   /\ Due[q] + Held[q] <= m
  BY <1>4
<1> HIDE DEF S
<1>8. /\ SumOn(Due, S) \in Nat /\ SumOn(Held, S) \in Nat
      /\ SumOn(Due, S) + SumOn(Held, S) <= Cardinality(S) * m
  BY <1>3, <1>7, PairBounded
<1>9. SumOf(Due) = SumOn(Due, S) /\ SumOf(Held) = SumOn(Held, S)
  BY <1>4, <1>6, <1>8 DEF SumOf
<1>10. Cardinality(Proc) # 0
  BY <1>3
<1> QED BY <1>3, <1>5, <1>8, <1>9, <1>10

(* The room grows by MAX_TX_AMOUNT with a check that overlapped; when as   *)
(* many overlapped as there are others, it holds a trade of each.          *)
LEMMA Rises ==
  ASSUME NEW o \in Nat, NEW m \in Nat, NEW n \in Nat \ {0}
  PROVE  /\ o * m \in Nat /\ (o + 1) * m = o * m + m
         /\ n <= o + 1 => (n - 1) * m <= o * m
         /\ (n - 1) * 0 = 0
<1>1. o * m \in Nat /\ (o + 1) * m = o * m + m
  OBVIOUS
<1>2. ASSUME n <= o + 1 PROVE (n - 1) * m <= o * m
  <2>1. PICK k \in Nat : o = (n - 1) + k
    BY <1>2
  <2>2. o * m = (n - 1) * m + k * m
    BY <2>1
  <2>3. k * m \in Nat /\ (n - 1) * m \in Nat
    OBVIOUS
  <2> QED BY <2>2, <2>3
<1>3. (n - 1) * 0 = 0
  OBVIOUS
<1> QED BY <1>1, <1>2, <1>3

(* The amounts of a check: with an overlap, alone, or with all others.     *)
LEMMA Room ==
  ASSUME NEW s \in Nat, NEW e \in Nat, NEW v \in Nat, NEW d \in Nat, NEW h \in Nat,
         NEW c \in Nat, NEW k \in Nat, NEW m \in Nat, NEW a \in Nat,
         s <= (v + d) + e, s + h <= (c + k) + e
  PROVE  /\ s + h <= (c + (k + m)) + e
         /\ a <= m => s + (h + a) <= (c + (k + m)) + e
         /\ v + a <= c /\ d + h <= k => s + (h + a) <= (c + k) + e
OBVIOUS

(* The rows a check reads, from the first to the last, are the rows there  *)
(* are.                                                                    *)
LEMMA RecentIsAll ==
  ASSUME NEW s \in Seq(Nat)
  PROVE  SubSeq(s, 1, Len(s)) = s
BY SubSeqFull

(* A process has at most MAX_TX_AMOUNT on its account, and nothing while   *)
(* it is not between its check and its row.                                *)
LEMMA LoadsBounded ==
  ASSUME HostInv, AllSound, NEW q \in Proc
  PROVE  /\ proc[q].promised + Hold(proc[q]) <= MaxTx
         /\ ~(Unbooked(q) /\ proc[q].kind # "run")
              => proc[q].promised + Hold(proc[q]) <= 0
<1>1. proc[q] \in Process /\ Sound(proc[q], Volume(rows))
  BY DEF HostInv, AllSound
<1>2. /\ proc[q].promised \in Nat /\ proc[q].amt \in Nat /\ MaxTx \in Nat
  BY <1>1, HoldType, LimitAssumption
<1> QED BY <1>1, <1>2 DEF Sound, Hold, Unbooked

(* The limits let a trade through: it fits under the rows, or another      *)
(* process is between its check and its row and the check counts as an     *)
(* overlap (executor.py:441-468, 498-512).                                 *)
LEMMA PassesLimits ==
  ASSUME HostInv, HostInv', TableOK, TableOK', LimitInv, NEW p \in Proc,
         LimitsPassed(p)
  PROVE  LimitInv'
<1>1. PICK readable \in BOOLEAN :
        /\ Limited(p) => /\ ~OverTx(Checked(p))
                         /\ readable => ~OverDaily(Checked(p), Recent)
        /\ Moves(p, [proc[p] EXCEPT !.pc = "send",
                       !.excused = ~Limited(p) \/ ~readable
                                   \/ Len(rows) > TradeWindow])
  BY DEF LimitsPassed
<1> DEFINE b == ~Limited(p) \/ ~readable \/ Len(rows) > TradeWindow
           r == Passed(proc[p], "send", b)
           v == Volume(rows)
           a == proc[p].amt
<1>2. /\ proc[p] \in Process /\ proc[p].moved = 0 /\ proc[p].promised = 0
      /\ ~proc[p].refused /\ proc[p].pc = "limits" /\ Hold(proc[p]) = 0
      /\ proc[p].own <= a /\ a \in Nat
  BY BeforeAnswer DEF LimitInv, LimitsPassed, At
<1>3. rows \in Seq(Nat) /\ v \in Nat /\ overlaps \in Nat /\ Len(rows) \in Nat
  BY VolumeIsSum DEF TableOK
<1>4. ~b => a <= MaxTx /\ v + a <= DailyCap
  <2> SUFFICES ASSUME ~b PROVE a <= MaxTx /\ v + a <= DailyCap
    OBVIOUS
  <2>1. ~OverTx(a) /\ ~OverDaily(a, Recent)
    BY <1>1 DEF Checked
  <2>2. Recent = rows
    BY <1>3, RecentIsAll, LimitAssumption DEF Recent
  <2>3. MaxTx \in Nat /\ DailyCap \in Nat
    BY LimitAssumption
  <2> QED BY <1>2, <1>3, <2>1, <2>2, <2>3 DEF OverTx, OverDaily
<1>5. b \in BOOLEAN /\ "send" \in Places
  BY DEF Places
<1>6. Moves(p, r)
  BY <1>1 DEF Passed
<1> HIDE DEF b
<1>7. /\ r \in Process /\ Same(proc[p], r) /\ r.pc = "send" /\ r.amt = a
      /\ r.excused = b /\ r.refused = proc[p].refused
  BY <1>2, <1>5, PlaceAndCheck
<1> HIDE DEF r
<1>8. Sound(r, v)
  BY <1>2, <1>4, <1>7 DEF Sound, Same
<1>9. AllSound'
  BY <1>6, <1>7, <1>8, SoundMoves DEF LimitInv, LimitsPassed
<1> DEFINE d == SumOf(Due)
           h == SumOf(Held)
           k == overlaps * MaxTx
           h1 == SumOf(Held)'
<1>10. /\ d \in Nat /\ h \in Nat /\ h1 \in Nat /\ SumOf(Due)' = d
       /\ h1 = h + Hold(r)
  <2>1. /\ proc' \in [Proc -> Process] /\ proc'[p] = r
        /\ \A q \in Proc \ {p} : /\ proc'[q].promised = proc[q].promised
                                 /\ Hold(proc'[q]) = Hold(proc[q])
    BY <1>6, <1>7, OthersStay
  <2>2. /\ d \in Nat /\ h \in Nat /\ h1 \in Nat /\ SumOf(Due)' \in Nat
        /\ SumOf(Due)' + proc[p].promised = d + r.promised
        /\ h1 + Hold(proc[p]) = h + Hold(r)
    BY <2>1, TermsChange
  <2>3. r.promised = 0 /\ Hold(r) \in Nat
    BY <1>2, <1>7, HoldType DEF Same
  <2> HIDE DEF d, h, h1
  <2> QED BY <1>2, <2>2, <2>3
<1>11. /\ sent \in Nat /\ escaped \in Nat
       /\ sent <= (v + d) + escaped /\ sent + h <= (DailyCap + k) + escaped
  BY DEF LimitInv, Accounted
<1>12. /\ k \in Nat /\ MaxTx \in Nat /\ DailyCap \in Nat
       /\ (overlaps + 1) * MaxTx = k + MaxTx
  BY <1>3, Rises, LimitAssumption
<1> DEFINE others == \E q \in Proc \ {p} : Unbooked(q) /\ proc[q].kind # "run"
<1>13. ~others => d + h <= k
  <2> SUFFICES ASSUME ~others PROVE d + h <= k
    OBVIOUS
  <2>1. \A q \in Proc \ {p} : proc[q].promised + Hold(proc[q]) <= 0
    BY LoadsBounded DEF LimitInv
  <2>2. d + h <= (Cardinality(Proc) - 1) * 0 /\ Cardinality(Proc) \in Nat \ {0}
    BY <1>2, <2>1, OthersOwe
  <2>3. (Cardinality(Proc) - 1) * 0 = 0
    BY <2>2, Rises, <1>3, <1>12
  <2> HIDE DEF d, h, k, others
  <2> QED BY <1>10, <1>12, <2>2, <2>3
<1>14. ~(overlaps + 1 < Cardinality(Proc)) => d + h <= k
  <2>1. \A q \in Proc \ {p} : proc[q].promised + Hold(proc[q]) <= MaxTx
    BY LoadsBounded DEF LimitInv
  <2>2. /\ d + h <= (Cardinality(Proc) - 1) * MaxTx
        /\ Cardinality(Proc) \in Nat \ {0}
    BY <1>2, <1>12, <2>1, OthersOwe
  <2>3. Cardinality(Proc) <= overlaps + 1
          => (Cardinality(Proc) - 1) * MaxTx <= k
    BY <1>3, <1>12, <2>2, Rises
  <2>4. (Cardinality(Proc) - 1) * MaxTx \in Nat
    <3>1. Cardinality(Proc) - 1 \in Nat
      BY <2>2
    <3> QED BY <1>12, <3>1
  <2> HIDE DEF d, h, k, others
  <2> QED BY <1>3, <1>10, <1>12, <2>2, <2>3, <2>4
<1>15. Hold(r) = 0 \/ (Hold(r) = a /\ a <= MaxTx /\ v + a <= DailyCap)
  BY <1>4, <1>7 DEF Hold
<1>16. /\ UNCHANGED <<rows, sent, escaped>>
       /\ overlaps' = IF others /\ overlaps + 1 < Cardinality(Proc)
                      THEN overlaps + 1 ELSE overlaps
  BY DEF LimitsPassed
<1> HIDE DEF d, h, k, h1, others, v, a
<1>17. /\ sent + h <= (DailyCap + (k + MaxTx)) + escaped
       /\ a <= MaxTx => sent + (h + a) <= (DailyCap + (k + MaxTx)) + escaped
       /\ v + a <= DailyCap /\ d + h <= k
            => sent + (h + a) <= (DailyCap + k) + escaped
  BY <1>2, <1>3, <1>10, <1>11, <1>12, Room
<1>18. sent + h1 <= (DailyCap + overlaps' * MaxTx) + escaped
  <2>1. CASE others /\ overlaps + 1 < Cardinality(Proc)
    <3>1. overlaps' * MaxTx = k + MaxTx
      BY <1>12, <1>16, <2>1
    <3>2. h1 = h \/ (h1 = h + a /\ a <= MaxTx)
      BY <1>10, <1>15
    <3> QED BY <1>17, <3>1, <3>2
  <2>2. CASE ~(others /\ overlaps + 1 < Cardinality(Proc))
    <3>1. overlaps' * MaxTx = k
      BY <1>16, <2>2 DEF k
    <3>2. h1 = h \/ (h1 = h + a /\ v + a <= DailyCap)
      BY <1>10, <1>15
    <3>3. d + h <= k
      BY <1>13, <1>14, <2>2
    <3> QED BY <1>11, <1>17, <3>1, <3>2, <3>3
  <2> QED BY <2>1, <2>2
<1>19. Accounted' <=> /\ sent' \in Nat /\ escaped' \in Nat
                      /\ sent' <= (Volume(rows)' + SumOf(Due)') + escaped'
                      /\ sent' + h1 <= (DailyCap + overlaps' * MaxTx) + escaped'
  BY DEF Accounted, h1
<1>20. /\ sent' = sent /\ escaped' = escaped /\ Volume(rows)' = v
       /\ SumOf(Due)' = d
  BY <1>10, <1>16 DEF v
<1>21. Accounted'
  BY <1>11, <1>18, <1>19, <1>20
<1> QED BY <1>9, <1>21 DEF LimitInv

-----------------------------------------------------------------------------
(* The transaction, and what the caller does with the answer.              *)
Paid(r, a, m, t) ==
  [r EXCEPT !.pc = "answer", !.amt = a, !.moved = m, !.promised = t]

(* What a record is after its deposit.                                     *)
LEMMA PlaceAndDeposit ==
  ASSUME NEW r \in Process, NEW a, NEW m, NEW t, {a, m, t} \subseteq Nat
  PROVE  LET s == Paid(r, a, m, t)
         IN s \in Process /\ s.pc = "answer" /\ s.amt = a /\ s.moved = m
            /\ s.promised = t /\ s.kind = r.kind /\ s.own = r.own
            /\ s.excused = r.excused /\ s.overtaken = r.overtaken
            /\ s.refused = r.refused
<1>1. "answer" \in Places
  BY DEF Places
<1>2. [r EXCEPT !.pc = "answer", !.amt = a, !.moved = m, !.promised = t] \in Process
  BY <1>1, SentChanges
<1> QED BY <1>2 DEF Paid, Process

(* What is deposited was on its way to the chain, or escapes the limits.   *)
LEMMA SendsWithinLimits ==
  ASSUME HostInv, TableOK, LimitInv, NEW p \in Proc, Send(p)
  PROVE  LimitInv'
<1> DEFINE m == proc[p].amt
           v == Volume(rows)
<1>1. PICK a \in {proc[p].own, proc[p].amt} :
        LET t == IF proc[p].excused \/ proc[p].kind = "run" THEN 0 ELSE a
        IN /\ Moves(p, [proc[p] EXCEPT !.pc = "answer", !.amt = a,
                          !.moved = proc[p].amt, !.promised = t])
           /\ escaped' = escaped + (proc[p].amt - t)
  BY DEF Send
<1> DEFINE t == IF proc[p].excused \/ proc[p].kind = "run" THEN 0 ELSE a
           r == Paid(proc[p], a, m, t)
           de == m - t
<1>2. /\ proc[p] \in Process /\ proc[p].moved = 0 /\ proc[p].promised = 0
      /\ ~proc[p].refused /\ proc[p].pc = "send"
      /\ proc[p].own \in Nat /\ m \in Nat /\ proc[p].own <= m
  BY BeforeAnswer DEF LimitInv, Send, At
<1>3. a \in Nat /\ a <= m /\ t \in Nat /\ t <= m /\ de \in Nat
  BY <1>2
<1>4. Moves(p, r) /\ escaped' = escaped + de
  BY <1>1 DEF Paid
<1>6. Hold(proc[p]) = (IF proc[p].excused \/ proc[p].kind = "run" THEN 0 ELSE m)
  BY <1>2 DEF Hold
<1>7. t = 0 \/ (t = a /\ Hold(proc[p]) = m /\ proc[p].kind # "run"
                /\ ~proc[p].excused)
  BY <1>6
<1>8. /\ m + 0 <= de + t /\ m <= de + Hold(proc[p])
  BY <1>2, <1>3, <1>7, HoldType
<1> HIDE DEF t, de, m
<1>9. /\ r \in Process /\ r.pc = "answer" /\ r.amt = a /\ r.moved = m
      /\ r.promised = t /\ r.kind = proc[p].kind /\ r.own = proc[p].own
      /\ r.excused = proc[p].excused /\ r.overtaken = proc[p].overtaken
      /\ r.refused = proc[p].refused
  <2>1. proc[p] \in Process /\ {a, m, t} \subseteq Nat
    BY <1>2, <1>3
  <2> QED BY <2>1, PlaceAndDeposit
<1> HIDE DEF r
<1>10. Sound(proc[p], v) /\ v \in Nat /\ MaxTx \in Nat /\ DailyCap \in Nat
  BY VolumeIsSum, LimitAssumption DEF LimitInv, AllSound, TableOK
<1> HIDE DEF v
<1>11. Sound(r, v)
  <2>1. r.promised > 0 => r.kind # "run" /\ r.promised = r.amt /\ r.amt <= MaxTx
    BY <1>2, <1>3, <1>7, <1>9, <1>10 DEF Sound, m
  <2>2. r.kind = "run" /\ ~r.excused /\ ~r.overtaken
          => r.amt <= MaxTx /\ v + r.amt <= DailyCap
    BY <1>2, <1>3, <1>9, <1>10 DEF Sound, m
  <2> QED BY <1>2, <1>9, <2>1, <2>2 DEF Sound
<1>12. /\ sent' = sent + m /\ rows' = rows /\ overlaps' = overlaps
  BY DEF Send, m
<1>13. Hold(r) = 0
  BY <1>9 DEF Hold
<1>14. m + proc[p].promised <= de + r.promised /\ m + Hold(r) <= de + Hold(proc[p])
  BY <1>2, <1>3, <1>8, <1>9, <1>13
<1>15. m \in Nat
  BY <1>2
<1> QED BY <1>3, <1>4, <1>9, <1>11, <1>12, <1>14, <1>15, MoveSettles DEF v

(* A row is written for what was deposited, and takes it over from the     *)
(* account of its process.                                                 *)
LEMMA BooksWithinLimits ==
  ASSUME HostInv, HostInv', TableOK, TableOK', LimitInv, NEW p \in Proc, SaveTrade(p)
  PROVE  LimitInv'
<1> DEFINE r == proc'[p]
           a == proc[p].amt
           v == Volume(rows)
<1>1. /\ proc[p].pc = "answer" /\ proc[p].kind # "run"
      /\ rows' = Append(rows, a) /\ proc' = Booked(p)
      /\ sent' = sent /\ escaped' = escaped /\ overlaps' = overlaps
  BY DEF SaveTrade, At
<1>2. /\ proc[p] \in Process /\ r \in Process /\ proc' \in [Proc -> Process]
      /\ a \in Nat /\ proc[p].promised \in Nat /\ rows \in Seq(Nat) /\ v \in Nat
      /\ DailyCap \in Nat
  BY HoldType, VolumeIsSum, LimitAssumption DEF HostInv, TableOK
<1>3. Volume(rows)' = v + a
  BY <1>1, <1>2, VolumeGrows
<1>4. r = Waiting(p) /\ r.promised = 0 /\ r.moved = 0 /\ ~r.refused /\ r.pc = "ready"
  <2>1. r = Waiting(p)
    BY <1>1 DEF Booked
  <2> HIDE DEF r
  <2> QED BY <2>1 DEF Waiting, Idle
<1>5. ASSUME NEW q \in Proc \ {p}
      PROVE  /\ proc'[q].promised = proc[q].promised /\ proc'[q].moved = proc[q].moved
             /\ proc'[q].pc = proc[q].pc /\ proc'[q].amt = proc[q].amt
             /\ proc'[q].own = proc[q].own /\ proc'[q].kind = proc[q].kind
             /\ proc'[q].excused = proc[q].excused
             /\ proc'[q].refused = proc[q].refused
             /\ proc'[q].overtaken
                  <=> proc[q].overtaken \/ (proc[q].kind = "run" /\ Unbooked(q))
  <2> DEFINE mark == proc[q].overtaken \/ (proc[q].kind = "run" /\ Unbooked(q))
  <2>1. proc'[q] = [proc[q] EXCEPT !.overtaken = mark]
    BY <1>1 DEF Booked
  <2>2. proc[q] \in Process
    BY DEF HostInv
  <2> HIDE DEF mark
  <2>3. proc[q] = [f \in DOMAIN proc[q] |-> proc[q][f]] /\ "overtaken" \in DOMAIN proc[q]
    BY <2>2 DEF Process
  <2> QED BY <2>1, <2>2, <2>3 DEF Process, mark
<1>6. \A q \in Proc \ {p} : /\ proc'[q].promised = proc[q].promised
                            /\ Hold(proc'[q]) = Hold(proc[q])
  BY <1>5 DEF Hold
<1>7. Sound(proc[p], v)
  BY DEF LimitInv, AllSound
<1> HIDE DEF r, v, a
<1>8. Hold(r) = 0 /\ Hold(proc[p]) = 0 /\ proc[p].promised <= a
  BY <1>1, <1>2, <1>4, <1>7 DEF Hold, Sound, a
<1>9. Accounted'
  <2>1. /\ sent' = sent + 0 /\ escaped' = escaped + 0 /\ 0 \in Nat
        /\ 0 + proc[p].promised <= (0 + a) + r.promised
        /\ 0 + Hold(r) <= 0 + Hold(proc[p])
    BY <1>1, <1>2, <1>4, <1>8 DEF LimitInv, Accounted
  <2>2. proc'[p] = r /\ Volume(rows)' = Volume(rows) + a
    BY <1>3 DEF r, v
  <2> QED BY <1>1, <1>2, <1>6, <2>1, <2>2, Settles
<1>10. ASSUME NEW q \in Proc PROVE Sound(proc'[q], Volume(rows)')
  <2>1. CASE q = p
    BY <1>4, <2>1 DEF Sound, r
  <2>2. CASE q # p
    <3>1. Sound(proc[q], v) /\ proc[q] \in Process
      BY DEF LimitInv, AllSound, HostInv, v
    <3>2. ~ /\ proc'[q].kind = "run" /\ ~proc'[q].overtaken
            /\ proc'[q].pc \in {"send", "answer"}
      BY <1>5, <2>2 DEF Unbooked
    <3> QED BY <1>5, <2>2, <3>1, <3>2 DEF Sound
  <2> QED BY <2>1, <2>2
<1>11. AllSound' <=> \A q \in Proc : Sound(proc'[q], Volume(rows)')
  BY DEF AllSound, Sound
<1> QED BY <1>9, <1>10, <1>11 DEF LimitInv

(* run checks its trade after it was sent, against the rows of that moment *)
(* (run.go:36-42).                                                         *)
LEMMA JudgesWithinLimits ==
  ASSUME HostInv, TableOK, LimitInv, NEW p \in Proc, CheckSpendingLimits(p)
  PROVE  LimitInv'
<1> DEFINE a == proc[p].amt
           v == Volume(rows)
<1>1. PICK broken \in BOOLEAN :
        Moves(p, [proc[p] EXCEPT !.pc = "done", !.excused = @ \/ broken,
                    !.refused = /\ Limited(p)
                                /\ \/ OverTx(proc[p].amt)
                                   \/ broken \/ OverDaily(proc[p].amt, rows)])
  BY DEF CheckSpendingLimits
<1> DEFINE b == proc[p].excused \/ broken
           c == Limited(p) /\ (OverTx(a) \/ broken \/ OverDaily(a, rows))
           r == Judged(proc[p], "done", b, c)
<1>2. /\ proc[p] \in Process /\ Sound(proc[p], v) /\ proc[p].moved \in Nat
      /\ proc[p].pc = "answer" /\ proc[p].kind = "run"
      /\ a \in Nat /\ v \in Nat /\ proc[p].promised \in Nat
      /\ MaxTx \in Nat /\ DailyCap \in Nat
  BY HoldType, VolumeIsSum, LimitAssumption
     DEF HostInv, LimitInv, AllSound, TableOK, CheckSpendingLimits, At
<1>3. b \in BOOLEAN /\ c \in BOOLEAN /\ "done" \in Places
  BY <1>2 DEF Process, Places
<1>4. Moves(p, r)
  BY <1>1 DEF Judged
<1>5. c /\ proc[p].moved > 0 => b \/ proc[p].overtaken
  BY <1>2 DEF Sound, OverTx, OverDaily
<1> HIDE DEF b, c
<1>6. /\ r \in Process /\ Same(proc[p], r) /\ r.pc = "done" /\ r.amt = a
      /\ r.excused = b /\ r.refused = c
  BY <1>2, <1>3, PlaceAndVerdict
<1> HIDE DEF r
<1>7. proc[p].promised = 0
  BY <1>2 DEF Sound
<1>8. Sound(r, v)
  BY <1>5, <1>6, <1>7 DEF Sound, Same
<1>9. Hold(r) = 0 /\ Hold(proc[p]) = 0 /\ r.promised = proc[p].promised
  BY <1>2, <1>6 DEF Hold, Same
<1>10. Still
  BY DEF CheckSpendingLimits, Still
<1> QED BY <1>4, <1>6, <1>8, <1>9, <1>10, QuietKeeps

(* The other steps of a cycle.                                             *)
LEMMA CycleLimits ==
  ASSUME HostInv, TableOK, LimitInv, NEW p \in Proc,
         \/ NoWithdrawal(p) \/ NoTrade(p) \/ Gate(p) \/ LimitBlocked(p)
         \/ NotSent(p) \/ NoHandler(p) \/ WriteFile(p)
  PROVE  LimitInv'
<1>1. /\ proc[p] \in Process /\ proc[p].own \in Nat /\ proc[p].amt \in Nat
      /\ proc[p].plan \in Nat /\ Still
      /\ \A a \in {proc[p].own, proc[p].amt} : a \in Nat
  BY DEF HostInv, Process, Still, NoWithdrawal, NoTrade, Gate, LimitBlocked,
         NotSent, NoHandler, WriteFile
<1>2. /\ proc[p].own + proc[p].plan \in Nat
      /\ proc[p].own <= proc[p].own + proc[p].plan
      /\ proc[p].own <= proc[p].own
  BY <1>1
<1>3. CASE NoWithdrawal(p)
  <2>1. PICK a \in {proc[p].own, proc[p].own + proc[p].plan} :
          Moves(p, [proc[p] EXCEPT !.pc = "gate", !.plan = 0, !.amt = a])
    BY <1>3 DEF NoWithdrawal
  <2>2. proc[p].pc = "withdraw" /\ a \in Nat /\ proc[p].own <= a
    BY <1>1, <1>2, <1>3 DEF NoWithdrawal, At
  <2> QED BY <1>1, <2>1, <2>2, WithdrawnEarly
<1>4. CASE NoTrade(p)
  <2>1. proc[p].pc = "gate"
    BY <1>4 DEF NoTrade, At
  <2>2. CASE Goto(p, "done") \/ Goto(p, "ready")
    BY <1>1, <2>1, <2>2, GotoEarly DEF Places
  <2>3. CASE Answers(p, 0)
    BY <1>1, <2>1, <2>3, AnswersEarly
  <2> QED BY <1>4, <2>2, <2>3 DEF NoTrade
<1>5. CASE Gate(p)
  <2>1. proc[p].pc = "gate" /\ (Goto(p, "simulate") \/ Goto(p, "track"))
    BY <1>5 DEF Gate, At
  <2> QED BY <1>1, <2>1, GotoEarly DEF Places
<1>6. CASE LimitBlocked(p)
  <2>1. proc[p].pc = "limits" /\ Goto(p, "answer")
    BY <1>6 DEF LimitBlocked, At
  <2> QED BY <1>1, <2>1, GotoEarly DEF Places
<1>7. CASE NotSent(p)
  <2>1. /\ proc[p].pc \in {"track", "send"}
        /\ \E a \in {proc[p].own, proc[p].amt} : Answers(p, a)
    BY <1>7 DEF NotSent, At
  <2> QED BY <1>1, <2>1, AnswersEarly
<1>8. CASE NoHandler(p)
  <2>1. proc[p].pc = "send" /\ Goto(p, "simulate")
    BY <1>8 DEF NoHandler, At
  <2> QED BY <1>1, <2>1, GotoEarly DEF Places
<1>9. CASE WriteFile(p)
  <2>1. CASE /\ proc[p].pc = "withdraw"
             /\ Moves(p, [proc[p] EXCEPT !.pc = "gate", !.plan = 0,
                                         !.amt = proc[p].own + proc[p].plan])
    BY <1>1, <1>2, <2>1, WithdrawnEarly
  <2>2. CASE proc[p].pc = "simulate" /\ Answers(p, proc[p].own)
    BY <1>1, <2>2, AnswersEarly
  <2>3. CASE proc[p].pc = "track" /\ Goto(p, "limits")
    BY <1>1, <2>3, GotoEarly DEF Places
  <2> QED BY <1>9, <2>1, <2>2, <2>3 DEF WriteFile
<1> QED BY <1>3, <1>4, <1>5, <1>6, <1>7, <1>8, <1>9

-----------------------------------------------------------------------------
(* What the accounts do not read may change.                               *)
LEMMA LimitsUnread == UNCHANGED hostVars /\ LimitInv => LimitInv'
BY DEF hostVars, LimitInv, AllSound, Accounted, Sound, Due, Held, Hold, SumOf,
       SumOn, IsIter, Pick

(* Every step of the host keeps the accounts of the limits.                *)
LEMMA LimitSteps ==
  CInv /\ CInv' /\ LimitInv /\ [Next]_vars => LimitInv'
<1> SUFFICES ASSUME CInv, CInv', LimitInv, [Next]_vars PROVE LimitInv'
  OBVIOUS
<1>1. HostInv /\ HostInv' /\ TableOK /\ TableOK'
  BY DEF CInv
<1>2. ASSUME UNCHANGED vars PROVE LimitInv'
  BY <1>2, LimitsUnread DEF vars
<1>3. ASSUME NEW p \in Proc, LoadFile(p) \/ TruncateFile(p) PROVE LimitInv'
  BY <1>3, LimitsUnread DEF LoadFile, TruncateFile
<1>4. ASSUME NEW p \in Proc, NEW kind \in Kind, NEW shell \in Shells,
             NEW f \in EnvFiles, Launch(p, kind, shell, f)
      PROVE  LimitInv'
  BY <1>1, <1>4, LaunchLimits
<1>5. ASSUME NEW p \in Proc, NEW ks \in Keystores, NEW from \in Place,
             NEW at \in Place, NEW y \in Accrued, NEW a \in SignalAmount,
             Begin(p, ks, from, y, at, a)
      PROVE  LimitInv'
  BY <1>1, <1>5, BeginLimits
<1>6. ASSUME NEW p \in Proc, Halt(p) \/ Quit(p) \/ Unsaved(p) PROVE LimitInv'
  BY <1>1, <1>6, EndLimits
<1>7. ASSUME NEW p \in Proc, Send(p) PROVE LimitInv'
  BY <1>1, <1>7, SendsWithinLimits
<1>8. ASSUME NEW p \in Proc, SaveTrade(p) PROVE LimitInv'
  BY <1>1, <1>8, BooksWithinLimits
<1>9. ASSUME NEW p \in Proc, CheckSpendingLimits(p) PROVE LimitInv'
  BY <1>1, <1>9, JudgesWithinLimits
<1>10. ASSUME NEW p \in Proc, LimitsPassed(p) PROVE LimitInv'
  BY <1>1, <1>10, PassesLimits
<1>11. ASSUME NEW p \in Proc,
              \/ NoWithdrawal(p) \/ NoTrade(p) \/ Gate(p) \/ LimitBlocked(p)
              \/ NotSent(p) \/ NoHandler(p) \/ WriteFile(p)
       PROVE  LimitInv'
  BY <1>1, <1>11, CycleLimits
<1> QED BY <1>2, <1>3, <1>4, <1>5, <1>6, <1>7, <1>8, <1>9, <1>10, <1>11 DEF Next

(* Nothing was sent when the host starts.                                  *)
LEMMA LimitStarts == Init => LimitInv
<1> SUFFICES ASSUME Init PROVE LimitInv
  OBVIOUS
<1>1. \A p \in Proc : proc[p] = Idle
  BY DEF Init
<1> /\ Idle.pc = "off" /\ Idle.promised = 0 /\ Idle.moved = 0 /\ ~Idle.refused
  BY DEF Idle
<1>2. AllSound
  <2>1. Sound(Idle, Volume(rows))
    BY DEF Sound
  <2> QED BY <1>1, <2>1 DEF AllSound
<1>3. rows \in Seq(Nat) /\ Volume(rows) <= DailyCap /\ sent = Volume(rows)
  BY LimitAssumption DEF Init
<1>4. escaped = 0 /\ overlaps = 0
  BY DEF Init
<1>5. IsFiniteSet(Proc) /\ MaxTx \in Nat /\ DailyCap \in Nat
  BY LimitAssumption
<1>6. \A p \in Proc : Due[p] = 0 /\ Held[p] = 0
  BY <1>1 DEF Due, Held, Hold
<1>7. SumOf(Due) = 0 /\ SumOf(Held) = 0
  <2>1. DOMAIN Due = Proc /\ DOMAIN Held = Proc
    BY DEF Due, Held
  <2>2. /\ SumOn(Due, Proc) \in Nat /\ SumOn(Held, Proc) \in Nat
        /\ SumOn(Due, Proc) + SumOn(Held, Proc) <= Cardinality(Proc) * 0
    BY <1>5, <1>6, PairBounded
  <2>3. Cardinality(Proc) * 0 = 0
    BY <1>5, FS_CardinalityType
  <2> QED BY <2>1, <2>2, <2>3 DEF SumOf
<1>8. 0 * MaxTx = 0
  BY <1>5
<1>9. Accounted
  BY <1>3, <1>4, <1>5, <1>7, <1>8, VolumeIsSum DEF Accounted
<1> QED BY <1>2, <1>9 DEF LimitInv

(* The rows and the counters of the run keep their types.                  *)
LEMMA TableInvariance == Spec => []TableOK
BY HostTypes, PTL DEF TypeOK, TableOK

(* The accounts of the limits hold at all times.                           *)
LEMMA LimitInvariance == Spec => []CInv /\ []LimitInv
<1>1. CInv <=> FileInv /\ HostInv /\ TableOK
  BY DEF CInv
<1>2. Spec => []CInv
  BY <1>1, HostInvariance, TableInvariance, PTL
<1> QED BY <1>2, LimitStarts, LimitSteps, PTL DEF Spec

(* When agent-heap run refuses a trade it has sent nothing, but for a row  *)
(* booked since or a check without effect, whatever the limits, amounts    *)
(* and commands (run.go:45-51 against executor.py:498-512).                *)
THEOREM RefusedIsUnsent == Spec => []RefusedMeansUnsent
<1>1. LimitInv => RefusedMeansUnsent
  BY DEF LimitInv, AllSound, Sound, RefusedMeansUnsent
<1> QED BY <1>1, LimitInvariance, PTL

(* Commands overrun the daily limit by at most one MAX_TX_AMOUNT for each  *)
(* check that passed while another's row was missing, and by what no row   *)
(* tells of (executor.py:441, start.go:111).                               *)
THEOREM OvershootIsBounded == Spec => []OvershootBounded
<1>1. ASSUME CInv, LimitInv PROVE OvershootBounded
  <2>1. \A p \in Proc : Held[p] \in Nat
    BY <1>1, HoldType DEF CInv, HostInv, Held
  <2>2. SumOf(Held) \in Nat
    <3>1. Held \in [Proc -> Nat] /\ IsFiniteSet(Proc)
      BY <2>1, LimitAssumption DEF Held
    <3> QED BY <3>1, SumOfType, AdditiveSets
  <2>3. DailyCap + overlaps * MaxTx \in Nat
    BY <1>1, RoomType DEF CInv
  <2> QED BY <1>1, <2>2, <2>3 DEF LimitInv, Accounted, OvershootBounded
<1> QED BY <1>1, LimitInvariance, PTL
=============================================================================
