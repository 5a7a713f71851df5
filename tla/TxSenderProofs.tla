--------------------------- MODULE TxSenderProofs ---------------------------
(* The retry loop of executor.py:666-744 implements SendCall, for every    *)
(* number of retries.                                                      *)
EXTENDS TxSender, TLAPS

(* Where the sends stand: an attempt has broadcast at most once, and a     *)
(* second broadcast follows a lost answer.                                 *)
SendsCounted ==
  /\ sends <= attempt + 1
  /\ pc \in {"nonce", "broadcast"} => sends <= attempt
  /\ pc \in {"nonce", "broadcast", "sleep"} /\ sends > 0 => MayLose

NonceFresh == pc = "broadcast" => nonce <= head

AttemptsLeft == pc = "sleep" => attempt < MaxRetries

AnswerGiven == pc = "done" <=> answer # "none"

(* The mempool holds one transaction at most, at the account's next nonce; *)
(* while the sender waits it is the one it waits for, and once that one is *)
(* mined there is none.                                                    *)
PoolShape ==
  /\ \A t, u \in pool : t = u
  /\ NoNonceGap
  /\ pc = "wait" => \A t \in pool : t.hash = Hash /\ Hash \notin mined

MinedShape ==
  /\ \A h \in mined : h <= attempt + 1
  /\ (pc \in {"nonce", "broadcast"}) => (attempt + 1) \notin mined
  /\ \A t \in pool : t.hash <= attempt + 1
  /\ pc \in {"nonce", "broadcast"} => \A t \in pool : t.hash <= attempt
  /\ mined \ {Old} # {} => copies > 0

TInv ==
  /\ TypeOK
  /\ SendsCounted
  /\ NonceFresh
  /\ AttemptsLeft
  /\ AnswerGiven
  /\ PoolShape
  /\ MinedShape

(* The starting states satisfy the invariant.                              *)
THEOREM TxInit == Init => TInv
BY TxSenderAssumption
   DEF Init, TInv, TypeOK, SendsCounted, NonceFresh, AttemptsLeft, AnswerGiven, PoolShape, MinedShape,
       NoNonceGap, Hash, Old

(* The steps of the call that send nothing.                                *)
LEMMA QuietKeeps ==
  ASSUME TInv,
         \/ GetNonce \/ GetReceipt \/ Retry \/ RetryFails
         \/ \E r \in BOOLEAN : CallFails(r) \/ WaitFails(r)
  PROVE  TInv'
<1> USE TxSenderAssumption
        DEF TInv, TypeOK, SendsCounted, NonceFresh, AttemptsLeft, AnswerGiven, PoolShape, MinedShape,
            NoNonceGap, Hash, Old, chain
<1>1. CASE GetNonce
  BY <1>1 DEF GetNonce
<1>2. CASE GetReceipt
  BY <1>2 DEF GetReceipt
<1>3. CASE Retry
  <2>1. \A t \in pool : t.hash \in Nat
    OBVIOUS
  <2>2. \A h \in mined : h \in Nat
    OBVIOUS
  <2>3. attempt + 1 \in 0..MaxRetries
    BY <1>3 DEF Retry
  <2> QED BY <1>3, <2>1, <2>2, <2>3 DEF Retry
<1>4. CASE RetryFails
  BY <1>4 DEF RetryFails
<1>5. CASE \E r \in BOOLEAN : CallFails(r)
  BY <1>5 DEF CallFails, Raise
<1>6. CASE \E r \in BOOLEAN : WaitFails(r)
  BY <1>6 DEF WaitFails, Raise
<1> QED BY <1>1, <1>2, <1>3, <1>4, <1>5, <1>6

(* A broadcast: the transaction takes the place of whatever was pending.   *)
LEMMA AcceptedKeeps ==
  ASSUME TInv, Accepted,
         \/ pc' = "wait" /\ UNCHANGED answer
         \/ MayLose /\ \E r \in BOOLEAN : Raise(r)
  PROVE  TInv'
<1> USE TxSenderAssumption DEF TInv, TypeOK, Hash, Old
<1>1. nonce = head /\ nonce \in Nat
  BY DEF Accepted, NonceFresh
<1>2. pool' = { [nonce |-> nonce, hash |-> attempt + 1] }
  BY <1>1 DEF Accepted, PoolShape, NoNonceGap
<1>3. attempt + 1 \in 0..(MaxRetries + 1)
  OBVIOUS
<1>4. /\ pc' \in {"wait", "sleep", "done"}
      /\ pc' = "sleep" => attempt < MaxRetries
      /\ pc' = "sleep" => MayLose
      /\ answer' \in {"none", "receipt", "error"}
  BY DEF Raise
<1>5. sends' <= attempt + 1 /\ sends' \in Nat
  BY DEF Accepted, SendsCounted
<1>6. (attempt + 1) \notin mined
  BY DEF Accepted, MinedShape
<1>7. TypeOK'
  BY <1>1, <1>2, <1>3, <1>4, <1>5 DEF Accepted
<1>8. SendsCounted' /\ NonceFresh' /\ AttemptsLeft' /\ AnswerGiven'
  BY <1>4, <1>5 DEF Accepted, SendsCounted, NonceFresh, AttemptsLeft, AnswerGiven,
                    Raise
<1>9. PoolShape'
  BY <1>1, <1>2, <1>6 DEF Accepted, PoolShape, NoNonceGap
<1>10. MinedShape'
  BY <1>2, <1>4, <1>6 DEF Accepted, MinedShape
<1> QED BY <1>7, <1>8, <1>9, <1>10

(* The chain: the only transaction it can mine is the one pending.         *)
LEMMA ChainKeeps ==
  ASSUME TInv, NEW t \in pool, Mine(t) \/ Drop(t)
  PROVE  TInv'
<1> USE TxSenderAssumption DEF TInv, TypeOK, Hash, Old, sender
<1>1. pool = {t}
  BY DEF PoolShape
<1>2. t.nonce = head /\ t.hash \in 0..(MaxRetries + 1)
  BY DEF PoolShape, NoNonceGap
<1>3. pool' = {}
  BY <1>1, <1>2 DEF Mine, Drop
<1>4. CASE Mine(t)
  <2>1. TypeOK'
    <3>1. head' = head + 1 /\ mined' = mined \cup {t.hash} /\ copies' \in Nat
          /\ UNCHANGED <<pc, attempt, nonce, answer, sends>>
      BY <1>4 DEF Mine
    <3>2. mined' \subseteq 0..(MaxRetries + 1)
      BY <1>2, <3>1
    <3>3. head' \in Nat /\ attempt' \in 0..MaxRetries /\ nonce' \in Nat /\ sends' \in Nat
      BY <3>1
    <3>4. /\ pc' \in {"nonce", "broadcast", "wait", "sleep", "done"}
          /\ answer' \in {"none", "receipt", "error"}
      BY <3>1
    <3> QED BY <1>3, <3>1, <3>2, <3>3, <3>4
  <2>2. SendsCounted' /\ NonceFresh' /\ AttemptsLeft' /\ AnswerGiven'
    BY <1>4 DEF Mine, SendsCounted, NonceFresh, AttemptsLeft, AnswerGiven
  <2>3. PoolShape'
    BY <1>3 DEF PoolShape, NoNonceGap
  <2>4. MinedShape'
    <3>1. t.hash <= attempt + 1 /\ (pc \in {"nonce", "broadcast"} => t.hash <= attempt)
      BY DEF MinedShape
    <3>2. mined' = mined \cup {t.hash} /\ UNCHANGED <<pc, attempt>>
      BY <1>4 DEF Mine
    <3>3. mined' \ {Old} # {} => copies' > 0
      BY <1>4 DEF Mine, MinedShape
    <3>4. attempt \in Nat /\ t.hash \in Nat
      BY <1>2
    <3> QED BY <1>3, <3>1, <3>2, <3>3, <3>4 DEF MinedShape
  <2> QED BY <2>1, <2>2, <2>3, <2>4
<1>5. CASE Drop(t)
  BY <1>3, <1>5
     DEF Drop, SendsCounted, NonceFresh, AttemptsLeft, AnswerGiven, PoolShape,
         NoNonceGap, MinedShape
<1> QED BY <1>4, <1>5

(* Every step keeps the invariant.                                         *)
THEOREM TxNext == TInv /\ [Next]_vars => TInv'
<1> SUFFICES ASSUME TInv, [Next]_vars PROVE TInv'
  OBVIOUS
<1>1. CASE \/ GetNonce \/ GetReceipt \/ Retry \/ RetryFails
           \/ \E r \in BOOLEAN : CallFails(r) \/ WaitFails(r)
  BY <1>1, QuietKeeps
<1>2. CASE Broadcast \/ \E r \in BOOLEAN : BroadcastUnanswered(r)
  BY <1>2, AcceptedKeeps DEF Broadcast, BroadcastUnanswered
<1>3. CASE \E t \in pool : Mine(t) \/ Drop(t)
  BY <1>3, ChainKeeps
<1>4. CASE UNCHANGED vars
  BY <1>4 DEF vars, sender, chain, TInv, TypeOK, SendsCounted, NonceFresh,
     AttemptsLeft, AnswerGiven, PoolShape, NoNonceGap, MinedShape, Hash
<1> QED BY <1>1, <1>2, <1>3, <1>4 DEF Next, Sender

(* The invariant holds throughout.                                         *)
THEOREM TxInvariance == Spec => []TInv
BY TxInit, TxNext, PTL DEF Spec

(* The mempool never holds a transaction behind a nonce gap, for every     *)
(* number of retries (executor.py:712).                                    *)
THEOREM NoGap == Spec => []NoNonceGap
<1>1. TInv => NoNonceGap
  BY DEF TInv, PoolShape
<1> QED BY <1>1, TxInvariance, PTL

-----------------------------------------------------------------------------
(* Every step of the loop and of the chain is a step of SendCall or none.  *)
LEMMA StepMaps ==
  ASSUME TInv, Next
  PROVE  [Abstract!Step]_(Abstract!callVars)
<1> USE DEF Abstract!Step, Abstract!callVars
<1>1. CASE GetNonce \/ Retry
  BY <1>1 DEF GetNonce, Retry, chain, Own
<1>2. CASE \E r \in BOOLEAN : CallFails(r) \/ WaitFails(r)
  <2>1. \/ UNCHANGED <<answer, sends, copies, pool>>
        \/ /\ answer = "none" /\ answer' = "error"
           /\ sends > 0 => MayLose
           /\ UNCHANGED <<sends, copies, pool>>
    BY <1>2 DEF CallFails, WaitFails, Raise, chain, TInv, SendsCounted, AnswerGiven
  <2> QED BY <2>1 DEF Own, Abstract!Error
<1>3. CASE RetryFails
  BY <1>3 DEF RetryFails, chain, Own, TInv, SendsCounted, AnswerGiven, Abstract!Error
<1>4. CASE Broadcast \/ \E r \in BOOLEAN : BroadcastUnanswered(r)
  <2>1. Accepted /\ (UNCHANGED answer \/ (MayLose /\ answer' \in {answer, "error"}))
    BY <1>4 DEF Broadcast, BroadcastUnanswered, Raise
  <2>2. [nonce |-> nonce, hash |-> Hash] \in pool' /\ Hash # Old
    BY <2>1, TxSenderAssumption DEF Accepted, TInv, TypeOK, Hash, Old
  <2>3. Own' # {}
    BY <2>2 DEF Own, Old
  <2>4. answer = "none" /\ sends < MaxRetries + 1 /\ (sends > 0 => MayLose)
    BY <2>1, TxSenderAssumption
       DEF Accepted, TInv, TypeOK, SendsCounted, AnswerGiven
  <2> QED BY <2>1, <2>3, <2>4 DEF Accepted, Abstract!Broadcast
<1>5. CASE GetReceipt
  <2>1. Hash \in mined \ {Old}
    BY <1>5, TxSenderAssumption DEF GetReceipt, TInv, TypeOK, Hash, Old
  <2>2. copies > 0 /\ pool = {} /\ answer = "none"
    BY <1>5, <2>1 DEF GetReceipt, TInv, PoolShape, MinedShape, AnswerGiven
  <2> QED BY <1>5, <2>2 DEF GetReceipt, chain, Own, Abstract!Receipt
<1>6. CASE \E t \in pool : Mine(t) \/ Drop(t)
  <2>1. PICK t \in pool : Mine(t) \/ Drop(t)
    BY <1>6
  <2>2. pool = {t} /\ t.nonce = head
    BY DEF TInv, PoolShape, NoNonceGap
  <2>3. pool' = {} /\ Own' = {}
    BY <2>1, <2>2 DEF Mine, Drop, Own
  <2>4. CASE t.hash = Old
    BY <2>1, <2>2, <2>3, <2>4 DEF Mine, Drop, Own, sender
  <2>5. CASE t.hash # Old
    BY <2>1, <2>2, <2>3, <2>5
       DEF Mine, Drop, Own, sender, Abstract!Mined, Abstract!Dropped
  <2> QED BY <2>4, <2>5
<1> QED BY <1>1, <1>2, <1>3, <1>4, <1>5, <1>6 DEF Next, Sender

(* A copy is mined or pending only after a broadcast of its own, and while *)
(* no answer is lost there is one broadcast at most.                       *)
CopiesCounted ==
  /\ copies <= sends
  /\ Own # {} => copies + 1 <= sends
  /\ ~MayLose => sends <= 1

(* Every step keeps the count of copies.                                   *)
LEMMA CopiesKeep ==
  ASSUME TInv, CopiesCounted, [Next]_vars
  PROVE  CopiesCounted'
<1> USE DEF CopiesCounted
<1>1. copies \in Nat /\ sends \in Nat
  BY DEF TInv, TypeOK
<1>2. CASE UNCHANGED <<copies, sends, pool>>
  BY <1>2 DEF Own, Old
<1>3. CASE Accepted
  <2>1. copies' = copies /\ sends' = sends + 1
    BY <1>3 DEF Accepted
  <2>2. copies <= sends
    BY <1>1
  <2>3. ~MayLose => sends = 0
    BY <1>1, <1>3 DEF Accepted, TInv, SendsCounted
  <2> QED BY <1>1, <2>1, <2>2, <2>3
<1>4. CASE \E t \in pool : Mine(t) \/ Drop(t)
  <2>1. PICK t \in pool : Mine(t) \/ Drop(t)
    BY <1>4
  <2>2. pool = {t} /\ t.nonce = head
    BY DEF TInv, PoolShape, NoNonceGap
  <2>3. Own' = {}
    BY <2>1, <2>2 DEF Mine, Drop, Own
  <2>4. copies' = copies \/ (Own # {} /\ copies' = copies + 1)
    BY <1>1, <2>1, <2>2 DEF Mine, Drop, Own
  <2>5. sends' = sends
    BY <2>1 DEF Mine, Drop
  <2> QED BY <1>1, <2>3, <2>4, <2>5
<1>5. CASE \/ GetNonce \/ GetReceipt \/ Retry \/ RetryFails
           \/ \E r \in BOOLEAN : CallFails(r) \/ WaitFails(r)
  <2>1. UNCHANGED <<copies, sends, pool>>
    BY <1>5 DEF GetNonce, CallFails, GetReceipt, WaitFails, Retry, RetryFails, chain
  <2> QED BY <1>2, <2>1
<1>6. CASE UNCHANGED vars
  <2>1. UNCHANGED <<copies, sends, pool>>
    BY <1>6 DEF vars, chain
  <2> QED BY <1>2, <2>1
<1>7. CASE Broadcast \/ \E r \in BOOLEAN : BroadcastUnanswered(r)
  BY <1>3, <1>7 DEF Broadcast, BroadcastUnanswered
<1> QED BY <1>4, <1>5, <1>6, <1>7 DEF Next, Sender

(* The count of copies holds throughout.                                   *)
THEOREM Counted == Spec => []CopiesCounted
<1>1. Init => CopiesCounted
  BY DEF Init, CopiesCounted, Own, Old
<1>2. TInv /\ CopiesCounted /\ [Next]_vars => CopiesCounted'
  BY CopiesKeep
<1> QED BY <1>1, <1>2, TxInvariance, PTL DEF Spec

(* The counts of an answered call, as OutcomeAllowed asks for them.        *)
LEMMA AnswerCounts ==
  ASSUME NEW n \in Nat, NEW a \in 0..n, NEW s \in Nat, NEW c \in Nat,
         NEW receipt \in BOOLEAN, NEW late \in BOOLEAN, NEW lose,
         s <= a + 1, c <= s, late => c + 1 <= s, ~lose => s <= 1,
         receipt => c > 0 /\ ~late,
         ~receipt => s = 0 \/ lose
  PROVE  OutcomeAllowed([receipt |-> receipt, mined |-> c, late |-> late], n + 1, lose)
<1>1. c + (IF late THEN 1 ELSE 0) <= n + 1
  <2>1. CASE late
    BY <2>1
  <2>2. CASE ~late
    BY <2>2
  <2> QED BY <2>1, <2>2
<1>2. CASE receipt
  <2>1. c > 1 => lose
    <3>1. s <= 1 => ~(c > 1)
      OBVIOUS
    <3> QED BY <3>1
  <2> QED BY <1>1, <1>2, <2>1 DEF OutcomeAllowed
<1>3. CASE ~receipt
  <2>1. c > 0 \/ late => lose
    <3>1. s = 0 => ~(c > 0 \/ late)
      OBVIOUS
    <3> QED BY <1>3, <3>1
  <2> QED BY <1>1, <1>3, <2>1 DEF OutcomeAllowed
<1> QED BY <1>2, <1>3

(* For every number of retries the answer is one the executor counts on.   *)
THEOREM Answers == Spec => AnswerAllowed
<1>1. ASSUME TInv, TInv', CopiesCounted', [Next]_vars,
             answer = "none", answer' # "none"
      PROVE  OutcomeAllowed([receipt |-> answer' = "receipt", mined |-> copies',
                             late |-> Own' # {}], MaxRetries + 1, MayLose)
  <2>1. copies' \in Nat /\ sends' \in Nat /\ attempt' \in 0..MaxRetries
    BY <1>1 DEF TInv, TypeOK
  <2>2. sends' <= attempt' + 1
    BY <1>1 DEF TInv, SendsCounted
  <2>3. MaxRetries \in Nat
    BY TxSenderAssumption
  <2>4. /\ copies' <= sends'
        /\ Own' # {} => copies' + 1 <= sends'
        /\ ~MayLose => sends' <= 1
    BY <1>1 DEF CopiesCounted
  <2>5. [Abstract!Step]_(Abstract!callVars)
    BY <1>1, StepMaps DEF vars, sender, chain, Own, Old, Abstract!callVars
  <2>6. answer' \in {"receipt", "error"}
    BY <1>1 DEF TInv, TypeOK
  <2>7. answer' = "receipt" => copies' > 0 /\ ~(Own' # {})
    BY <1>1, <2>5
       DEF Abstract!Step, Abstract!callVars, Abstract!Broadcast, Abstract!Mined,
           Abstract!Dropped, Abstract!Receipt, Abstract!Error
  <2>8. answer' # "receipt" => sends' = 0 \/ MayLose
    <3>1. CASE sends = 0 \/ MayLose
      BY <1>1, <2>5, <2>6, <3>1
         DEF Abstract!Step, Abstract!callVars, Abstract!Broadcast, Abstract!Mined,
             Abstract!Dropped, Abstract!Receipt, Abstract!Error
    <3>2. CASE ~(sends = 0 \/ MayLose)
      <4>1. sends \in Nat /\ sends > 0
        BY <1>1, <3>2 DEF TInv, TypeOK
      <4> QED BY <1>1, <2>5, <2>6, <3>2, <4>1
         DEF Abstract!Step, Abstract!callVars, Abstract!Broadcast, Abstract!Mined,
             Abstract!Dropped, Abstract!Receipt, Abstract!Error
    <3> QED BY <3>1, <3>2
  <2>9. (answer' = "receipt") \in BOOLEAN /\ (Own' # {}) \in BOOLEAN
    OBVIOUS
  <2> QED BY <2>1, <2>2, <2>3, <2>4, <2>7, <2>8, <2>9, AnswerCounts, Zenon
<1> DEFINE Good == answer = "none" /\ answer' # "none" =>
       OutcomeAllowed([receipt |-> answer' = "receipt", mined |-> copies',
                       late |-> Own' # {}], MaxRetries + 1, MayLose)
<1>2. TInv /\ TInv' /\ CopiesCounted' /\ [Next]_vars => Good
  BY <1>1
<1> QED BY <1>2, Counted, TxInvariance, PTL DEF AnswerAllowed, Spec

(* The retry loop implements SendCall for every number of retries.         *)
THEOREM Implements == Spec => ImplementsSendCall
<1>1. Init => Abstract!Start
  BY DEF Init, Own, Old, Abstract!Start
<1>2. TInv /\ [Next]_vars => [Abstract!Step]_(Abstract!callVars)
  <2>1. ASSUME TInv, UNCHANGED vars PROVE UNCHANGED Abstract!callVars
    BY <2>1 DEF vars, sender, chain, Own, Old, Abstract!callVars
  <2> QED BY <2>1, StepMaps
<1> QED BY <1>1, <1>2, TxInvariance, PTL DEF Spec, ImplementsSendCall, Abstract!CallSpec
=============================================================================
