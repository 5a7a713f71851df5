------------------------------ MODULE TxSender ------------------------------
(***************************************************************************)
(* _send_transaction_with_retry and _send_transaction of executor.py       *)
(* (lines 650-744) against a chain and its mempool.                        *)
(*                                                                         *)
(* Every attempt asks the chain for the number of mined transactions and   *)
(* uses it as its nonce, broadcasts, and waits for the receipt of the hash *)
(* it got.  A transaction an earlier call left behind may be in the        *)
(* mempool.  Failing gas and fee queries are swallowed by the code and     *)
(* change nothing here; the contents of the transaction never change.      *)
(***************************************************************************)
EXTENDS Naturals, SendOutcome

CONSTANTS MaxRetries,   \* max_retries
          MayLose       \* whether a call may fail after the broadcast

ASSUME TxSenderAssumption == MaxRetries \in Nat /\ MayLose \in BOOLEAN

VARIABLES pc,        \* where the sender is
          attempt,   \* loop variable of the retry loop
          nonce,     \* nonce of the current attempt
          answer,    \* "none", "receipt" or "error"
          pool,      \* the account's transactions in the mempool
          head,      \* the account's mined transactions
          mined,     \* hashes with a receipt
          sends,     \* observer: broadcasts the node accepted
          copies     \* observer: own transactions mined

sender == <<pc, attempt, nonce, answer>>
chain  == <<pool, head, mined, sends, copies>>
vars   == <<sender, chain>>

Old == 0                         \* hash of a transaction of an earlier call
Hash == attempt + 1              \* hash of this attempt's transaction
Own == { t \in pool : t.hash # Old }

TypeOK ==
  /\ pc \in {"nonce", "broadcast", "wait", "sleep", "done"}
  /\ attempt \in 0..MaxRetries
  /\ nonce \in Nat
  /\ answer \in {"none", "receipt", "error"}
  /\ pool \subseteq [nonce : Nat, hash : 0..(MaxRetries + 1)]
  /\ head \in Nat
  /\ mined \subseteq 0..(MaxRetries + 1)
  /\ sends \in Nat
  /\ copies \in Nat

Init ==
  /\ pc = "nonce" /\ attempt = 0 /\ nonce = 0 /\ answer = "none"
  /\ head = 0
  /\ pool \in { {}, {[nonce |-> 0, hash |-> Old]} }
  /\ mined = {} /\ sends = 0 /\ copies = 0

-----------------------------------------------------------------------------
(* _is_retryable and the except clause of the retry loop.                  *)
RaiseLate(retryable) ==                  \* a mutant: one attempt too many
  IF retryable /\ attempt <= MaxRetries
  THEN pc' = "sleep" /\ UNCHANGED answer
  ELSE pc' = "done" /\ answer' = "error"

Raise(retryable) ==
  IF retryable /\ attempt < MaxRetries
  THEN pc' = "sleep" /\ UNCHANGED answer
  ELSE pc' = "done" /\ answer' = "error"

BumpNonce ==              \* a mutant: later attempts count from the last nonce
  /\ pc = "nonce"
  /\ nonce' = IF attempt = 0 THEN head ELSE nonce + 1
  /\ pc' = "broadcast"
  /\ UNCHANGED <<chain, attempt, answer>>

GetNonce ==                          \* get_transaction_count("latest")
  /\ pc = "nonce"
  /\ nonce' = head
  /\ pc' = "broadcast"
  /\ UNCHANGED <<chain, attempt, answer>>

CallFails(retryable) ==              \* nothing was broadcast
  /\ pc \in {"nonce", "broadcast"}
  /\ Raise(retryable)
  /\ UNCHANGED <<chain, attempt, nonce>>

(* The node takes a transaction whose nonce is not used up and lets it     *)
(* replace one of the same nonce.                                          *)
Accepted ==
  /\ pc = "broadcast" /\ nonce >= head
  /\ pool' = { t \in pool : t.nonce # nonce }
             \cup { [nonce |-> nonce, hash |-> Hash] }
  /\ sends' = sends + 1
  /\ UNCHANGED <<head, mined, copies, attempt, nonce>>

Broadcast == Accepted /\ pc' = "wait" /\ UNCHANGED answer

BroadcastUnanswered(retryable) == MayLose /\ Accepted /\ Raise(retryable)

GetHash ==                           \* a mutant: does not wait for the block
  /\ pc = "wait"
  /\ pc' = "done" /\ answer' = "receipt"
  /\ UNCHANGED <<chain, attempt, nonce>>

GetReceipt ==           \* wait_for_transaction_receipt; its status is not read
  /\ pc = "wait" /\ Hash \in mined
  /\ pc' = "done" /\ answer' = "receipt"
  /\ UNCHANGED <<chain, attempt, nonce>>

NoTimeout(retryable) ==              \* a mutant: waits for as long as it takes
  /\ pc = "wait" /\ Hash \in mined /\ MayLose
  /\ Raise(retryable)
  /\ UNCHANGED <<chain, attempt, nonce>>

WaitFails(retryable) ==              \* timeout=120, or the connection breaks
  /\ pc = "wait" /\ MayLose
  /\ Raise(retryable)
  /\ UNCHANGED <<chain, attempt, nonce>>

Retry ==                             \* tx_def["nonce"] is set and never read
  /\ pc = "sleep"
  /\ attempt' = attempt + 1
  /\ pc' = "nonce"
  /\ UNCHANGED <<chain, nonce, answer>>

RetryFails ==                        \* get_transaction_count raises out of it
  /\ pc = "sleep"
  /\ pc' = "done" /\ answer' = "error"
  /\ UNCHANGED <<chain, attempt, nonce>>

Sender ==
  \/ GetNonce
  \/ \E r \in BOOLEAN : CallFails(r)
  \/ Broadcast
  \/ \E r \in BOOLEAN : BroadcastUnanswered(r)
  \/ GetReceipt
  \/ \E r \in BOOLEAN : WaitFails(r)
  \/ Retry
  \/ RetryFails

Mine(t) ==
  /\ t.nonce = head
  /\ head' = head + 1
  /\ pool' = { u \in pool : u.nonce # head }
  /\ mined' = mined \cup {t.hash}
  /\ copies' = IF t.hash = Old THEN copies ELSE copies + 1
  /\ UNCHANGED <<sender, sends>>

Drop(t) ==
  /\ MayLose \/ t.hash = Old
  /\ pool' = pool \ {t}
  /\ UNCHANGED <<sender, head, mined, sends, copies>>

Next ==
  \/ Sender
  \/ \E t \in pool : Mine(t)
  \/ \E t \in pool : Drop(t)

Spec == Init /\ [][Next]_vars

(* Every call of the sender returns or times out, and a transaction whose  *)
(* turn it is gets mined unless it is dropped.                             *)
FairSpec == Spec /\ WF_vars(Sender) /\ WF_vars(\E t \in pool : Mine(t))

-----------------------------------------------------------------------------
(* Asking for the nonce anew at every attempt leaves no gap: whatever is   *)
(* in the mempool is the next transaction of the account                   *)
(* (executor.py:712, 683-684).                                             *)
NoNonceGap == \A t \in pool : t.nonce = head

(* The answers the executor is built on, module SendCall.                  *)
Abstract == INSTANCE SendCall WITH MaxSends <- MaxRetries + 1,
                                   inflight <- Own # {}

(* The retry loop keeps the caller's contract: at most max_retries + 1     *)
(* broadcasts, one copy at a time in the mempool, none left there once a   *)
(* receipt is returned, and no second copy unless an answer was lost.      *)
ImplementsSendCall == Abstract!CallSpec

(* The answer is one of those module Executor counts on; without lost      *)
(* answers a receipt means one copy mined and an error none.               *)
AnswerAllowed ==
  [][answer = "none" /\ answer' # "none" =>
       OutcomeAllowed([receipt |-> answer' = "receipt", mined |-> copies',
                       late |-> Own' # {}], MaxRetries + 1, MayLose)]_vars

(* The call comes back with a receipt or an error (executor.py:671-688).   *)
CallReturns == <>(answer # "none")
=============================================================================
