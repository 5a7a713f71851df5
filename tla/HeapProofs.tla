------------------------------ MODULE HeapProofs ------------------------------
(* What HEAP.sol guarantees for every word size, supply and set of         *)
(* accounts, and the buyback paths for every threshold, share and profit.  *)
EXTENDS HeapToken, Buyback, Sums

-----------------------------------------------------------------------------
(* The token.                                                              *)
HInv == TokenTypeOK /\ BurnsAccounted /\ NominationsCurrent

(* The constructor establishes the invariant.                              *)
THEOREM HeapInit == TokenInit => HInv
<1> SUFFICES ASSUME TokenInit
             PROVE  HInv
  OBVIOUS
<1> USE HeapAssumption DEF TokenInit, Uint, Sender
<1>1. totalSupply = 0 \/ totalSupply = InitialSupply
  OBVIOUS
<1>2. totalSupply \in Uint /\ 0 \in Uint
  BY <1>1
<1>3. TokenTypeOK
  <2>1. balanceOf \in [Address -> Uint]
    BY <1>2
  <2>2. allowance \in [Address -> [Address -> Uint]]
    BY <1>2
  <2>3. owner \in Address /\ pendingOwner \in Address /\ nominator \in Address
        /\ caller \in Address
    OBVIOUS
  <2>4. buybackEnabled \in BOOLEAN
    OBVIOUS
  <2>5. totalBurned \in Uint /\ minted \in Nat
    BY <1>2
  <2> QED BY <1>2, <2>1, <2>2, <2>3, <2>4, <2>5 DEF TokenTypeOK
<1> QED BY <1>2, <1>3 DEF HInv, BurnsAccounted, NominationsCurrent

(* The calls that move tokens between accounts.                            *)
LEMMA MoveTypes ==
  ASSUME TokenTypeOK, NEW from \in Address, NEW to \in Address, NEW a \in Uint, Move(from, to, a)
  PROVE  balanceOf' \in [Address -> Uint]
<1> USE HeapAssumption DEF TokenTypeOK, Uint, Move
<1>1. CASE from = to
  BY <1>1
<1>2. CASE from # to
  <2>1. balanceOf[from] - a \in Uint
    OBVIOUS
  <2>2. balanceOf'[to] = balanceOf[to] + a /\ balanceOf[to] + a \in Uint
    BY <1>2
  <2> QED BY <1>2, <2>1, <2>2
<1> QED BY <1>1, <1>2

(* Every call keeps the invariant.                                         *)
THEOREM HeapNext == HInv /\ [TokenNext]_tokenVars => HInv'
<1> SUFFICES ASSUME HInv, [TokenNext]_tokenVars
             PROVE  HInv'
  OBVIOUS
<1> USE HeapAssumption DEF HInv, TokenTypeOK, BurnsAccounted, NominationsCurrent, Uint, Sender
<1>1. CASE UNCHANGED tokenVars
  BY <1>1 DEF tokenVars, funds, roles
<1>2. ASSUME NEW sender \in Sender, caller' = sender, Call
      PROVE  HInv'
  <2> USE <1>2 DEF funds, roles
  <2>1. ASSUME NEW to \in Address, NEW a \in Amounts, Transfer(to, a)
        PROVE  HInv'
    <3>1. balanceOf' \in [Address -> Uint]
      BY <2>1, MoveTypes DEF Transfer
    <3> QED BY <2>1, <3>1 DEF Transfer, Move
  <2>2. ASSUME NEW from \in Address, NEW to \in Address, NEW a \in Amounts,
               TransferFrom(from, to, a)
        PROVE  HInv'
    <3>1. balanceOf' \in [Address -> Uint]
      BY <2>2, MoveTypes DEF TransferFrom
    <3>2. allowance' \in [Address -> [Address -> Uint]]
      BY <2>2 DEF TransferFrom
    <3> QED BY <2>2, <3>1, <3>2 DEF TransferFrom, Move
  <2>3. ASSUME NEW spender \in Spenders, NEW a \in Amounts, Approve(spender, a)
        PROVE  HInv'
    BY <2>3 DEF Approve
  <2>4. ASSUME NEW newOwner \in Address, TransferOwnership(newOwner)
        PROVE  HInv'
    BY <2>4 DEF TransferOwnership, OnlyOwner
  <2>5. ASSUME AcceptOwnership
        PROVE  HInv'
    BY <2>5 DEF AcceptOwnership
  <2>6. ASSUME NEW to \in Address, NEW a \in Amounts, Mint(to, a)
        PROVE  HInv'
    BY <2>6 DEF Mint
  <2>7. ASSUME NEW a \in Amounts, Burn(a)
        PROVE  HInv'
    <3>1. a \in Uint /\ sender \in Address
      OBVIOUS
    <3>2. totalSupply - a \in Uint /\ balanceOf[sender] - a \in Uint
      BY <2>7, <3>1 DEF Burn
    <3>3. balanceOf' \in [Address -> Uint]
      BY <2>7, <3>1, <3>2 DEF Burn
    <3>4. totalBurned + a \in Uint
      BY <2>7, <3>1 DEF Burn
    <3>5. (totalSupply - a) + (totalBurned + a) = minted
      BY <2>7, <3>1
    <3> QED BY <2>7, <3>2, <3>3, <3>4, <3>5 DEF Burn
  <2>8. ASSUME NEW enabled \in BOOLEAN, SetBuybackEnabled(enabled)
        PROVE  HInv'
    BY <2>8 DEF SetBuybackEnabled
  <2> QED BY <2>1, <2>2, <2>3, <2>4, <2>5, <2>6, <2>7, <2>8 DEF Call
<1> QED BY <1>1, <1>2 DEF TokenNext

(* The invariant holds after every sequence of calls.                      *)
THEOREM HeapInvariance == TokenSpec => []HInv
BY HeapInit, HeapNext, PTL DEF TokenSpec

(* The types of the contract's storage: a uint256 never leaves its width.  *)
THEOREM HeapTypes == TokenSpec => []TokenTypeOK
<1>1. HInv => TokenTypeOK
  BY DEF HInv
<1> QED BY <1>1, HeapInvariance, PTL

(* Supply and burned total account for every token created.                *)
THEOREM BurnsAreAccounted == TokenSpec => []BurnsAccounted
<1>1. HInv => BurnsAccounted
  BY DEF HInv
<1> QED BY <1>1, HeapInvariance, PTL

(* The contract always has an owner, and only he has a nomination open.    *)
THEOREM NominationsAreCurrent == TokenSpec => []NominationsCurrent
<1>1. HInv => NominationsCurrent
  BY DEF HInv
<1> QED BY <1>1, HeapInvariance, PTL

-----------------------------------------------------------------------------
(* The sum of all balances.                                                *)

Balanced == SumOf(balanceOf) = totalSupply

(* BalancesMatchSupply in the words of Sums.                               *)
LEMMA SupplyIsSum == BalancesMatchSupply <=> Balanced
<1>1. FoldFunction(+, 0, balanceOf) = SumOf(balanceOf)
  BY SumIsFold
<1> QED BY <1>1 DEF BalancesMatchSupply, Balanced

(* The constructor gives all of the supply to Admin.                       *)
LEMMA StartsBalanced == TokenInit => Balanced
<1> SUFFICES ASSUME TokenInit PROVE Balanced
  OBVIOUS
<1> USE HeapAssumption
<1>1. /\ DOMAIN balanceOf = Address /\ Admin \in Address
      /\ balanceOf[Admin] = totalSupply /\ totalSupply \in Int
      /\ \A a \in Address \ {Admin} : balanceOf[a] = 0
  BY DEF TokenInit, Uint, Sender
<1>2. SumOn(balanceOf, Address) = totalSupply
  BY <1>1, SumSingle
<1> QED BY <1>1, <1>2 DEF Balanced, SumOf

(* One balance changes by as much as the supply.                           *)
LEMMA OneBalance ==
  ASSUME TokenTypeOK, Balanced, NEW x \in Address, NEW v \in Uint,
         totalSupply' \in Int, totalSupply' - totalSupply = v - balanceOf[x],
         balanceOf' = [balanceOf EXCEPT ![x] = v]
  PROVE  Balanced'
<1>1. /\ balanceOf \in [Address -> Int] /\ balanceOf[x] \in Int /\ v \in Int
      /\ totalSupply \in Int /\ IsFiniteSet(Address)
  BY HeapAssumption DEF TokenTypeOK, Uint
<1>2. SumOf(balanceOf') = (SumOf(balanceOf) - balanceOf[x]) + v
  BY <1>1, SumOfExcept
<1> QED BY <1>1, <1>2 DEF Balanced

(* What one holder loses another gets.                                     *)
LEMMA MoveBalances ==
  ASSUME TokenTypeOK, Balanced, NEW from \in Address, NEW to \in Address,
         NEW a \in Uint, Move(from, to, a)
  PROVE  Balanced'
<1>1. CASE from = to
  BY <1>1 DEF Move, Balanced
<1>2. CASE from # to
  <2> DEFINE b == [balanceOf EXCEPT ![from] = balanceOf[from] - a]
  <2>1. /\ balanceOf \in [Address -> Int] /\ balanceOf[from] \in Int
        /\ balanceOf[to] \in Int /\ a \in Int /\ IsFiniteSet(Address)
    BY HeapAssumption DEF TokenTypeOK, Uint
  <2>2. /\ balanceOf[from] - a \in Int /\ balanceOf[to] + a \in Int
        /\ b \in [Address -> Int] /\ b[to] = balanceOf[to]
    BY <1>2, <2>1
  <2>3. balanceOf' = [b EXCEPT ![to] = balanceOf[to] + a]
    BY <1>2, <2>1 DEF Move
  <2> DEFINE v == balanceOf[from] - a
  <2>4. b = [balanceOf EXCEPT ![from] = v] /\ v \in Int
    BY <2>2
  <2> HIDE DEF b, v
  <2>5. SumOf(b) = (SumOf(balanceOf) - balanceOf[from]) + v /\ SumOf(balanceOf) \in Int
    BY <2>1, <2>4, SumOfExcept
  <2>6. SumOf(balanceOf') = (SumOf(b) - b[to]) + (balanceOf[to] + a)
    BY <2>1, <2>2, <2>3, SumOfExcept
  <2>7. SumOf(balanceOf') = SumOf(balanceOf)
    BY <2>1, <2>2, <2>5, <2>6 DEF v
  <2> QED BY <2>7 DEF Balanced, Move
<1> QED BY <1>1, <1>2

(* Every call of the contract leaves the balances adding up to the supply  *)
(* (HEAPToken.sol).                                                        *)
LEMMA CallsBalance == HInv /\ Balanced /\ [TokenNext]_tokenVars => Balanced'
<1> SUFFICES ASSUME HInv, Balanced, [TokenNext]_tokenVars
             PROVE  Balanced'
  OBVIOUS
<1>1. TokenTypeOK /\ HInv'
  BY HeapNext DEF HInv
<1>2. CASE UNCHANGED tokenVars
  BY <1>2 DEF tokenVars, funds, Balanced
<1>3. ASSUME NEW sender \in Sender, caller' = sender, Call
      PROVE  Balanced'
  <2> USE <1>3, HeapAssumption DEF Sender, funds
  <2>1. ASSUME NEW to \in Address, NEW a \in Amounts, Transfer(to, a)
        PROVE  Balanced'
    <3>1. Move(sender, to, a) /\ a \in Uint /\ sender \in Address
      BY <2>1 DEF Transfer
    <3> QED BY <1>1, <3>1, MoveBalances
  <2>2. ASSUME NEW from \in Address, NEW to \in Address, NEW a \in Amounts,
               TransferFrom(from, to, a)
        PROVE  Balanced'
    <3>1. Move(from, to, a) /\ a \in Uint
      BY <2>2 DEF TransferFrom
    <3> QED BY <1>1, <3>1, MoveBalances
  <2>3. ASSUME NEW to \in Address, NEW a \in Amounts, Mint(to, a)
        PROVE  Balanced'
    <3>1. /\ a \in Nat /\ totalSupply \in Nat /\ balanceOf[to] \in Nat /\ MaxUint \in Nat
      BY <1>1 DEF TokenTypeOK, Uint
    <3>2. /\ balanceOf' = [balanceOf EXCEPT ![to] = balanceOf[to] + a]
          /\ balanceOf[to] + a <= MaxUint /\ totalSupply' = totalSupply + a
      BY <1>1, <2>3 DEF Mint, TokenTypeOK
    <3>3. /\ balanceOf[to] + a \in Uint /\ totalSupply' \in Int
          /\ totalSupply' - totalSupply = (balanceOf[to] + a) - balanceOf[to]
      BY <3>1, <3>2 DEF Uint
    <3> QED BY <1>1, <3>2, <3>3, OneBalance
  <2>4. ASSUME NEW a \in Amounts, Burn(a)
        PROVE  Balanced'
    <3>1. /\ a \in Nat /\ totalSupply \in Nat /\ balanceOf[sender] \in 0..MaxUint
          /\ MaxUint \in Nat /\ sender \in Address
      BY <1>1 DEF TokenTypeOK, Uint
    <3>2. /\ balanceOf' = [balanceOf EXCEPT ![sender] = balanceOf[sender] - a]
          /\ a <= balanceOf[sender] /\ totalSupply' = totalSupply - a
      BY <1>1, <2>4, <3>1 DEF Burn, TokenTypeOK
    <3>3. /\ balanceOf[sender] - a \in Uint /\ totalSupply' \in Int
          /\ totalSupply' - totalSupply = (balanceOf[sender] - a) - balanceOf[sender]
      BY <3>1, <3>2 DEF Uint
    <3> QED BY <1>1, <3>1, <3>2, <3>3, OneBalance
  <2>5. ASSUME \/ \E spender \in Spenders, a \in Amounts : Approve(spender, a)
               \/ \E newOwner \in Address : TransferOwnership(newOwner)
               \/ AcceptOwnership
               \/ \E enabled \in BOOLEAN : SetBuybackEnabled(enabled)
        PROVE  Balanced'
    <3>1. balanceOf' = balanceOf /\ totalSupply' = totalSupply
      BY <2>5 DEF Approve, TransferOwnership, AcceptOwnership, SetBuybackEnabled
    <3> QED BY <3>1 DEF Balanced
  <2> QED BY <2>1, <2>2, <2>3, <2>4, <2>5 DEF Call
<1> QED BY <1>2, <1>3 DEF TokenNext

(* Supply and balances agree: what HEAP.sol updates by hand in two places  *)
(* never comes apart.                                                      *)
THEOREM SupplyIsHeld == TokenSpec => []BalancesMatchSupply
<1>1. Balanced => BalancesMatchSupply
  BY SupplyIsSum
<1> QED BY <1>1, HeapInvariance, StartsBalanced, CallsBalance, PTL DEF TokenSpec

-----------------------------------------------------------------------------
(* No balance falls without the consent of its holder.                     *)
THEOREM Consent == TokenSpec => SpendingNeedsConsent
<1> DEFINE Consented(h) == \/ caller' = h
                           \/ allowance[h][caller'] = MaxUint
                           \/ balanceOf[h] - balanceOf'[h] =
                                allowance[h][caller'] - allowance'[h][caller']
<1>1. ASSUME HInv, [TokenNext]_tokenVars, NEW h \in Address, balanceOf'[h] < balanceOf[h]
      PROVE  Consented(h)
  <2> USE HeapAssumption DEF HInv, TokenTypeOK, Uint, Sender
  <2>1. CASE UNCHANGED tokenVars
    BY <1>1, <2>1 DEF tokenVars, funds
  <2>2. ASSUME NEW sender \in Sender, caller' = sender, Call
        PROVE  Consented(h)
    <3> USE <2>2 DEF funds, roles
    <3>1. ASSUME NEW to \in Address, NEW a \in Amounts, Transfer(to, a)
          PROVE  Consented(h)
      <4>1. CASE sender = h
        BY <4>1
      <4>2. CASE sender # h
        <5>1. ~(balanceOf'[h] < balanceOf[h])
          BY <1>1, <3>1, <4>2 DEF Transfer, Move
        <5> QED BY <1>1, <5>1
      <4> QED BY <4>1, <4>2
    <3>2. ASSUME NEW from \in Address, NEW to \in Address, NEW a \in Amounts,
                 TransferFrom(from, to, a)
          PROVE  Consented(h)
      <4>1. from = h /\ from # to
        <5>1. balanceOf \in [Address -> Nat] /\ a \in Nat
          BY <1>1
        <5>2. from = to => balanceOf' = balanceOf
          BY <3>2 DEF TransferFrom, Move
        <5>3. from # h /\ from # to => balanceOf'[h] = balanceOf[h] \/ balanceOf'[h] = balanceOf[h] + a
          BY <1>1, <3>2 DEF TransferFrom, Move
        <5> QED BY <1>1, <5>1, <5>2, <5>3
      <4>2. balanceOf'[h] = balanceOf[h] - a
        BY <1>1, <3>2, <4>1 DEF TransferFrom, Move
      <4>3. CASE allowance[h][caller'] = MaxUint
        BY <4>3
      <4>4. CASE allowance[h][caller'] # MaxUint
        <5>1. allowance'[h][caller'] = allowance[h][caller'] - a
          BY <1>1, <3>2, <4>1, <4>4 DEF TransferFrom
        <5>2. allowance[h][caller'] \in Nat /\ balanceOf[h] \in Nat /\ a \in Nat
          BY <1>1
        <5> QED BY <4>2, <5>1, <5>2
      <4> QED BY <4>3, <4>4
    <3>3. ASSUME \/ \E spender \in Spenders, a \in Amounts : Approve(spender, a)
                 \/ \E newOwner \in Address : TransferOwnership(newOwner)
                 \/ AcceptOwnership
                 \/ \E enabled \in BOOLEAN : SetBuybackEnabled(enabled)
          PROVE  Consented(h)
      <4>1. balanceOf' = balanceOf
        BY <3>3 DEF Approve, TransferOwnership, AcceptOwnership, SetBuybackEnabled
      <4> QED BY <1>1, <4>1
    <3>4. ASSUME NEW to \in Address, NEW a \in Amounts, Mint(to, a)
          PROVE  Consented(h)
      <4>1. ~(balanceOf'[h] < balanceOf[h])
        BY <1>1, <3>4 DEF Mint
      <4> QED BY <1>1, <4>1
    <3>5. ASSUME NEW a \in Amounts, Burn(a)
          PROVE  Consented(h)
      <4>1. sender # h => balanceOf'[h] = balanceOf[h]
        BY <1>1, <3>5 DEF Burn
      <4> QED BY <1>1, <4>1
    <3> QED BY <3>1, <3>2, <3>3, <3>4, <3>5 DEF Call
  <2> QED BY <1>1, <2>1, <2>2 DEF TokenNext
<1> DEFINE Step == \A h \in Address : balanceOf'[h] < balanceOf[h] => Consented(h)
<1>2. HInv /\ [TokenNext]_tokenVars => [Step]_tokenVars
  BY <1>1
<1> QED BY <1>2, HeapInvariance, PTL DEF SpendingNeedsConsent, TokenSpec

-----------------------------------------------------------------------------
(* The buyback.                                                            *)
(* A share of an amount, in whole units, is no more than it should be.     *)
LEMMA ShareOf ==
  ASSUME NEW a \in Nat, NEW s \in Nat \ {0}
  PROVE  a \div s \in Nat /\ a \div s <= a /\ (a \div s) * s <= a
<1>1. a \div s \in Int
  OBVIOUS
<1>2. (a \div s) * s <= a
  OBVIOUS
<1> QED BY <1>1, <1>2

(* A buyback of x or less takes at least a unit off for every Share units  *)
(* of x: with c cycles' worth of Share in x, no more than x - c is left.   *)
LEMMA WhatIsLeft ==
  ASSUME NEW x \in Nat, NEW a \in 0..x, NEW s \in Nat \ {0}, NEW c \in Nat,
         s * c <= x
  PROVE  a - a \div s <= x - c
<1> DEFINE d == a \div s
<1>1. d \in Nat /\ d <= a
  BY ShareOf
<1>2. a < (d + 1) * s
  OBVIOUS
<1> HIDE DEF d
<1>3. CASE d >= c
  BY <1>1, <1>3
<1>4. CASE d < c
  <2>1. PICK e \in Nat : c = d + 1 + e
    <3>1. c - d - 1 \in Nat /\ c = d + 1 + (c - d - 1)
      BY <1>1, <1>4
    <3> QED BY <3>1
  <2>2. s * c = (d + 1) * s + e * s
    BY <1>1, <2>1
  <2>3. (d + 1) * s \in Nat /\ e * s \in Nat /\ e <= e * s
    BY <1>1, <2>1
  <2> QED BY <1>1, <1>2, <2>1, <2>2, <2>3
<1> QED BY <1>1, <1>3, <1>4 DEF d

(* Rounding a profit to the nearest unit gives no negative amount.         *)
LEMMA NearestIsNat ==
  ASSUME NEW n \in Nat, NEW d \in Nat \ {0}
  PROVE  Nearest(n, d) \subseteq Nat
<1>1. n \div d \in Nat
  BY ShareOf
<1> QED BY <1>1 DEF Nearest

-----------------------------------------------------------------------------
(* The engine has no more accrued than was recorded with it; what it       *)
(* answered tells on which side of the threshold the accrued profit is.    *)
EngineInv ==
  /\ simulated \in BOOLEAN /\ action \in Answers
  /\ accrued \in Nat /\ profit \in 0..MaxProfit /\ swept \in Nat
  /\ others \in 0..profit
  /\ accrued + swept <= profit
  /\ history \in Seq(0..MaxProfit)
  /\ action = "due" => accrued >= MinProfit
  /\ action = "hold" => accrued < MinProfit
  /\ ReserveBounded

(* What has been spent on buybacks is a sum over the history.              *)
Kept == profit = accrued + SumOf(history) + swept

(* The reserve holds a threshold, and a cycle's profit is the share of it  *)
(* and of that profit.                                                     *)
LEMMA ReserveIsEnough ==
  /\ Reserve \in Nat /\ MinProfit <= Reserve
  /\ Share * CycleProfit <= Reserve + CycleProfit
<1> USE BuybackAssumption
<1> DEFINE r == (Share - 1) * CycleProfit
<1>1. r \in Nat /\ Share * CycleProfit = r + CycleProfit
  OBVIOUS
<1>2. Reserve = IF MinProfit > r THEN MinProfit ELSE r
  BY DEF Reserve
<1> HIDE DEF r
<1>3. Reserve \in Nat /\ MinProfit <= Reserve /\ r <= Reserve
  BY <1>1, <1>2
<1> QED BY <1>1, <1>3

(* A new engine has nothing recorded.                                      *)
LEMMA Starts == Init => EngineInv
BY BuybackAssumption, ReserveIsEnough DEF Init, EngineInv, Answers, ReserveBounded

(* The sums stay below the profit when no more is added to them than to it.*)
LEMMA SumsStay ==
  ASSUME NEW a \in Nat, NEW w \in Nat, NEW f \in 0..MaxProfit, NEW p \in Nat,
         a + w <= f, f + p <= MaxProfit, NEW b \in Nat, b <= a + p
  PROVE  f + p \in 0..MaxProfit /\ b + w <= f + p
BY BuybackAssumption

(* What fits with a number fits with a smaller one.                        *)
LEMMA SumsFall ==
  ASSUME NEW a \in Nat, NEW w \in Nat, NEW f \in Nat, a + w <= f,
         NEW b \in Nat, b <= a
  PROVE  b + w <= f
OBVIOUS

(* execute() takes its share of what has accrued when that reaches the     *)
(* threshold and the engine simulates; otherwise it leaves it alone.       *)
LEMMA SettleKeeps ==
  ASSUME NEW a \in 0..MaxProfit, Settle(a), history \in Seq(0..MaxProfit)
  PROVE  /\ accrued' \in Nat /\ accrued' <= a
         /\ history' \in Seq(0..MaxProfit)
         /\ action' \in {"hold", "buyback", "raised"}
         /\ action' = "hold" <=> a < MinProfit
         /\ action' = "hold" => accrued' = a
         /\ a >= MinProfit /\ simulated => accrued' = a - a \div Share
<1> DEFINE d == a \div Share
<1>1. a \in Nat /\ d \in Nat /\ d <= a
  BY BuybackAssumption, ShareOf
<1>2. d \in 0..MaxProfit /\ a - d \in Nat /\ a - d <= a
  BY <1>1, BuybackAssumption
<1>3. CASE a < MinProfit
  <2>1. accrued' = a /\ history' = history /\ action' = "hold"
    BY <1>3 DEF Settle, TooSmall
  <2> QED BY <1>1, <1>3, <2>1, BuybackAssumption
<1>4. CASE ~(a < MinProfit) /\ simulated
  <2>1. history' = Append(history, d) /\ accrued' = a - d /\ action' = "buyback"
    BY <1>4 DEF Settle, TooSmall, Buy
  <2> HIDE DEF d
  <2>2. history' \in Seq(0..MaxProfit)
    BY <1>2, <2>1
  <2> QED BY <1>2, <1>4, <2>1, <2>2 DEF d
<1>5. CASE ~(a < MinProfit) /\ ~simulated
  <2>1. accrued' = a /\ history' = history /\ action' = "raised"
    BY <1>5 DEF Settle, TooSmall
  <2> QED BY <1>1, <1>5, <2>1
<1> QED BY <1>3, <1>4, <1>5

(* What the engine's node does: it records, and executes when the profit   *)
(* reaches the threshold.                                                  *)
LEMMA NodeSettles ==
  ASSUME EngineInv, RunEngineNode
  PROVE  /\ accrued + CycleProfit \in 0..MaxProfit
         /\ Settle(accrued + CycleProfit)
         /\ profit + CycleProfit \in 0..MaxProfit
         /\ profit' = profit + CycleProfit
         /\ UNCHANGED <<simulated, swept, others>> /\ simulated
<1> USE BuybackAssumption
<1> DEFINE a == accrued + CycleProfit
<1>1. /\ accrued \in Nat /\ CycleProfit \in Nat /\ profit \in Nat
      /\ profit + CycleProfit <= MaxProfit /\ accrued <= profit
  BY DEF EngineInv, RunEngineNode, Record
<1>2. a \in 0..MaxProfit /\ profit + CycleProfit \in 0..MaxProfit
  BY <1>1
<1>3. profit' = profit + CycleProfit /\ UNCHANGED <<simulated, swept, others>>
  BY DEF RunEngineNode, Record
<1>4. Triggers(a) \/ TooSmall(a)
  BY <1>2 DEF Triggers, TooSmall
<1>5. Settle(a)
  BY <1>4 DEF RunEngineNode, Settle, Triggers, TooSmall
<1> QED BY <1>2, <1>3, <1>5 DEF RunEngineNode

(* Every step keeps the invariant of the engine.                           *)
LEMMA EngineSteps == EngineInv /\ [Next]_vars => EngineInv'
<1> SUFFICES ASSUME EngineInv, [Next]_vars PROVE EngineInv'
  OBVIOUS
<1> USE BuybackAssumption
<1>1. Reserve \in Nat /\ MinProfit <= Reserve /\ Reserve' = Reserve
  BY ReserveIsEnough DEF Reserve
<1>2. /\ accrued \in Nat /\ swept \in Nat /\ profit \in 0..MaxProfit
      /\ accrued + swept <= profit /\ others \in 0..profit
      /\ accrued <= Reserve + others
  BY DEF EngineInv, ReserveBounded
<1>3. ASSUME NEW p \in Profits, RecordProfit(p) PROVE EngineInv'
  <2>1. /\ p \in Nat /\ profit + p <= MaxProfit /\ profit' = profit + p
        /\ accrued' = accrued + p /\ swept' = swept /\ others' = others + p
        /\ UNCHANGED <<simulated, history>>
    BY <1>3 DEF RecordProfit, Record
  <2>2. /\ accrued' \in Nat /\ profit' \in 0..MaxProfit /\ swept' \in Nat
        /\ accrued' + swept' <= profit' /\ others' \in 0..profit'
        /\ accrued' <= Reserve + others'
    BY <1>1, <1>2, <2>1
  <2>3. action' = IF accrued' >= MinProfit THEN "due" ELSE "hold"
    BY <1>3 DEF RecordProfit, Triggers
  <2>4. /\ action' \in Answers
        /\ action' = "due" => accrued' >= MinProfit
        /\ action' = "hold" => accrued' < MinProfit
    BY <2>2, <2>3 DEF Answers
  <2>5. simulated' \in BOOLEAN /\ history' \in Seq(0..MaxProfit)
    BY <2>1 DEF EngineInv
  <2> QED BY <1>1, <2>2, <2>4, <2>5 DEF EngineInv, ReserveBounded
<1>4. CASE Execute
  <2>1. accrued \in 0..MaxProfit
    BY <1>2
  <2>2. Settle(accrued) /\ history \in Seq(0..MaxProfit)
    BY <1>4 DEF Execute, EngineInv
  <2>3. /\ accrued' \in Nat /\ accrued' <= accrued
        /\ history' \in Seq(0..MaxProfit)
        /\ action' \in {"hold", "buyback", "raised"}
        /\ action' = "hold" => accrued' < MinProfit
    BY <2>1, <2>2, SettleKeeps
  <2>4. UNCHANGED <<profit, swept, others, simulated>>
    BY <1>4 DEF Execute
  <2>5. simulated' \in BOOLEAN
    BY <2>4 DEF EngineInv
  <2>6. accrued' + swept <= profit
    <3>1. accrued' \in Nat /\ accrued' <= accrued /\ profit \in Nat
      BY <1>2, <2>3
    <3> QED BY <1>2, <3>1, SumsFall
  <2>7. accrued' <= Reserve' + others'
    BY <1>1, <1>2, <2>3, <2>4
  <2> QED BY <1>2, <2>3, <2>4, <2>5, <2>6, <2>7 DEF EngineInv, ReserveBounded, Answers
<1>5. CASE Reset
  <2>1. /\ accrued' = 0 /\ swept' = swept + accrued /\ action' = "none"
        /\ UNCHANGED <<simulated, history, profit, others>>
    BY <1>5 DEF Reset
  <2>2. simulated' \in BOOLEAN /\ history' \in Seq(0..MaxProfit)
    BY <2>1 DEF EngineInv
  <2>3. accrued' <= Reserve' + others'
    BY <1>1, <1>2, <2>1
  <2> QED BY <1>2, <2>1, <2>2, <2>3 DEF EngineInv, ReserveBounded, Answers
<1>6. CASE RunEngineNode
  <2> DEFINE a == accrued + CycleProfit
  <2>1. /\ a \in 0..MaxProfit /\ Settle(a)
        /\ profit + CycleProfit \in 0..MaxProfit
        /\ profit' = profit + CycleProfit
        /\ UNCHANGED <<simulated, swept, others>> /\ simulated
    BY <1>6, NodeSettles
  <2>2. history \in Seq(0..MaxProfit) /\ simulated' \in BOOLEAN
    BY <2>1 DEF EngineInv
  <2>3. /\ accrued' \in Nat /\ accrued' <= a
        /\ history' \in Seq(0..MaxProfit)
        /\ action' \in {"hold", "buyback", "raised"}
        /\ action' = "hold" <=> a < MinProfit
        /\ action' = "hold" => accrued' = a
        /\ a >= MinProfit => accrued' = a - a \div Share
    BY <2>1, <2>2, SettleKeeps
  <2>4. accrued' + swept <= profit + CycleProfit
    <3>1. accrued' \in Nat /\ accrued' <= accrued + CycleProfit
      BY <2>3
    <3>2. profit + CycleProfit <= MaxProfit /\ CycleProfit \in Nat
      BY <2>1
    <3> HIDE DEF a
    <3> QED BY <1>2, <3>1, <3>2, SumsStay
  <2>5. accrued' <= Reserve + others
    <3>1. CASE a < MinProfit
      BY <1>1, <1>2, <2>3, <3>1
    <3>2. CASE a >= MinProfit
      <4> DEFINE x == Reserve + others + CycleProfit
      <4>1. x \in Nat /\ a \in 0..x /\ Share * CycleProfit <= x
        <5>1. x \in Nat /\ a \in Nat /\ a <= x
          BY <1>1, <1>2
        <5>2. Share * CycleProfit \in Nat
          OBVIOUS
        <5>3. Share * CycleProfit <= Reserve + CycleProfit
          BY ReserveIsEnough
        <5>4. Share * CycleProfit <= x
          BY <1>1, <1>2, <5>2, <5>3
        <5> QED BY <5>1, <5>4
      <4>2. a - a \div Share <= x - CycleProfit
        <5> HIDE DEF x, a
        <5> QED BY <4>1, WhatIsLeft
      <4>3. x - CycleProfit = Reserve + others
        BY <1>1, <1>2
      <4> QED BY <2>3, <3>2, <4>2, <4>3
    <3> QED BY <2>1, <3>1, <3>2
  <2>6. action' = "hold" => accrued' < MinProfit
    BY <2>3
  <2>7. /\ profit' \in 0..MaxProfit /\ swept' \in Nat /\ others' \in 0..profit'
        /\ accrued' + swept' <= profit' /\ accrued' <= Reserve' + others'
    BY <1>1, <1>2, <2>1, <2>4, <2>5
  <2> HIDE DEF a
  <2> QED BY <2>2, <2>3, <2>6, <2>7 DEF EngineInv, ReserveBounded, Answers
<1>7. CASE Restart
  BY <1>1, <1>7 DEF Restart, EngineInv, ReserveBounded, Answers
<1>8. CASE \/ \E pnl \in PnLs : RunStatelessNode(pnl)
           \/ UNCHANGED vars
  <2>1. UNCHANGED <<simulated, engine>>
    BY <1>8 DEF RunStatelessNode, vars
  <2> QED BY <1>1, <2>1 DEF engine, EngineInv, ReserveBounded
<1> QED BY <1>3, <1>4, <1>5, <1>6, <1>7, <1>8 DEF Next

(* The stateless node sets aside no negative amount.                       *)
NodeInv == allocated \in Nat

(* Every step keeps that.                                                  *)
LEMMA NodeSteps == NodeInv /\ [Next]_vars => NodeInv'
<1> SUFFICES ASSUME NodeInv, [Next]_vars PROVE allocated' \in Nat
  BY DEF NodeInv
<1> USE BuybackAssumption DEF NodeInv
<1>1. ASSUME NEW pnl \in PnLs, RunStatelessNode(pnl) PROVE allocated' \in Nat
  <2>1. CASE Profitable(pnl)
    <3>1. pnl \in Nat
      BY <2>1 DEF Profitable
    <3>2. Nearest(pnl, Share) \subseteq Nat
      BY <3>1, NearestIsNat
    <3> QED BY <1>1, <2>1, <3>2 DEF RunStatelessNode
  <2>2. CASE ~Profitable(pnl)
    BY <1>1, <2>2 DEF RunStatelessNode
  <2> QED BY <2>1, <2>2
<1>2. CASE \/ \E p \in Profits : RecordProfit(p)
           \/ Execute \/ Reset \/ RunEngineNode \/ Restart \/ UNCHANGED vars
  BY <1>2 DEF RecordProfit, Execute, Reset, RunEngineNode, Restart, vars
<1> QED BY <1>1, <1>2 DEF Next

(* Both hold at all times.                                                 *)
LEMMA Invariance == Spec => []EngineInv /\ []NodeInv
<1>1. Spec => []EngineInv
  BY Starts, EngineSteps, PTL DEF Spec
<1>2. Init => NodeInv
  BY DEF Init, NodeInv
<1>3. Spec => []NodeInv
  BY <1>2, NodeSteps, PTL DEF Spec
<1> QED BY <1>1, <1>3

-----------------------------------------------------------------------------
(* Every reachable state has its types: nothing that has accrued is        *)
(* negative, and neither is what the stateless node sets aside, whatever   *)
(* was lost (agent/nodes/buyback.py:17-22).                                *)
THEOREM TypeCorrect == Spec => []TypeOK
<1>1. EngineInv /\ NodeInv => TypeOK
  BY BuybackAssumption DEF EngineInv, NodeInv, TypeOK
<1> QED BY <1>1, Invariance, PTL

(* An engine driven by its node holds back no more than the threshold or   *)
(* Share - 1 cycles' profit, besides what others recorded with it, for     *)
(* every profit, threshold and share: whatever lies above is spent, since  *)
(* what a buyback leaves counts towards the next one                       *)
(* (heap_token/buyback.py:104, buyback_node.py:32-36).                     *)
THEOREM ReserveIsBounded == Spec => []ReserveBounded
<1>1. EngineInv => ReserveBounded
  BY DEF EngineInv
<1> QED BY <1>1, Invariance, PTL

(* The threshold of record_profit is that of execute(), for every          *)
(* threshold and every order of calls: BUYBACK is carried out or raises,   *)
(* HOLD stays one, and the node holds with less than the threshold left    *)
(* (heap_token/buyback.py:74, :80).                                        *)
THEOREM AnswersCarriedOut == Spec => AnswerCarriedOut
<1> DEFINE Step ==
      /\ Execute /\ action = "due" => action' \in {"buyback", "raised"}
      /\ Execute /\ action = "hold" => action' = "hold"
      /\ RunEngineNode /\ action' = "hold" => accrued' < MinProfit
<1>1. EngineInv /\ EngineInv' /\ [Next]_vars => [Step]_vars
  <2> SUFFICES ASSUME EngineInv, EngineInv' PROVE Step
    OBVIOUS
  <2>1. ASSUME Execute
        PROVE  /\ action' \in {"hold", "buyback", "raised"}
               /\ action' = "hold" <=> accrued < MinProfit
    <3>1. accrued \in 0..MaxProfit
      BY BuybackAssumption DEF EngineInv
    <3>2. Settle(accrued) /\ history \in Seq(0..MaxProfit)
      BY <2>1 DEF Execute, EngineInv
    <3> QED BY <3>1, <3>2, SettleKeeps
  <2>2. /\ action = "due" => ~(accrued < MinProfit)
        /\ action = "hold" => accrued < MinProfit
    BY BuybackAssumption DEF EngineInv
  <2>3. action' = "hold" => accrued' < MinProfit
    BY DEF EngineInv
  <2> QED BY <2>1, <2>2, <2>3
<1> QED BY <1>1, Invariance, PTL DEF AnswerCarriedOut, Spec
-----------------------------------------------------------------------------
(* What is spent is what leaves the accrued profit: an event enters the    *)
(* history with the amount that is taken.                                  *)
LEMMA SettleSpends ==
  ASSUME NEW a \in 0..MaxProfit, Settle(a), history \in Seq(0..MaxProfit)
  PROVE  /\ accrued' + SumOf(history') = a + SumOf(history)
         /\ accrued' \in Int /\ SumOf(history') \in Int /\ SumOf(history) \in Int
<1> DEFINE d == a \div Share
<1>1. a \in Int /\ d \in Int
  BY BuybackAssumption, ShareOf
<1>2. history \in Seq(Int)
  BY BuybackAssumption
<1>3. SumOf(history) \in Int /\ SumOf(Append(history, d)) = SumOf(history) + d
  BY <1>1, <1>2, SumOfAppend
<1>4. CASE ~TooSmall(a) /\ simulated
  <2>1. history' = Append(history, d) /\ accrued' = a - d
    BY <1>4 DEF Settle, Buy
  <2> HIDE DEF d
  <2> QED BY <1>1, <1>3, <2>1
<1>5. CASE ~(~TooSmall(a) /\ simulated)
  <2>1. history' = history /\ accrued' = a
    BY <1>5 DEF Settle
  <2> QED BY <1>1, <1>3, <2>1
<1> QED BY <1>4, <1>5

(* Every step accounts for the profit it moves: reported profit is         *)
(* accumulated, spent or thrown away with its cycle.                       *)
LEMMA KeptSteps == EngineInv /\ Kept /\ [Next]_vars => Kept'
<1> SUFFICES ASSUME EngineInv, Kept, [Next]_vars PROVE Kept'
  OBVIOUS
<1> USE BuybackAssumption
<1>1. /\ profit \in Int /\ accrued \in Int /\ swept \in Int
      /\ accrued \in 0..MaxProfit /\ history \in Seq(0..MaxProfit)
      /\ SumOf(history) \in Int
  <2>1. history \in Seq(Int) /\ 0 \in Int
    BY DEF EngineInv
  <2>2. SumOf(history) \in Int
    BY <2>1, SumOfAppend
  <2> QED BY <2>2 DEF EngineInv
<1>2. profit = accrued + SumOf(history) + swept
  BY DEF Kept
<1>3. ASSUME NEW p \in Profits, RecordProfit(p) PROVE Kept'
  <2>1. /\ p \in Int /\ profit' = profit + p /\ accrued' = accrued + p
        /\ swept' = swept /\ history' = history
    BY <1>3 DEF RecordProfit, Record
  <2> QED BY <1>1, <1>2, <2>1, SMTT(60) DEF Kept
<1>4. CASE Execute
  <2>1. Settle(accrued) /\ profit' = profit /\ swept' = swept
    BY <1>4 DEF Execute
  <2>2. /\ accrued' + SumOf(history') = accrued + SumOf(history)
        /\ accrued' \in Int /\ SumOf(history') \in Int
    BY <1>1, <2>1, SettleSpends
  <2> QED BY <1>1, <1>2, <2>1, <2>2 DEF Kept
<1>5. CASE Reset
  BY <1>1, <1>2, <1>5 DEF Reset, Kept
<1>6. CASE RunEngineNode
  <2>1. /\ accrued + CycleProfit \in 0..MaxProfit
        /\ Settle(accrued + CycleProfit)
        /\ profit' = profit + CycleProfit /\ swept' = swept
    BY <1>6, NodeSettles
  <2>2. /\ accrued' + SumOf(history') = (accrued + CycleProfit) + SumOf(history)
        /\ accrued' \in Int /\ SumOf(history') \in Int
    BY <1>1, <2>1, SettleSpends
  <2> QED BY <1>1, <1>2, <2>1, <2>2, SMTT(60) DEF Kept
<1>7. CASE Restart
  BY <1>7, SumOfEmpty DEF Restart, Kept
<1>8. CASE (\E pnl \in PnLs : RunStatelessNode(pnl)) \/ UNCHANGED vars
  BY <1>2, <1>8 DEF RunStatelessNode, vars, engine, Kept
<1> QED BY <1>3, <1>4, <1>5, <1>6, <1>7, <1>8 DEF Next

(* Every unit of profit recorded with an engine is still accrued, in a     *)
(* buyback of its history or swept out by a reset, for every share,        *)
(* threshold and history, and whatever execute() raised                    *)
(* (heap_token/buyback.py:78-113).                                         *)
THEOREM ProfitIsKept == Spec => []NothingLost
<1>1. Init => Kept
  BY SumOfEmpty DEF Init, Kept
<1>2. Spec => []Kept
  BY <1>1, Invariance, KeptSteps, PTL DEF Spec
<1>3. Kept => NothingLost
  BY SumIsFold DEF Kept, NothingLost, Bought, FoldSeq
<1> QED BY <1>2, <1>3, PTL
=============================================================================
